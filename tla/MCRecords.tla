------------------------------- MODULE MCRecords -------------------------------
(***************************************************************************)
(* A small instance of Records: a process, a task of it, an operation, a   *)
(* crew, a montage task, a template and a signer to begin with; bodies of  *)
(* every table, good and refused ones; codes in both cases.                *)
(***************************************************************************)
EXTENDS Records, TLC

CONSTANTS r1, r2, r3, s1, s2, s3, process, task, operation, crew, job, template, signer

MCSecond == r1 :> s1 @@ r2 :> s2 @@ r3 :> s3

\* No body names a request or its rows.
Others ==
    {p @@ [s \in {s1, s2, s3} |-> MCSecond[p[CHOOSE r \in Requests : MCSecond[r] = s]]] :
        p \in Permutations(Requests)}

MCUpper == [c \in Codes |-> "K1"]

Start(t, taken) == [c \in Columns[t] |-> IF c \in DOMAIN taken THEN taken[c] ELSE "initial"]

MCRows ==
    [i \in {process, task, operation, crew, job, template, signer} |->
        [code |-> "K1",
         table |-> CASE i = process -> "process" [] i = task -> "bpm_task" [] i = operation -> "operation"
                     [] i = crew -> "crew" [] i = job -> "montage_task"
                     [] i = template -> "template" [] i = signer -> "signer",
         cells |-> CASE i = process -> Start("process", [name |-> "a"])
                     [] i = task -> Start("bpm_task", [title |-> "a", process |-> process, dueAt |-> "a"])
                     [] i = operation -> Start("operation", [name |-> "a"])
                     [] i = crew -> Start("crew", [name |-> "a"])
                     [] i = job -> Start("montage_task", [title |-> "a", crew |-> crew, vehicle |-> "empty",
                                                          scheduledAt |-> "a"])
                     [] i = template -> Start("template", [name |-> "a"])
                     [] i = signer -> Start("signer", [fullName |-> "a", email |-> "a"])]]

New(t, code, cells) == [op |-> "create", table |-> t, id |-> None, code |-> code, cells |-> cells]
Edit(t, i, cells) == [op |-> "update", table |-> t, id |-> i, code |-> None, cells |-> cells]

MCSendings ==
    {New("vehicle", code, [name |-> "a"]) : code \in {"k1", "K1"}}
    \cup {New(t, "k1", [name |-> "a"]) : t \in {"process", "work_center", "route", "template"}}
    \cup {New("vehicle", None, [name |-> "a"]), New("vehicle", "K1", [plate |-> "a"]),
          New("form", "k1", [process |-> process, name |-> "b"]),
          New("form", "k1", [process |-> crew, name |-> "b"]),
          New("bpm_task", "k1", [process |-> "bad", title |-> "a"]),
          New("signer", "k1", [fullName |-> "a", email |-> "blank"])}
    \cup {Edit("process", process, [name |-> "b", status |-> "blank"]),
          Edit("process", process, [status |-> "a", definition |-> "b"]),
          Edit("process", process, [status |-> "bad"]),
          Edit("bpm_task", task, [status |-> "a"]),
          Edit("bpm_task", task, [dueAt |-> "blank", process |-> crew]),
          Edit("operation", operation, [duration |-> "blank"]),
          Edit("operation", operation, [duration |-> "b", name |-> "odd"]),
          Edit("crew", crew, [name |-> "blank"]),
          Edit("crew", job, [name |-> "b"]),
          Edit("montage_task", job, [crew |-> "blank", scheduledAt |-> "blank"]),
          Edit("montage_task", job, [crew |-> crew, status |-> "bad"]),
          Edit("montage_task", job, [vehicle |-> crew]),
          Edit("template", template, [description |-> "blank", body |-> "b"]),
          Edit("template", template, [version |-> "bad"]),
          Edit("signer", signer, [fullName |-> "b", email |-> "blank"]),
          Edit("signer", signer, [phone |-> "b", email |-> "odd"])}
===============================================================================
