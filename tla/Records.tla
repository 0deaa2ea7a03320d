-------------------------------- MODULE Records --------------------------------
(***************************************************************************)
(* The records that the desks of bpm (processes, forms, tasks), mes (work  *)
(* centres, operations, routes), montage (crews, vehicles, tasks) and docs *)
(* (templates, signers) keep: eleven tables whose rows are made under a    *)
(* code and edited a few columns at a time, by several people and through  *)
(* two programs at once, the desk's service and its copy in the gateway,   *)
(* which agree on all that is modelled here.                               *)
(*                                                                         *)
(* Each table is described by the rules of its code, layer by layer: what  *)
(* the handler reads, what the service asks, which columns the repository  *)
(* writes.  The actions interpret the rules; each is one SQL statement,    *)
(* which PostgreSQL runs on the newest row.  A reply may be lost, and a    *)
(* request whose reply is lost may be sent once more.  No operation        *)
(* deletes.                                                                *)
(***************************************************************************)
EXTENDS Naturals, FiniteSets

CONSTANTS
    Requests,       \* a create makes a row of its own id,
    Second,         \* or, sent once more, of this one
    Codes,          \* codes as people type them
    Upper,          \* what strings.ToUpper makes of each
    None,           \* no code given
    Sendings,       \* what may be sent: [op, table, id, code, cells]
    InitialRows     \* a function from ids to rows

Columns ==
    [process |-> {"name", "description", "status", "definition", "version"},
     form |-> {"process", "name", "version", "schema", "uiSchema"},
     bpm_task |-> {"process", "title", "status", "assignee", "dueAt", "payload"},
     work_center |-> {"name", "description"},
     operation |-> {"name", "description", "duration"},
     route |-> {"name", "description"},
     crew |-> {"name", "specialization"},
     vehicle |-> {"name", "plate", "capacity"},
     montage_task |-> {"title", "status", "crew", "vehicle", "scheduledAt", "location"},
     template |-> {"name", "description", "version", "body"},
     signer |-> {"fullName", "position", "email", "phone"}]
Tables == DOMAIN Columns

\* Columns of JSON: whatever stands there in the body is a value.
Json == {"definition", "schema", "uiSchema", "payload", "body"}

\* The table that a column refers to by a foreign key.
References ==
    [t \in Tables |-> CASE t \in {"form", "bpm_task"} -> [process |-> "process"]
                        [] t = "montage_task" -> [crew |-> "crew", vehicle |-> "vehicle"]
                        [] OTHER -> [c \in {} |-> ""]]

SecondIds == {Second[r] : r \in Requests}
Ids == DOMAIN InitialRows \cup Requests \cup SecondIds

\* A value sent: blank, of another JSON type, one that a check of its column refuses, or fine.
Sent == {"blank", "odd", "bad", "a", "b"} \cup Ids
\* A value stored: NULL or empty, what the table's DEFAULT or the INSERT gives, or one sent.
Values == {"empty", "initial", "bad", "a", "b"} \cup Ids

AreCells(t, cells) == cells \in [Columns[t] -> Values]
IsRow(row) ==
    DOMAIN row = {"table", "code", "cells"} /\ row.table \in Tables /\ row.code \in Codes
    /\ AreCells(row.table, row.cells)

ASSUME UpperIsACode == Upper \in [Codes -> Codes] /\ \A c \in Codes : Upper[Upper[c]] = Upper[c]
ASSUME NoneIsNoCode == None \notin Codes
ASSUME InitialRowsAreRows ==
    /\ \A i \in DOMAIN InitialRows :
          IsRow(InitialRows[i]) /\ InitialRows[i].code = Upper[InitialRows[i].code]
    /\ \A i, j \in DOMAIN InitialRows :
          InitialRows[i].table = InitialRows[j].table /\ InitialRows[i].code = InitialRows[j].code => i = j
ASSUME IdsAreFresh ==
    /\ DOMAIN Second = Requests /\ \A q, r \in Requests : Second[q] = Second[r] => q = r
    /\ Requests \cap SecondIds = {} /\ DOMAIN InitialRows \cap (Requests \cup SecondIds) = {}
ASSUME SendingsAreSendings ==
    \A s \in Sendings :
        /\ s.op \in {"create", "update"} /\ s.table \in Tables
        /\ s.id \in Ids \cup {None} /\ s.code \in Codes \cup {None}
        /\ DOMAIN s.cells \subseteq Columns[s.table]
        /\ \A c \in DOMAIN s.cells : s.cells[c] \in IF c \in Json THEN {"a", "b"} ELSE Sent
-------------------------------------------------------------------------------
(* What a service asks: columns it will not have blank, columns whose value is checked, and, of *)
(* an update, columns that a blank leaves as they are.                                          *)

Asks(needs, checks, keeps) == [needs |-> needs, checks |-> checks, keeps |-> keeps]

(* Creating: what the service asks, and the columns that the repository's INSERT takes from the *)
(* body; it leaves the others to their defaults.                                                *)

CreateProcess == Asks({"name"}, {"definition"}, {})
CreateForm == Asks({"process", "name"}, {"process", "schema", "uiSchema"}, {})
CreateBpmTask == Asks({"process", "title"}, {"process", "payload", "dueAt"}, {})
CreateWorkCenter == Asks({"name"}, {}, {})
CreateOperation == Asks({"name"}, {"duration"}, {})
CreateRoute == Asks({"name"}, {}, {})
CreateCrew == Asks({"name"}, {}, {})
CreateVehicle == Asks({"name"}, {}, {})
\* The crew and the vehicle are checked by the repository.
CreateMontageTask == Asks({"title"}, {"scheduledAt", "crew", "vehicle"}, {})
CreateTemplate == Asks({"name"}, {"body"}, {})
CreateSigner == Asks({"fullName"}, {}, {})

CreateRules ==
    [process |-> CreateProcess, form |-> CreateForm, bpm_task |-> CreateBpmTask,
     work_center |-> CreateWorkCenter, operation |-> CreateOperation, route |-> CreateRoute,
     crew |-> CreateCrew, vehicle |-> CreateVehicle, montage_task |-> CreateMontageTask,
     template |-> CreateTemplate, signer |-> CreateSigner]

TakesProcess == {"name", "description", "definition"}
TakesForm == {"process", "name", "schema", "uiSchema"}
TakesBpmTask == {"process", "title", "assignee", "dueAt", "payload"}
TakesWorkCenter == {"name", "description"}
TakesOperation == {"name", "description", "duration"}
TakesRoute == {"name", "description"}
TakesCrew == {"name", "specialization"}
TakesVehicle == {"name", "plate", "capacity"}
TakesMontageTask == {"title", "crew", "vehicle", "scheduledAt", "location"}
TakesTemplate == {"name", "description", "body"}
TakesSigner == {"fullName", "position", "email", "phone"}

TakeRules ==
    [process |-> TakesProcess, form |-> TakesForm, bpm_task |-> TakesBpmTask,
     work_center |-> TakesWorkCenter, operation |-> TakesOperation, route |-> TakesRoute,
     crew |-> TakesCrew, vehicle |-> TakesVehicle, montage_task |-> TakesMontageTask,
     template |-> TakesTemplate, signer |-> TakesSigner]
-------------------------------------------------------------------------------
(* Reading an update: the columns whose value of another type the handler refuses, those that *)
(* it passes over, and those whose blank it passes over.                                       *)

Reads(refuses, skips, drops) == [refuses |-> refuses, skips |-> skips, drops |-> drops]

ReadsProcess == Reads({"name", "description", "status", "version"}, {}, {})
ReadsForm == Reads({"name", "version"}, {}, {})
ReadsBpmTask == Reads({"title", "status", "assignee", "dueAt"}, {}, {})
ReadsWorkCenter == Reads({}, {"name", "description"}, {})
ReadsOperation == Reads({"duration"}, {"name", "description"}, {"duration"})
ReadsRoute == Reads({}, {"name", "description"}, {})
ReadsCrew == Reads({}, {"name", "specialization"}, {})
ReadsVehicle == Reads({}, {"name", "plate", "capacity"}, {})
ReadsMontageTask == Reads({}, {"title", "status", "crew", "vehicle", "scheduledAt", "location"}, {})
ReadsTemplate == Reads({"name", "description", "version"}, {}, {})
\* The body must be a map of strings.
ReadsSigner == Reads({"fullName", "position", "email", "phone"}, {}, {})

ReadRules ==
    [process |-> ReadsProcess, form |-> ReadsForm, bpm_task |-> ReadsBpmTask,
     work_center |-> ReadsWorkCenter, operation |-> ReadsOperation, route |-> ReadsRoute,
     crew |-> ReadsCrew, vehicle |-> ReadsVehicle, montage_task |-> ReadsMontageTask,
     template |-> ReadsTemplate, signer |-> ReadsSigner]

(* Updating: what the service asks. *)

UpdateProcess == Asks({"name"}, {"status", "definition", "version"}, {"status"})
UpdateForm == Asks({"name"}, {"version", "schema", "uiSchema"}, {})
UpdateBpmTask == Asks({"title", "status"}, {"status", "dueAt", "payload"}, {})
UpdateWorkCenter == Asks({"name"}, {}, {})
UpdateOperation == Asks({"name"}, {"duration"}, {})
UpdateRoute == Asks({"name"}, {}, {})
UpdateCrew == Asks({"name"}, {}, {})
UpdateVehicle == Asks({"name"}, {}, {})
UpdateMontageTask == Asks({"title", "status"}, {"scheduledAt", "crew", "vehicle"}, {"scheduledAt"})
UpdateTemplate == Asks({"name"}, {"version", "body"}, {})
UpdateSigner == Asks({"fullName"}, {}, {})

UpdateRules ==
    [process |-> UpdateProcess, form |-> UpdateForm, bpm_task |-> UpdateBpmTask,
     work_center |-> UpdateWorkCenter, operation |-> UpdateOperation, route |-> UpdateRoute,
     crew |-> UpdateCrew, vehicle |-> UpdateVehicle, montage_task |-> UpdateMontageTask,
     template |-> UpdateTemplate, signer |-> UpdateSigner]

(* Writing an update: the columns that the repository sets when they are given. *)

SetsProcess == {"name", "description", "status", "definition", "version"}
SetsForm == {"name", "version", "schema", "uiSchema"}
SetsBpmTask == {"title", "status", "assignee", "dueAt", "payload"}
SetsWorkCenter == {"name", "description"}
SetsOperation == {"name", "description", "duration"}
SetsRoute == {"name", "description"}
SetsCrew == {"name", "specialization"}
SetsVehicle == {"name", "plate", "capacity"}
SetsMontageTask == {"title", "status", "crew", "vehicle", "scheduledAt", "location"}
SetsTemplate == {"name", "description", "body", "version"}
SetsSigner == {"fullName", "position", "email", "phone"}

SetRules ==
    [process |-> SetsProcess, form |-> SetsForm, bpm_task |-> SetsBpmTask,
     work_center |-> SetsWorkCenter, operation |-> SetsOperation, route |-> SetsRoute,
     crew |-> SetsCrew, vehicle |-> SetsVehicle, montage_task |-> SetsMontageTask,
     template |-> SetsTemplate, signer |-> SetsSigner]
-------------------------------------------------------------------------------
VARIABLES
    rows,       \* the eleven tables: a function from ids to rows
    pc,         \* where a request stands
    sent,       \* what it brought
    tries,      \* how often it has been sent
    answer,
    shown,      \* the cells in its answer
    last        \* history: the value last given to each cell

vars == <<rows, pc, sent, tries, answer, shown, last>>

NoSending == [op |-> "none"]
NoCells == [c \in {} |-> "empty"]

TypeOK ==
    /\ DOMAIN rows \subseteq Ids /\ \A i \in DOMAIN rows : IsRow(rows[i])
    /\ pc \in [Requests -> {"idle", "insert", "update", "get", "replied"}]
    /\ sent \in [Requests -> Sendings \cup {NoSending}]
    /\ tries \in [Requests -> 0 .. 2]
    /\ answer \in [Requests -> {"none", "ok", "invalid", "not_found", "failed"}]
    /\ DOMAIN shown = Requests /\ \A r \in Requests : shown[r] = NoCells \/ AreCells(sent[r].table, shown[r])
    /\ DOMAIN last = DOMAIN rows /\ \A i \in DOMAIN rows : AreCells(rows[i].table, last[i])

Init ==
    /\ rows = InitialRows
    /\ pc = [r \in Requests |-> "idle"]
    /\ sent = [r \in Requests |-> NoSending]
    /\ tries = [r \in Requests |-> 0]
    /\ answer = [r \in Requests |-> "none"]
    /\ shown = [r \in Requests |-> NoCells]
    /\ last = [i \in DOMAIN InitialRows |-> InitialRows[i].cells]

table(r) == sent[r].table
given(r) == sent[r].cells
Goto(r, label) == pc' = [pc EXCEPT ![r] = label] /\ UNCHANGED <<answer, shown>>
Reply(r, how, cells) ==
    /\ pc' = [pc EXCEPT ![r] = "replied"]
    /\ answer' = [answer EXCEPT ![r] = how]
    /\ shown' = [shown EXCEPT ![r] = cells]
Refuse(r, how) == Reply(r, how, NoCells)
-------------------------------------------------------------------------------
IsBlank(s, c) == c \notin DOMAIN s.cells \/ s.cells[c] = "blank"
GivesAmong(s, v, S) == \E c \in S \cap DOMAIN s.cells : s.cells[c] = v

\* BodyParser, and the service: a value of another type, a blank or a bad one is refused.
AcceptsCreate(s) ==
    LET rule == CreateRules[s.table]
    IN  /\ ~GivesAmong(s, "odd", TakeRules[s.table])
        /\ s.code # None
        /\ \A c \in rule.needs : ~IsBlank(s, c)
        /\ ~GivesAmong(s, "bad", rule.checks)

\* The handler, then the service.
AcceptsUpdate(s) ==
    /\ ~GivesAmong(s, "odd", ReadRules[s.table].refuses)
    /\ ~GivesAmong(s, "blank", UpdateRules[s.table].needs)
    /\ ~GivesAmong(s, "bad", UpdateRules[s.table].checks)

\* The columns that are left for the repository.
Heard(s) ==
    {c \in DOMAIN s.cells \cap SetRules[s.table] :
        /\ ~(s.cells[c] = "odd" /\ c \in ReadRules[s.table].skips)
        /\ ~(s.cells[c] = "blank" /\ c \in ReadRules[s.table].drops \cup UpdateRules[s.table].keeps)}

\* An update that gives no column is a SELECT.
Receive(r) ==
    /\ pc[r] = "idle"
    /\ \E s \in Sendings :
          /\ sent' = [sent EXCEPT ![r] = s]
          /\ IF s.op = "create"
             THEN IF AcceptsCreate(s) THEN Goto(r, "insert") ELSE Refuse(r, "invalid")
             ELSE IF ~AcceptsUpdate(s) THEN Refuse(r, "invalid")
             ELSE Goto(r, IF Heard(s) = {} THEN "get" ELSE "update")
    /\ tries' = [tries EXCEPT ![r] = 1]
    /\ UNCHANGED <<rows, last>>
-------------------------------------------------------------------------------
\* (mutant) the code is taken as it was typed.
CodeAsTyped(r) == sent[r].code

CodeOf(r) == Upper[sent[r].code]

\* (mutant) a blank is stored as it came.
AsSent(v) == v

\* NULLIF, NULL or the empty string; {} for JSON.
Stored(v) == IF v = "blank" THEN "empty" ELSE v

NewCells(r) ==
    [c \in Columns[table(r)] |->
        IF c \notin TakeRules[table(r)] THEN "initial"
        ELSE IF IsBlank(sent[r], c) THEN "empty" ELSE given(r)[c]]

RefersWell(t, cells) ==
    \A c \in DOMAIN References[t] :
        cells[c] # "empty" => cells[c] \in DOMAIN rows /\ rows[cells[c]].table = References[t][c]

With(f, i, v) == [j \in DOMAIN f \cup {i} |-> IF j = i THEN v ELSE f[j]]

\* INSERT; UNIQUE (code) and the foreign keys may refuse it.
Insert(r) ==
    /\ pc[r] = "insert"
    /\ LET taken == \E i \in DOMAIN rows : rows[i].table = table(r) /\ rows[i].code = CodeOf(r)
           row == [table |-> table(r), code |-> CodeOf(r), cells |-> NewCells(r)]
           id == IF tries[r] = 1 THEN r ELSE Second[r]
       IN  \/ /\ taken \/ ~RefersWell(table(r), row.cells)
              /\ Refuse(r, "invalid")
              /\ UNCHANGED <<rows, last>>
           \/ /\ ~taken /\ RefersWell(table(r), row.cells)
              /\ rows' = With(rows, id, row)
              /\ last' = With(last, id, row.cells)
              /\ Reply(r, "ok", row.cells)
    /\ UNCHANGED <<sent, tries>>

\* (mutant) a column left out is blank.
AfterPut(r, cells) ==
    [c \in DOMAIN cells |->
        IF c \in Heard(sent[r]) THEN Stored(given(r)[c])
        ELSE IF c \in SetRules[table(r)] THEN "empty" ELSE cells[c]]

\* SET the columns given.
AfterEdit(r, cells) == [c \in DOMAIN cells |-> IF c \in Heard(sent[r]) THEN Stored(given(r)[c]) ELSE cells[c]]

Finds(r) == sent[r].id \in DOMAIN rows /\ rows[sent[r].id].table = table(r)

\* What a request has asked for, however the code comes to it: every column given, except those
\* that the code is silent about: a value of another type, another process for a form or a task,
\* and a blank status of a process, duration of an operation or time of a montage task.
Silent(t, c, v) ==
    \/ v = "odd"
    \/ <<t, c>> \in {<<"form", "process">>, <<"bpm_task", "process">>}
    \/ v = "blank" /\ <<t, c>> \in {<<"process", "status">>, <<"operation", "duration">>, <<"montage_task", "scheduledAt">>}
Asked(r) == {c \in DOMAIN given(r) : ~Silent(table(r), c, given(r)[c])}
Tells(r, cells) == [c \in DOMAIN cells |->
    IF c \notin Asked(r) THEN cells[c] ELSE IF given(r)[c] = "blank" THEN "empty" ELSE given(r)[c]]

\* (mutant) the answer is read by a statement of its own.
UpdateThenGet(r) ==
    /\ pc[r] = "update"
    /\ Finds(r)
    /\ RefersWell(table(r), AfterEdit(r, rows[sent[r].id].cells))
    /\ rows' = [rows EXCEPT ![sent[r].id].cells = AfterEdit(r, @)]
    /\ last' = [last EXCEPT ![sent[r].id] = Tells(r, @)]
    /\ Goto(r, "get")
    /\ UNCHANGED <<sent, tries>>

\* UPDATE ... RETURNING
Update(r) ==
    /\ pc[r] = "update"
    /\ LET i == sent[r].id
       IN  \/ ~Finds(r) /\ Refuse(r, "not_found") /\ UNCHANGED <<rows, last>>
           \/ /\ Finds(r) /\ ~RefersWell(table(r), AfterEdit(r, rows[i].cells))
              /\ Refuse(r, "invalid") /\ UNCHANGED <<rows, last>>
           \/ /\ Finds(r) /\ RefersWell(table(r), AfterEdit(r, rows[i].cells))
              /\ rows' = [rows EXCEPT ![i].cells = AfterEdit(r, @)]
              /\ last' = [last EXCEPT ![i] = Tells(r, @)]
              /\ Reply(r, "ok", AfterEdit(r, rows[i].cells))
    /\ UNCHANGED <<sent, tries>>

\* SELECT by id
Get(r) ==
    /\ pc[r] = "get"
    /\ IF Finds(r) THEN Reply(r, "ok", rows[sent[r].id].cells) ELSE Refuse(r, "not_found")
    /\ UNCHANGED <<rows, sent, tries, last>>
-------------------------------------------------------------------------------
\* The statement fails, or the program stops before it.
Fail(r) ==
    /\ pc[r] \in {"insert", "update", "get"}
    /\ Refuse(r, "failed")
    /\ UNCHANGED <<rows, sent, tries, last>>

\* The reply is lost, and the same is sent once more: no request bears a key that would tell.
\* (A reply that arrives ends the request.)
Retry(r) ==
    /\ pc[r] = "replied" /\ tries[r] = 1 /\ answer[r] \in {"ok", "failed"}
    /\ pc' = [pc EXCEPT ![r] =
          IF sent[r].op = "create" THEN "insert" ELSE IF Heard(sent[r]) = {} THEN "get" ELSE "update"]
    /\ tries' = [tries EXCEPT ![r] = 2]
    /\ answer' = [answer EXCEPT ![r] = "none"]
    /\ shown' = [shown EXCEPT ![r] = NoCells]
    /\ UNCHANGED <<rows, sent, last>>

Next ==
    \E r \in Requests :
        \/ Receive(r) \/ Insert(r) \/ Update(r) \/ Get(r)
        \/ Fail(r) \/ Retry(r)

Spec == Init /\ [][Next]_vars
-------------------------------------------------------------------------------
\* People know a record by its code: no two of a table have the same code, however it was typed
\* (codes are stored in capitals, and bound by UNIQUE).  Nor does a create that is sent again
\* after its reply was lost make a second row, though the service cannot tell that it is one.
CodesNameRows ==
    \A i, j \in DOMAIN rows :
        rows[i].table = rows[j].table /\ Upper[rows[i].code] = Upper[rows[j].code] => i = j

\* Two people who edit different columns of a row at once never undo each other: every cell holds
\* what was last asked for it by an edit that was accepted, or what it was made with.
NoEditIsLost == \A i \in DOMAIN rows : rows[i].cells = last[i]

\* The answer to an accepted edit shows what it asked for, whoever else edits the row meanwhile.
AnswerShowsEdit ==
    \A r \in Requests :
        answer[r] = "ok" /\ sent[r].op = "update" => shown[r] = Tells(r, shown[r])
===============================================================================
