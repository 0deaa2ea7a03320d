----------------------------- MODULE RecordsProofs -----------------------------
(***************************************************************************)
(* Proofs about Records, for any number of requests, any bodies and any    *)
(* rows to begin with: whatever one sends, codes name rows, no edit undoes *)
(* another, and answers show what they accepted.                           *)
(***************************************************************************)
EXTENDS Records, TLAPS

\* Of every column: the handler refuses or passes over a value of another type, the repository
\* sets it unless it is one the code is silent about, and so with what a blank leaves as it is.
LEMMA RulesFit ==
    \A t \in Tables : \A c \in Columns[t] :
        /\ c \in SetRules[t] => c \in Json \cup ReadRules[t].refuses \cup ReadRules[t].skips
        /\ c \in SetRules[t] <=> <<t, c>> \notin {<<"form", "process">>, <<"bpm_task", "process">>}
        /\ c \in ReadRules[t].drops \cup UpdateRules[t].keeps <=>
              <<t, c>> \in {<<"process", "status">>, <<"operation", "duration">>,
                            <<"montage_task", "scheduledAt">>}
<1> SUFFICES ASSUME NEW t \in Tables, NEW c \in Columns[t]
    PROVE  /\ c \in SetRules[t] => c \in Json \cup ReadRules[t].refuses \cup ReadRules[t].skips
           /\ c \in SetRules[t] <=> <<t, c>> \notin {<<"form", "process">>, <<"bpm_task", "process">>}
           /\ c \in ReadRules[t].drops \cup UpdateRules[t].keeps <=>
                 <<t, c>> \in {<<"process", "status">>, <<"operation", "duration">>,
                               <<"montage_task", "scheduledAt">>}
    OBVIOUS
<1> USE DEF Columns, SetRules, ReadRules, UpdateRules, Json, Reads, Asks
<1>1. CASE t = "process"
    BY <1>1 DEF SetsProcess, ReadsProcess, UpdateProcess
<1>2. CASE t = "form"
    BY <1>2 DEF SetsForm, ReadsForm, UpdateForm
<1>3. CASE t = "bpm_task"
    BY <1>3 DEF SetsBpmTask, ReadsBpmTask, UpdateBpmTask
<1>4. CASE t = "work_center"
    BY <1>4 DEF SetsWorkCenter, ReadsWorkCenter, UpdateWorkCenter
<1>5. CASE t = "operation"
    BY <1>5 DEF SetsOperation, ReadsOperation, UpdateOperation
<1>6. CASE t = "route"
    BY <1>6 DEF SetsRoute, ReadsRoute, UpdateRoute
<1>7. CASE t = "crew"
    BY <1>7 DEF SetsCrew, ReadsCrew, UpdateCrew
<1>8. CASE t = "vehicle"
    BY <1>8 DEF SetsVehicle, ReadsVehicle, UpdateVehicle
<1>9. CASE t = "montage_task"
    BY <1>9 DEF SetsMontageTask, ReadsMontageTask, UpdateMontageTask
<1>10. CASE t = "template"
    BY <1>10 DEF SetsTemplate, ReadsTemplate, UpdateTemplate
<1>11. CASE t = "signer"
    BY <1>11 DEF SetsSigner, ReadsSigner, UpdateSigner
<1>12. t \in {"process", "form", "bpm_task", "work_center", "operation", "route", "crew",
              "vehicle", "montage_task", "template", "signer"}
    BY DEF Tables
<1> QED
    BY <1>1, <1>2, <1>3, <1>4, <1>5, <1>6, <1>7, <1>8, <1>9, <1>10, <1>11, <1>12

LEMMA TakesFit == \A t \in Tables : TakeRules[t] \subseteq Columns[t]
BY DEF Tables, Columns, TakeRules, TakesProcess, TakesForm, TakesBpmTask, TakesWorkCenter,
       TakesOperation, TakesRoute, TakesCrew, TakesVehicle, TakesMontageTask, TakesTemplate,
       TakesSigner
-------------------------------------------------------------------------------
(* What is known of a request on its way: its body passed the handler and the service. *)

Accepted(s) ==
    /\ s \in Sendings
    /\ s.op = "create" => AcceptsCreate(s)
    /\ s.op = "update" => AcceptsUpdate(s)

OnItsWay ==
    \A r \in Requests :
        /\ pc[r] \in {"insert", "update", "get"} => Accepted(sent[r])
        /\ pc[r] = "replied" /\ answer[r] \in {"ok", "failed"} => Accepted(sent[r])
        /\ pc[r] = "insert" => sent[r].op = "create"
        /\ pc[r] \in {"update", "get"} => sent[r].op = "update"
        /\ pc[r] = "get" => Heard(sent[r]) = {}
        /\ pc[r] # "replied" => answer[r] = "none" /\ shown[r] = NoCells

\* Codes are stored in capitals.
InCapitals == \A i \in DOMAIN rows : rows[i].code = Upper[rows[i].code]

Inv == TypeOK /\ OnItsWay /\ InCapitals /\ CodesNameRows /\ NoEditIsLost /\ AnswerShowsEdit

(* The layers of the code together hear what was asked, and nothing else. *)
LEMMA HeardIsAsked ==
    ASSUME NEW r \in Requests, Accepted(sent[r]), sent[r].op = "update"
    PROVE  Heard(sent[r]) = Asked(r)
<1> DEFINE s == sent[r]
           t == s.table
<1>1. /\ t \in Tables /\ DOMAIN s.cells \subseteq Columns[t]
      /\ \A c \in DOMAIN s.cells : c \in Json => s.cells[c] \in {"a", "b"}
    BY SendingsAreSendings DEF Accepted
<1>2. \A c \in DOMAIN s.cells : s.cells[c] = "odd" => c \notin ReadRules[t].refuses
    BY DEF Accepted, AcceptsUpdate, GivesAmong
<1>3. ASSUME NEW c \in DOMAIN s.cells
      PROVE  c \in Heard(s) <=> c \in Asked(r)
  <2>1. c \in Columns[t]
      BY <1>1
  <2>2. c \in Asked(r) <=> ~Silent(t, c, s.cells[c])
      BY DEF Asked, given, table
  <2>3. CASE s.cells[c] = "odd"
    <3>1. c \notin Json
        BY <1>1, <2>3
    <3>2. c \notin Heard(s)
        BY <1>1, <1>2, <2>1, <2>3, <3>1, RulesFit DEF Heard
    <3> QED
        BY <2>2, <2>3, <3>2 DEF Silent
  <2>4. CASE s.cells[c] # "odd"
    <3>1. c \in Heard(s) <=> /\ c \in SetRules[t]
                            /\ ~(s.cells[c] = "blank" /\ c \in ReadRules[t].drops \cup UpdateRules[t].keeps)
        BY <2>4 DEF Heard
    <3> QED
        BY <1>1, <2>1, <2>2, <2>4, <3>1, RulesFit DEF Silent
  <2> QED
      BY <2>3, <2>4
<1>4. Heard(s) \subseteq DOMAIN s.cells /\ Asked(r) \subseteq DOMAIN s.cells
    BY DEF Heard, Asked, given
<1> QED
    BY <1>3, <1>4

(* So an edit leaves in a row what its request tells of it, and telling it again adds nothing. *)
LEMMA EditTells ==
    ASSUME NEW r \in Requests, Accepted(sent[r]), sent[r].op = "update", NEW cells
    PROVE  /\ AfterEdit(r, cells) = Tells(r, cells)
           /\ Tells(r, Tells(r, cells)) = Tells(r, cells)
<1>1. Heard(sent[r]) = Asked(r)
    BY HeardIsAsked
<1>2. AfterEdit(r, cells) = Tells(r, cells)
    BY <1>1 DEF AfterEdit, Tells, Stored
<1>3. Tells(r, Tells(r, cells)) = Tells(r, cells)
    BY DEF Tells
<1> QED
    BY <1>2, <1>3

(* The cells that are stored are values of their columns. *)
LEMMA EditTyped ==
    ASSUME NEW r \in Requests, Accepted(sent[r]), sent[r].op = "update",
           NEW cells, AreCells(sent[r].table, cells)
    PROVE  AreCells(sent[r].table, AfterEdit(r, cells))
<1>1. Heard(sent[r]) = Asked(r)
    BY HeardIsAsked
<1>2. \A c \in DOMAIN sent[r].cells :
          sent[r].cells[c] \in Sent /\ (c \in Asked(r) => sent[r].cells[c] # "odd")
    BY SendingsAreSendings DEF Accepted, Asked, Silent, given, table, Sent
<1>3. Asked(r) \subseteq DOMAIN sent[r].cells
    BY DEF Asked, given
<1>4. \A c \in Asked(r) : Stored(given(r)[c]) \in Values
    BY <1>2, <1>3 DEF Stored, given, Sent, Values
<1> QED
    BY <1>1, <1>4 DEF AfterEdit, AreCells

LEMMA NewTyped ==
    ASSUME NEW r \in Requests, Accepted(sent[r]), sent[r].op = "create"
    PROVE  AreCells(sent[r].table, NewCells(r))
<1>1. \A c \in DOMAIN sent[r].cells : sent[r].cells[c] \in Sent
    BY SendingsAreSendings DEF Accepted, Sent
<1>2. \A c \in DOMAIN sent[r].cells : c \in TakeRules[sent[r].table] => sent[r].cells[c] # "odd"
    BY DEF Accepted, AcceptsCreate, GivesAmong
<1>3. \A c \in Columns[sent[r].table] :
          c \in TakeRules[sent[r].table] /\ ~IsBlank(sent[r], c) => given(r)[c] \in Values
    BY <1>1, <1>2 DEF IsBlank, given, Sent, Values
<1> QED
    BY <1>3 DEF NewCells, AreCells, table, Values
-------------------------------------------------------------------------------
LEMMA InitInv == Init => Inv
<1> SUFFICES ASSUME Init PROVE Inv
    OBVIOUS
<1>1. TypeOK
    BY InitialRowsAreRows DEF Init, TypeOK, Ids, IsRow
<1>2. OnItsWay
    BY DEF Init, OnItsWay
<1>3. InCapitals
    BY InitialRowsAreRows DEF Init, InCapitals
<1>4. CodesNameRows
    BY InitialRowsAreRows DEF Init, CodesNameRows
<1>5. NoEditIsLost /\ AnswerShowsEdit
    BY DEF Init, NoEditIsLost, AnswerShowsEdit
<1> QED
    BY <1>1, <1>2, <1>3, <1>4, <1>5 DEF Inv

LEMMA ReceiveInv ==
    ASSUME Inv, NEW r \in Requests, Receive(r)
    PROVE  Inv'
<1> USE DEF Inv
<1>1. PICK s \in Sendings :
          /\ sent' = [sent EXCEPT ![r] = s]
          /\ IF s.op = "create"
             THEN IF AcceptsCreate(s) THEN Goto(r, "insert") ELSE Refuse(r, "invalid")
             ELSE IF ~AcceptsUpdate(s) THEN Refuse(r, "invalid")
             ELSE Goto(r, IF Heard(s) = {} THEN "get" ELSE "update")
    BY DEF Receive
<1>2. /\ pc[r] = "idle" /\ UNCHANGED <<rows, last>>
      /\ tries' = [tries EXCEPT ![r] = 1]
      /\ answer[r] = "none" /\ shown[r] = NoCells
    BY DEF Receive, OnItsWay
<1>3. sent'[r] = s /\ \A q \in Requests \ {r} : sent'[q] = sent[q]
    BY <1>1 DEF TypeOK
<1>4. s.op \in {"create", "update"}
    BY SendingsAreSendings
<1>5. CASE Refuse(r, "invalid")
  <2>1. /\ pc' = [pc EXCEPT ![r] = "replied"] /\ answer' = [answer EXCEPT ![r] = "invalid"]
        /\ shown' = [shown EXCEPT ![r] = NoCells]
      BY <1>5 DEF Refuse, Reply
  <2>2. TypeOK'
      BY <1>1, <1>2, <1>3, <2>1 DEF TypeOK, AreCells
  <2>3. OnItsWay'
      BY <1>3, <2>1 DEF OnItsWay, TypeOK
  <2>4. AnswerShowsEdit'
      BY <1>3, <2>1 DEF AnswerShowsEdit, TypeOK, Tells, Asked, given, table
  <2> QED
      BY <1>2, <2>2, <2>3, <2>4 DEF InCapitals, CodesNameRows, NoEditIsLost
<1>6. CASE ~Refuse(r, "invalid")
  <2>1. PICK label \in {"insert", "update", "get"} :
            /\ pc' = [pc EXCEPT ![r] = label] /\ UNCHANGED <<answer, shown>>
            /\ label = "insert" => s.op = "create" /\ AcceptsCreate(s)
            /\ label # "insert" => s.op = "update" /\ AcceptsUpdate(s)
            /\ label = "get" => Heard(s) = {}
      BY <1>1, <1>4, <1>6 DEF Goto
  <2>2. TypeOK'
      BY <1>1, <1>2, <1>3, <2>1 DEF TypeOK, AreCells
  <2>3. OnItsWay'
      BY <1>2, <1>3, <2>1 DEF OnItsWay, TypeOK, Accepted
  <2>4. AnswerShowsEdit'
      BY <1>2, <1>3, <2>1 DEF AnswerShowsEdit, Tells, Asked, given, table
  <2> QED
      BY <1>2, <2>2, <2>3, <2>4 DEF InCapitals, CodesNameRows, NoEditIsLost
<1> QED
    BY <1>5, <1>6

(* A step that ends request r, or sends it on, and leaves what was sent. *)
LEMMA Refusing ==
    ASSUME Inv, NEW r \in Requests, NEW how \in {"invalid", "not_found", "failed"},
           pc[r] \in {"insert", "update", "get"},
           Refuse(r, how), UNCHANGED <<rows, sent, tries, last>>
    PROVE  Inv'
<1> USE DEF Inv
<1>1. /\ pc' = [pc EXCEPT ![r] = "replied"] /\ answer' = [answer EXCEPT ![r] = how]
      /\ shown' = [shown EXCEPT ![r] = NoCells]
    BY DEF Refuse, Reply
<1>2. TypeOK'
    BY <1>1 DEF TypeOK, AreCells
<1>3. OnItsWay'
    BY <1>1 DEF OnItsWay, TypeOK
<1>4. AnswerShowsEdit'
    BY <1>1 DEF AnswerShowsEdit, TypeOK, Tells, Asked, given, table
<1> QED
    BY <1>2, <1>3, <1>4 DEF InCapitals, CodesNameRows, NoEditIsLost

(* One that answers an accepted request: of an edit, the cells that it told. *)
LEMMA Answering ==
    ASSUME Inv, NEW r \in Requests, NEW cells,
           pc[r] \in {"insert", "update", "get"},
           Reply(r, "ok", cells), UNCHANGED <<sent, tries>>,
           AreCells(sent[r].table, cells),
           sent[r].op = "update" => cells = Tells(r, cells)
    PROVE  OnItsWay' /\ AnswerShowsEdit' /\ (\A q \in Requests :
               shown'[q] = NoCells \/ AreCells(sent'[q].table, shown'[q]))
<1> USE DEF Inv
<1>1. /\ pc' = [pc EXCEPT ![r] = "replied"] /\ answer' = [answer EXCEPT ![r] = "ok"]
      /\ shown' = [shown EXCEPT ![r] = cells]
    BY DEF Reply
<1>2. OnItsWay'
    BY <1>1 DEF OnItsWay, TypeOK
<1>3. AnswerShowsEdit'
    BY <1>1 DEF AnswerShowsEdit, TypeOK, Tells, Asked, given, table
<1>4. \A q \in Requests : shown'[q] = NoCells \/ AreCells(sent'[q].table, shown'[q])
    BY <1>1 DEF TypeOK, AreCells
<1> QED
    BY <1>2, <1>3, <1>4

LEMMA InsertInv ==
    ASSUME Inv, NEW r \in Requests, Insert(r)
    PROVE  Inv'
<1> USE DEF Inv
<1> DEFINE taken == \E i \in DOMAIN rows : rows[i].table = table(r) /\ rows[i].code = CodeOf(r)
           row == [table |-> table(r), code |-> CodeOf(r), cells |-> NewCells(r)]
           id == IF tries[r] = 1 THEN r ELSE Second[r]
<1>1. pc[r] = "insert" /\ UNCHANGED <<sent, tries>>
    BY DEF Insert
<1>2. CASE Refuse(r, "invalid") /\ UNCHANGED <<rows, last>>
    BY <1>1, <1>2, Refusing
<1>3. CASE /\ ~taken /\ RefersWell(table(r), row.cells)
           /\ rows' = With(rows, id, row)
           /\ last' = With(last, id, row.cells)
           /\ Reply(r, "ok", row.cells)
  <2>1. Accepted(sent[r]) /\ sent[r].op = "create"
      BY <1>1 DEF OnItsWay
  <2>2. AreCells(sent[r].table, NewCells(r)) /\ table(r) \in Tables
      BY <2>1, NewTyped, SendingsAreSendings DEF Accepted, table
  <2>3. CodeOf(r) \in Codes /\ Upper[CodeOf(r)] = CodeOf(r)
      BY <2>1, SendingsAreSendings, UpperIsACode DEF Accepted, AcceptsCreate, CodeOf
  <2>4. IsRow(row) /\ id \in Ids
      BY <2>2, <2>3, IdsAreFresh DEF IsRow, Ids, SecondIds, table
  <2>5. OnItsWay' /\ AnswerShowsEdit' /\ (\A q \in Requests :
            shown'[q] = NoCells \/ AreCells(sent'[q].table, shown'[q]))
      BY <1>1, <1>3, <2>1, <2>2, Answering
  <2>6. /\ DOMAIN rows' = DOMAIN rows \cup {id} /\ DOMAIN last' = DOMAIN last \cup {id}
        /\ rows'[id] = row /\ last'[id] = row.cells
        /\ \A i \in DOMAIN rows \ {id} : rows'[i] = rows[i] /\ last'[i] = last[i]
      BY <1>3 DEF With, TypeOK
  <2>7. TypeOK'
    <3>1. /\ DOMAIN rows' \subseteq Ids /\ DOMAIN last' = DOMAIN rows'
          /\ \A i \in DOMAIN rows' : IsRow(rows'[i]) /\ AreCells(rows'[i].table, last'[i])
        BY <2>2, <2>4, <2>6 DEF TypeOK, table
    <3>2. /\ pc' \in [Requests -> {"idle", "insert", "update", "get", "replied"}]
          /\ answer' \in [Requests -> {"none", "ok", "invalid", "not_found", "failed"}]
          /\ DOMAIN shown' = Requests
        BY <1>3 DEF Reply, TypeOK
    <3> QED
        BY <1>1, <2>5, <3>1, <3>2 DEF TypeOK
  <2>8. InCapitals'
      BY <2>3, <2>6 DEF InCapitals
  <2>9. CodesNameRows'
    <3> SUFFICES ASSUME NEW i \in DOMAIN rows', NEW j \in DOMAIN rows',
                        rows'[i].table = rows'[j].table, Upper[rows'[i].code] = Upper[rows'[j].code]
                 PROVE  i = j
        BY DEF CodesNameRows
    <3>1. rows'[i].code = rows'[j].code
        BY <2>8 DEF InCapitals
    <3>2. CASE i # id /\ j # id
        BY <2>6, <3>2 DEF CodesNameRows
    <3>3. CASE i = id \/ j = id
        BY <1>3, <2>6, <3>1, <3>3
    <3> QED
        BY <3>2, <3>3
  <2>10. NoEditIsLost'
      BY <2>6 DEF NoEditIsLost, TypeOK
  <2> QED
      BY <2>5, <2>7, <2>8, <2>9, <2>10
<1> QED
    BY <1>2, <1>3 DEF Insert

LEMMA UpdateInv ==
    ASSUME Inv, NEW r \in Requests, Update(r)
    PROVE  Inv'
<1> USE DEF Inv
<1> DEFINE i == sent[r].id
           old == rows[i].cells
<1>1. pc[r] = "update" /\ UNCHANGED <<sent, tries>>
    BY DEF Update
<1>2. CASE (Refuse(r, "not_found") \/ Refuse(r, "invalid")) /\ UNCHANGED <<rows, last>>
    BY <1>1, <1>2, Refusing
<1>3. CASE /\ Finds(r)
           /\ rows' = [rows EXCEPT ![i].cells = AfterEdit(r, @)]
           /\ last' = [last EXCEPT ![i] = Tells(r, @)]
           /\ Reply(r, "ok", AfterEdit(r, old))
  <2>1. Accepted(sent[r]) /\ sent[r].op = "update"
      BY <1>1 DEF OnItsWay
  <2>2. i \in DOMAIN rows /\ rows[i].table = sent[r].table /\ IsRow(rows[i])
      BY <1>3 DEF Finds, table, TypeOK
  <2>3. AreCells(sent[r].table, AfterEdit(r, old))
      BY <2>1, <2>2, EditTyped DEF IsRow
  <2>4. /\ AfterEdit(r, old) = Tells(r, old)
        /\ Tells(r, AfterEdit(r, old)) = AfterEdit(r, old)
      BY <2>1, EditTells
  <2>5. OnItsWay' /\ AnswerShowsEdit' /\ (\A q \in Requests :
            shown'[q] = NoCells \/ AreCells(sent'[q].table, shown'[q]))
      BY <1>1, <1>3, <2>3, <2>4, Answering
  <2>6. /\ DOMAIN rows' = DOMAIN rows /\ DOMAIN last' = DOMAIN last
        /\ rows'[i] = [rows[i] EXCEPT !.cells = AfterEdit(r, old)]
        /\ last'[i] = Tells(r, last[i])
        /\ \A j \in DOMAIN rows \ {i} : rows'[j] = rows[j] /\ last'[j] = last[j]
      BY <1>3, <2>2 DEF TypeOK
  <2>7. /\ DOMAIN rows'[i] = {"table", "code", "cells"}
        /\ rows'[i].table = rows[i].table /\ rows'[i].code = rows[i].code
        /\ rows'[i].cells = AfterEdit(r, old)
      BY <2>2, <2>6 DEF IsRow
  <2>8. last[i] = old
      BY <2>2 DEF NoEditIsLost
  <2>9. TypeOK'
    <3>1. IsRow(rows'[i]) /\ AreCells(rows'[i].table, last'[i])
        BY <2>2, <2>3, <2>4, <2>6, <2>7, <2>8 DEF IsRow
    <3>2. /\ DOMAIN rows' \subseteq Ids /\ DOMAIN last' = DOMAIN rows'
          /\ \A j \in DOMAIN rows' : IsRow(rows'[j]) /\ AreCells(rows'[j].table, last'[j])
        BY <2>6, <3>1 DEF TypeOK
    <3>3. /\ pc' \in [Requests -> {"idle", "insert", "update", "get", "replied"}]
          /\ answer' \in [Requests -> {"none", "ok", "invalid", "not_found", "failed"}]
          /\ DOMAIN shown' = Requests
        BY <1>3 DEF Reply, TypeOK
    <3> QED
        BY <1>1, <2>5, <3>2, <3>3 DEF TypeOK
  <2>10. \A j \in DOMAIN rows : rows'[j].table = rows[j].table /\ rows'[j].code = rows[j].code
      BY <2>6, <2>7
  <2>11. InCapitals' /\ CodesNameRows'
      BY <2>6, <2>10 DEF InCapitals, CodesNameRows
  <2>12. NoEditIsLost'
      BY <2>4, <2>6, <2>7, <2>8 DEF NoEditIsLost
  <2> QED
      BY <2>5, <2>9, <2>11, <2>12
<1> QED
    BY <1>2, <1>3 DEF Update

LEMMA GetInv ==
    ASSUME Inv, NEW r \in Requests, Get(r)
    PROVE  Inv'
<1> USE DEF Inv
<1>1. pc[r] = "get" /\ UNCHANGED <<rows, sent, tries, last>>
    BY DEF Get
<1>2. CASE Refuse(r, "not_found")
    BY <1>1, <1>2, Refusing
<1>3. CASE Finds(r) /\ Reply(r, "ok", rows[sent[r].id].cells)
  <2> DEFINE cells == rows[sent[r].id].cells
  <2>1. Accepted(sent[r]) /\ sent[r].op = "update" /\ Heard(sent[r]) = {}
      BY <1>1 DEF OnItsWay
  <2>2. AreCells(sent[r].table, cells)
      BY <1>3 DEF Finds, table, TypeOK, IsRow
  <2>3. cells = Tells(r, cells)
    <3>1. Asked(r) = {}
        BY <2>1, HeardIsAsked
    <3> QED
        BY <2>2, <3>1 DEF Tells, AreCells
  <2>4. OnItsWay' /\ AnswerShowsEdit' /\ (\A q \in Requests :
            shown'[q] = NoCells \/ AreCells(sent'[q].table, shown'[q]))
      BY <1>1, <1>3, <2>2, <2>3, Answering
  <2>5. TypeOK'
      BY <1>1, <1>3, <2>4 DEF TypeOK, Reply
  <2> QED
      BY <1>1, <2>4, <2>5 DEF InCapitals, CodesNameRows, NoEditIsLost
<1> QED
    BY <1>2, <1>3 DEF Get

LEMMA RetryInv ==
    ASSUME Inv, NEW r \in Requests, Retry(r)
    PROVE  Inv'
<1> USE DEF Inv
<1>1. /\ pc[r] = "replied" /\ answer[r] \in {"ok", "failed"}
      /\ pc' = [pc EXCEPT ![r] =
             IF sent[r].op = "create" THEN "insert" ELSE IF Heard(sent[r]) = {} THEN "get" ELSE "update"]
      /\ tries' = [tries EXCEPT ![r] = 2]
      /\ answer' = [answer EXCEPT ![r] = "none"]
      /\ shown' = [shown EXCEPT ![r] = NoCells]
      /\ UNCHANGED <<rows, sent, last>>
    BY DEF Retry
<1>2. Accepted(sent[r]) /\ sent[r].op \in {"create", "update"}
    BY <1>1, SendingsAreSendings DEF OnItsWay, Accepted
<1>3. TypeOK'
    BY <1>1 DEF TypeOK, AreCells
<1>4. OnItsWay'
    BY <1>1, <1>2 DEF OnItsWay, TypeOK
<1>5. AnswerShowsEdit'
    BY <1>1 DEF AnswerShowsEdit, TypeOK, Tells, Asked, given, table
<1> QED
    BY <1>1, <1>3, <1>4, <1>5 DEF InCapitals, CodesNameRows, NoEditIsLost

LEMMA NextInv == Inv /\ [Next]_vars => Inv'
<1> SUFFICES ASSUME Inv, [Next]_vars PROVE Inv'
    OBVIOUS
<1>1. ASSUME NEW r \in Requests, Receive(r) PROVE Inv'
    BY <1>1, ReceiveInv
<1>2. ASSUME NEW r \in Requests, Insert(r) PROVE Inv'
    BY <1>2, InsertInv
<1>3. ASSUME NEW r \in Requests, Update(r) PROVE Inv'
    BY <1>3, UpdateInv
<1>4. ASSUME NEW r \in Requests, Get(r) PROVE Inv'
    BY <1>4, GetInv
<1>5. ASSUME NEW r \in Requests, Fail(r) PROVE Inv'
    BY <1>5, Refusing DEF Fail
<1>6. ASSUME NEW r \in Requests, Retry(r) PROVE Inv'
    BY <1>6, RetryInv
<1>7. CASE UNCHANGED vars
    BY <1>7 DEF vars, Inv, TypeOK, OnItsWay, InCapitals, CodesNameRows, NoEditIsLost,
                AnswerShowsEdit, Tells, Asked, given, table
<1> QED
    BY <1>1, <1>2, <1>3, <1>4, <1>5, <1>6, <1>7 DEF Next

LEMMA AlwaysInv == Spec => []Inv
BY InitInv, NextInv, PTL DEF Spec

\* Rows, cells and answers stay within their columns and values: no blank and no value of another
\* JSON type is ever stored, in any of the tables.
THEOREM RecordTypeCorrect == Spec => []TypeOK
<1>1. Inv => TypeOK
    BY DEF Inv
<1> QED
    BY <1>1, AlwaysInv, PTL

\* However codes are typed and however often a create is sent, a code names one row of a table.
THEOREM CodeNamesOneRow == Spec => []CodesNameRows
<1>1. Inv => CodesNameRows
    BY DEF Inv
<1> QED
    BY <1>1, AlwaysInv, PTL

\* Whoever else edits the row, every cell keeps what was last asked for it by an accepted edit.
THEOREM EditsAreKept == Spec => []NoEditIsLost
<1>1. Inv => NoEditIsLost
    BY DEF Inv
<1> QED
    BY <1>1, AlwaysInv, PTL

\* The answer to an accepted edit shows all that it asked for.
THEOREM AnswersShowTheirEdits == Spec => []AnswerShowsEdit
<1>1. Inv => AnswerShowsEdit
    BY DEF Inv
<1> QED
    BY <1>1, AlwaysInv, PTL
===============================================================================
