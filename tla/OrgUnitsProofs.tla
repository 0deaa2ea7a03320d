---------------------------- MODULE OrgUnitsProofs ----------------------------
(***************************************************************************)
(* Proofs about OrgUnits, for any number of requests, codes and seeded     *)
(* units: types, the shape of the tree, where a unit lands, and when a     *)
(* conflict may be answered.                                               *)
(***************************************************************************)
EXTENDS OrgUnits, SequenceTheorems, TLAPS

\* A handler stands only at steps of the kind of request it serves.
Stands(r) ==
    /\ pc[r] \notin {"idle", "done"} => body[r] \in Body /\ body[r].code \in Codes
    /\ pc[r] = "parent" => body[r].parent \in Codes
    /\ pc[r] \in {"parent", "insert"} => body[r].op = "create"

HandlersStand == \A r \in Requests : Stands(r)

TypeInv == TypeOK /\ HandlersStand

LEMMA NoBodyStands == NoBody \notin Body
BY DEF NoBody, Body

LEMMA NowhereIsAPlace == Nowhere \in Place
BY DEF Nowhere, Place

LEMMA NewRowType ==
    ASSUME TypeInv, NEW r \in Requests, pc[r] = "insert"
    PROVE  /\ NewRow(r) \in Row
           /\ NewRow(r).parent = place[r].id
           /\ NewRow(r).code = body[r].code
           /\ NewRow(r).path = place[r].path \o body[r].code
           /\ place[r].id # NoUnit => NewRow(r).level = place[r].level + 1
<1>1. body[r].code \in Codes /\ body[r].code \in Seq(Labels)
  BY CodesAreLabels DEF TypeInv, HandlersStand, Stands
<1>2. place[r] \in Place
  BY DEF TypeInv, TypeOK
<1>3. place[r].id \in Ids \cup {NoUnit} /\ place[r].path \in Seq(Labels) /\ place[r].level \in Nat
  BY <1>2 DEF Place
<1>4. place[r].path \o body[r].code \in Seq(Labels)
  BY <1>1, <1>3, ConcatProperties
<1>5. (IF place[r].id = NoUnit THEN 0 ELSE place[r].level + 1) \in Nat
  BY <1>3
<1>6. NewRow(r) \in Row
  BY <1>1, <1>3, <1>4, <1>5 DEF NewRow, Row, Flags
<1>. QED  BY <1>6 DEF NewRow

\* A deletion changes nothing of the other rows but the parent of children.
LEMMA WithoutRows ==
    ASSUME TypeOK, NEW gone \in DOMAIN units, NEW u \in DOMAIN units \ {gone}
    PROVE  /\ DOMAIN Without(gone) = DOMAIN units \ {gone}
           /\ Without(gone)[u] \in Row
           /\ Without(gone)[u].code = units[u].code
           /\ Without(gone)[u].path = units[u].path
           /\ Without(gone)[u].level = units[u].level
           /\ Without(gone)[u].parent = IF units[u].parent = gone THEN NoUnit ELSE units[u].parent
<1>1. units[u] \in Row
  BY DEF TypeOK
<1>. QED  BY <1>1 DEF Without, Row

\* A change of the flag changes nothing else.
LEMMA FlagRows ==
    ASSUME TypeOK, NEW v \in DOMAIN units, NEW flag \in Flags, NEW u \in DOMAIN units
    PROVE  /\ DOMAIN [units EXCEPT ![v].is_active = flag] = DOMAIN units
           /\ [units EXCEPT ![v].is_active = flag][u] \in Row
           /\ [units EXCEPT ![v].is_active = flag][u].code = units[u].code
           /\ [units EXCEPT ![v].is_active = flag][u].path = units[u].path
           /\ [units EXCEPT ![v].is_active = flag][u].level = units[u].level
           /\ [units EXCEPT ![v].is_active = flag][u].parent = units[u].parent
<1>1. units[u] \in Row
  BY DEF TypeOK
<1>. QED  BY <1>1 DEF Row

Labelled == {"idle", "parent", "insert", "update", "children", "delete", "audit", "done"}

\* Moving on with the body as it was, to a step of the same kind of request.
LEMMA MoveStands ==
    ASSUME TypeInv, NEW r \in Requests, NEW label \in Labelled,
           pc' = [pc EXCEPT ![r] = label], UNCHANGED body,
           pc[r] = "idle" => label = "idle",
           pc[r] # "done" \/ label = "done",
           label = "parent" => pc[r] = "parent",
           label = "insert" => pc[r] \in {"parent", "insert"}
    PROVE  pc' \in [Requests -> Labelled] /\ HandlersStand'
<1>1. pc' \in [Requests -> Labelled]
  BY DEF TypeInv, TypeOK, Labelled
<1>2. ASSUME NEW q \in Requests PROVE Stands(q)'
  <2>1. Stands(q) /\ Stands(r)
    BY DEF TypeInv, HandlersStand
  <2>2. pc'[q] = IF q = r THEN label ELSE pc[q]
    BY DEF TypeInv, TypeOK
  <2>. QED  BY <2>1, <2>2 DEF Stands
<1>. QED  BY <1>1, <1>2 DEF HandlersStand

LEMMA FinishStands ==
    ASSUME TypeInv, NEW r \in Requests, NEW how \in Answers, Finish(r, how), UNCHANGED body,
           pc[r] \notin {"idle", "done"}
    PROVE  /\ pc' \in [Requests -> Labelled] /\ HandlersStand'
           /\ answer' \in [Requests -> Answers \cup {"none"}]
<1>1. pc' = [pc EXCEPT ![r] = "done"] /\ answer' = [answer EXCEPT ![r] = how]
  BY DEF Finish, Goto
<1>2. "done" \in Labelled
  BY DEF Labelled
<1>3. answer' \in [Requests -> Answers \cup {"none"}]
  BY <1>1 DEF TypeInv, TypeOK
<1>. QED  BY <1>1, <1>2, <1>3, MoveStands

LEMMA ReceiveTypes ==
    ASSUME TypeInv, NEW r \in Requests, Receive(r) PROVE TypeInv'
<1>1. PICK b \in Bodies :
        /\ pc[r] = "idle"
        /\ body' = [body EXCEPT ![r] = b]
        /\ \/ b.code = NoCode /\ Finish(r, "failed")
           \/ /\ b.code # NoCode
              /\ Goto(r, CASE b.op = "update" -> "update"
                           [] b.op = "delete" -> "children"
                           [] b.op = "create" -> IF b.parent = NoCode THEN "insert" ELSE "parent")
              /\ UNCHANGED answer
        /\ UNCHANGED <<units, named, place, audited>>
  BY DEF Receive
<1>2. b \in Body /\ b.op \in {"create", "update", "delete"}
      /\ b.code \in Codes \cup {NoCode} /\ b.parent \in Codes \cup {NoCode}
  BY BodiesAreBodies DEF Body
<1> DEFINE next == IF b.code = NoCode THEN "done"
                   ELSE IF b.op = "update" THEN "update"
                   ELSE IF b.op = "delete" THEN "children"
                   ELSE IF b.parent = NoCode THEN "insert" ELSE "parent"
<1>3. pc' = [pc EXCEPT ![r] = next]
  BY <1>1, <1>2 DEF Finish, Goto
<1>4. answer' \in [Requests -> Answers \cup {"none"}]
  BY <1>1 DEF Finish, TypeInv, TypeOK, Answers
<1>5. next \in Labelled
  BY DEF Labelled
<1>6. pc' \in [Requests -> Labelled] /\ body' \in [Requests -> Body \cup {NoBody}]
  BY <1>1, <1>2, <1>3, <1>5 DEF TypeInv, TypeOK, Labelled
<1>7. ASSUME NEW q \in Requests PROVE Stands(q)'
  <2>1. Stands(q)
    BY DEF TypeInv, HandlersStand
  <2>2. pc'[q] = (IF q = r THEN next ELSE pc[q]) /\ body'[q] = IF q = r THEN b ELSE body[q]
    BY <1>1, <1>3 DEF TypeInv, TypeOK
  <2>. QED  BY <2>1, <2>2, <1>2 DEF Stands
<1>8. HandlersStand'
  BY <1>7 DEF HandlersStand
<1> HIDE DEF next
<1>9. TypeOK'
  BY <1>1, <1>4, <1>6 DEF TypeInv, TypeOK, Labelled
<1>. QED  BY <1>8, <1>9 DEF TypeInv

LEMMA GetParentTypes ==
    ASSUME TypeInv, NEW r \in Requests, GetParent(r) PROVE TypeInv'
<1>1. pc[r] = "parent" /\ UNCHANGED <<units, named, body, audited>>
  BY DEF GetParent
<1>2. CASE Finish(r, "not_found") /\ UNCHANGED place
  <2>1. "not_found" \in Answers
    BY DEF Answers
  <2>. QED  BY <1>1, <1>2, <2>1, FinishStands DEF TypeInv, TypeOK, Labelled
<1>3. CASE \E u \in WithCode(body[r].parent) :
             /\ place' = [place EXCEPT ![r] =
                    [id |-> u, path |-> units[u].path, level |-> units[u].level]]
             /\ Goto(r, "insert")
             /\ UNCHANGED answer
  <2>1. PICK u \in DOMAIN units :
             /\ place' = [place EXCEPT ![r] =
                    [id |-> u, path |-> units[u].path, level |-> units[u].level]]
             /\ pc' = [pc EXCEPT ![r] = "insert"]
             /\ UNCHANGED answer
    BY <1>3 DEF WithCode, Goto
  <2>2. units[u] \in Row /\ u \in Ids
    BY DEF TypeInv, TypeOK
  <2>3. [id |-> u, path |-> units[u].path, level |-> units[u].level] \in Place
    BY <2>2 DEF Row, Place
  <2>4. place' \in [Requests -> Place]
    BY <2>1, <2>3 DEF TypeInv, TypeOK
  <2>5. pc' \in [Requests -> Labelled] /\ HandlersStand'
    BY <1>1, <2>1, MoveStands DEF Labelled
  <2>. QED  BY <1>1, <2>1, <2>4, <2>5 DEF TypeInv, TypeOK, Labelled
<1>. QED  BY <1>2, <1>3 DEF GetParent

\* The three ways in which a step changes the table.
Adds(r) ==
    /\ pc[r] = "insert" /\ pc' = [pc EXCEPT ![r] = "audit"]
    /\ ~Clashes(NewRow(r))
    /\ place[r].id \in DOMAIN units \cup {NoUnit}
    /\ units' = WithUnit(r, NewRow(r))

Deletes(u) ==
    /\ u \in DOMAIN units
    /\ units[u].code \notin named
    /\ units' = Without(u)

Flips(u) ==
    /\ u \in DOMAIN units
    /\ \E flag \in Flags : units' = [units EXCEPT ![u].is_active = flag]

\* The other steps of a request: it moves on with the table as it was, or after a change
\* that is not an insertion.
Moves(r) ==
    /\ UNCHANGED <<body, place, named>>
    /\ pc[r] \notin {"idle", "done", "parent"}
    /\ \E label \in {"delete", "audit", "done"} : pc' = [pc EXCEPT ![r] = label]
    /\ UNCHANGED units \/ \E u \in DOMAIN units : Deletes(u) \/ Flips(u)

LEMMA AddKeepsRows ==
    ASSUME TypeInv, NEW r \in Requests, Adds(r) PROVE DOMAIN units' \subseteq Ids /\ units' \in [DOMAIN units' -> Row]
<1>1. DOMAIN units' = DOMAIN units \cup {r} /\ DOMAIN units' \subseteq Ids
  BY DEF Adds, WithUnit, TypeInv, TypeOK, Ids
<1>2. NewRow(r) \in Row
  BY NewRowType DEF Adds
<1>. QED  BY <1>1, <1>2 DEF Adds, WithUnit, TypeInv, TypeOK

LEMMA DeleteKeepsRows ==
    ASSUME TypeOK, NEW u, Deletes(u) PROVE DOMAIN units' \subseteq Ids /\ units' \in [DOMAIN units' -> Row]
<1>1. DOMAIN units' = DOMAIN units \ {u}
  BY DEF Deletes, Without
<1>2. ASSUME NEW v \in DOMAIN units' PROVE units'[v] \in Row
  BY <1>1, <1>2, WithoutRows DEF Deletes
<1>3. units' = [v \in DOMAIN units' |-> units'[v]]
  BY DEF Deletes, Without
<1>. QED  BY <1>1, <1>2, <1>3 DEF TypeOK

LEMMA FlipKeepsRows ==
    ASSUME TypeOK, NEW u, Flips(u) PROVE DOMAIN units' \subseteq Ids /\ units' \in [DOMAIN units' -> Row]
<1>1. PICK flag \in Flags : units' = [units EXCEPT ![u].is_active = flag]
  BY DEF Flips
<1>2. DOMAIN units' = DOMAIN units
  BY <1>1
<1>3. ASSUME NEW v \in DOMAIN units' PROVE units'[v] \in Row
  BY <1>1, <1>2, <1>3, FlagRows DEF Flips
<1>4. units' = [v \in DOMAIN units' |-> units'[v]]
  BY <1>1, <1>2
<1>. QED  BY <1>2, <1>3, <1>4 DEF TypeOK

\* Insert, Update, CheckChildren, Delete, RecordAudit and Fail are Adds or Moves.
LEMMA WritesAreThese ==
    ASSUME TypeInv, NEW r \in Requests,
           Insert(r) \/ Update(r) \/ CheckChildren(r) \/ Delete(r)
    PROVE  /\ Moves(r) \/ (Adds(r) /\ UNCHANGED <<body, place, named>>)
           /\ answer' \in [Requests -> Answers \cup {"none"}]
           /\ UNCHANGED audited
<1>a. /\ \A how \in Answers : Finish(r, how) =>
              /\ pc' = [pc EXCEPT ![r] = "done"]
              /\ answer' \in [Requests -> Answers \cup {"none"}]
      /\ answer \in [Requests -> Answers \cup {"none"}]
      /\ {"not_found", "conflict", "has_children", "failed"} \subseteq Answers
  BY DEF Finish, Goto, TypeInv, TypeOK, Answers
<1>b. \A label : Goto(r, label) <=> pc' = [pc EXCEPT ![r] = label]
  BY DEF Goto
<1>c. \A code : WithCode(code) \subseteq DOMAIN units
  BY DEF WithCode
<1>1. CASE Insert(r)
  BY <1>1, <1>a, <1>b DEF Insert, Moves, Adds
<1>2. CASE Update(r)
  <2>1. /\ pc[r] = "update" /\ body[r].active \in Flags \cup {"keep"}
        /\ UNCHANGED <<named, body, place, audited>>
    BY <1>2 DEF Update, TypeInv, HandlersStand, Stands, Body
  <2>2. CASE WithCode(body[r].code) = {} /\ Finish(r, "not_found") /\ UNCHANGED units
    BY <2>1, <2>2, <1>a DEF Moves
  <2>3. CASE \E u \in WithCode(body[r].code) :
                /\ units' = IF body[r].active = "keep" THEN units
                            ELSE [units EXCEPT ![u].is_active = body[r].active]
                /\ Goto(r, "audit")
                /\ UNCHANGED answer
    <3>1. UNCHANGED units \/ \E u \in DOMAIN units : Flips(u)
      BY <2>1, <2>3, <1>c DEF Flips
    <3>2. pc' = [pc EXCEPT ![r] = "audit"] /\ UNCHANGED answer
      BY <2>3, <1>b
    <3>. QED  BY <2>1, <3>1, <3>2, <1>a DEF Moves
  <2>. QED  BY <1>2, <2>2, <2>3 DEF Update
<1>3. CASE CheckChildren(r)
  BY <1>3, <1>a, <1>b DEF CheckChildren, Moves
<1>4. CASE Delete(r)
  <2>1. /\ pc[r] = "delete"
        /\ UNCHANGED <<named, body, place, audited>>
    BY <1>4 DEF Delete
  <2>2. \/ UNCHANGED units /\ (Finish(r, "not_found") \/ Finish(r, "failed"))
        \/ /\ \E u \in DOMAIN units : Deletes(u)
           /\ pc' = [pc EXCEPT ![r] = "audit"] /\ UNCHANGED answer
    BY <1>4, <1>b, <1>c DEF Delete, Deletes
  <2>. QED  BY <2>1, <2>2, <1>a DEF Moves
<1>. QED  BY <1>1, <1>2, <1>3, <1>4

LEMMA LastStepsMove ==
    ASSUME TypeInv, NEW r \in Requests, RecordAudit(r) \/ Fail(r)
    PROVE  /\ pc[r] \notin {"idle", "done"} /\ pc' = [pc EXCEPT ![r] = "done"]
           /\ UNCHANGED <<units, named, body, place>>
           /\ answer' \in [Requests -> Answers \cup {"none"}]
           /\ audited' \subseteq Requests
<1>1. \A how \in Answers : Finish(r, how) =>
          /\ pc' = [pc EXCEPT ![r] = "done"]
          /\ answer' \in [Requests -> Answers \cup {"none"}]
  BY DEF Finish, Goto, TypeInv, TypeOK
<1>2. CASE RecordAudit(r)
  <2>1. body[r].op \in {"create", "update", "delete"}
    BY <1>2 DEF RecordAudit, TypeInv, HandlersStand, Stands, Body
  <2>2. Done[body[r].op] \in Answers
    BY <2>1 DEF Done, Answers
  <2>. QED  BY <1>1, <1>2, <2>2 DEF RecordAudit, TypeInv, TypeOK
<1>3. CASE Fail(r)
  <2>1. "failed" \in Answers
    BY DEF Answers
  <2>. QED  BY <1>1, <1>3, <2>1 DEF Fail, TypeInv, TypeOK
<1>. QED  BY <1>2, <1>3

LEMMA StepTypes ==
    ASSUME TypeInv, NEW r \in Requests, Step(r) PROVE TypeInv'
<1>1. CASE Receive(r)
  BY <1>1, ReceiveTypes
<1>2. CASE GetParent(r)
  BY <1>2, GetParentTypes
<1>3. CASE Insert(r) \/ Update(r) \/ CheckChildren(r) \/ Delete(r)
  <2>1. /\ Moves(r) \/ (Adds(r) /\ UNCHANGED <<body, place, named>>)
        /\ answer' \in [Requests -> Answers \cup {"none"}]
        /\ UNCHANGED audited
    BY <1>3, WritesAreThese
  <2>2. DOMAIN units' \subseteq Ids /\ units' \in [DOMAIN units' -> Row]
    BY <2>1, AddKeepsRows, DeleteKeepsRows, FlipKeepsRows DEF Moves, TypeInv, TypeOK
  <2>3. PICK label \in {"delete", "audit", "done"} : pc' = [pc EXCEPT ![r] = label]
    BY <2>1 DEF Moves, Adds
  <2>4. pc[r] \notin {"idle", "done"} /\ UNCHANGED <<body, place, named>>
    BY <2>1 DEF Moves, Adds
  <2>5. pc' \in [Requests -> Labelled] /\ HandlersStand'
    BY <2>3, <2>4, MoveStands DEF Labelled
  <2>. QED  BY <2>1, <2>2, <2>4, <2>5 DEF TypeInv, TypeOK, Labelled
<1>4. CASE RecordAudit(r) \/ Fail(r)
  <2>1. /\ pc[r] \notin {"idle", "done"} /\ pc' = [pc EXCEPT ![r] = "done"]
        /\ UNCHANGED <<units, named, body, place>>
        /\ answer' \in [Requests -> Answers \cup {"none"}]
        /\ audited' \subseteq Requests
    BY <1>4, LastStepsMove
  <2>2. pc' \in [Requests -> Labelled] /\ HandlersStand'
    BY <2>1, MoveStands DEF Labelled
  <2>. QED  BY <2>1, <2>2 DEF TypeInv, TypeOK, Labelled
<1>. QED  BY <1>1, <1>2, <1>3, <1>4 DEF Step

LEMMA NamingTypes ==
    ASSUME TypeInv, NEW code \in Codes, Refer(code) \/ Release(code) PROVE TypeInv'
BY DEF Refer, Release, requestVars, TypeInv, TypeOK, HandlersStand, Stands

LEMMA InitTypes == Init => TypeInv
<1> SUFFICES ASSUME Init PROVE TypeInv
  OBVIOUS
<1>1. DOMAIN units \subseteq Ids /\ units \in [DOMAIN units -> Row]
  BY SeedIsATree DEF Init, Ids
<1>2. named \subseteq Codes
  <2>1. \A u \in DOMAIN InitialUnits : InitialUnits[u].code \in Codes
    BY SeedIsATree DEF Row
  <2>. QED  BY <2>1, SeedIsATree DEF Init
<1>3. place \in [Requests -> Place]
  BY NowhereIsAPlace DEF Init
<1>4. TypeOK
  BY <1>1, <1>2, <1>3 DEF Init, TypeOK
<1>5. HandlersStand
  BY DEF Init, HandlersStand, Stands
<1>. QED  BY <1>4, <1>5 DEF TypeInv

LEMMA NextTypes == TypeInv /\ [Next]_vars => TypeInv'
<1> SUFFICES ASSUME TypeInv, [Next]_vars PROVE TypeInv'
  OBVIOUS
<1>1. CASE \E r \in Requests : Step(r)
  BY <1>1, StepTypes
<1>2. CASE \E code \in Codes : Refer(code) \/ Release(code)
  BY <1>2, NamingTypes
<1>3. CASE UNCHANGED vars
  BY <1>3 DEF vars, requestVars, TypeInv, TypeOK, HandlersStand, Stands
<1>. QED  BY <1>1, <1>2, <1>3 DEF Next

\* Types of the table and of every handler, which holds a valid body while it works.
THEOREM OrgUnitTypes == Spec => []TypeOK
<1>1. Init => TypeInv
  BY InitTypes
<1>2. TypeInv /\ [Next]_vars => TypeInv'
  BY NextTypes
<1>3. TypeInv => TypeOK
  BY DEF TypeInv
<1>. QED  BY <1>1, <1>2, <1>3, PTL DEF Spec
-------------------------------------------------------------------------------
\* What a handler knows of the place it looked up.  Ids are never used again, so the place
\* it remembers is that very unit or none.
PlaceTrue(r) ==
    /\ pc[r] \in {"idle", "parent", "insert"} => r \notin DOMAIN units
    /\ pc[r] \in {"idle", "parent"} => place[r].id = NoUnit
    /\ place[r].id \in Requests => pc[place[r].id] \notin {"idle", "parent", "insert"}
    /\ pc[r] = "insert" => (body[r].parent = NoCode <=> place[r].id = NoUnit)
    /\ pc[r] = "insert" /\ place[r].id \in DOMAIN units =>
           /\ units[place[r].id].code = body[r].parent
           /\ units[place[r].id].path = place[r].path
           /\ units[place[r].id].level = place[r].level

PathsEndInCodes(table) == \A u \in DOMAIN table : EndsWith(table[u].path, table[u].code)

Inv ==
    /\ TypeInv
    /\ TreeShape
    /\ PathsEndInCodes(units)
    /\ NamedUnitsStay
    /\ \A r \in Requests : PlaceTrue(r)

TableInv == TreeShape /\ PathsEndInCodes(units) /\ NamedUnitsStay

LEMMA ConcatEnds ==
    ASSUME NEW p \in Seq(Labels), NEW code \in Seq(Labels)
    PROVE  EndsWith(p \o code, code)
<1>1. Len(p \o code) = Len(p) + Len(code) /\ Len(p) \in Nat /\ Len(code) \in Nat
  BY ConcatProperties, LenProperties
<1>2. ASSUME NEW i \in 1 .. Len(code) PROVE (p \o code)[Len(p \o code) - Len(code) + i] = code[i]
  <2>1. Len(p \o code) - Len(code) + i = Len(p) + i
    BY <1>1
  <2>2. (p \o code)[Len(p) + i] = code[i]
    BY <1>1, ConcatProperties
  <2>. QED  BY <2>1, <2>2
<1>. QED  BY <1>1, <1>2 DEF EndsWith

LEMMA AddKeepsTable ==
    ASSUME Inv, NEW r \in Requests, Adds(r), UNCHANGED named PROVE TableInv'
<1> DEFINE row == NewRow(r)
<1>1. /\ DOMAIN units' = DOMAIN units \cup {r}
      /\ units'[r] = row
      /\ \A u \in DOMAIN units : u # r => units'[u] = units[u]
  BY DEF Adds, WithUnit
<1>2. r \notin DOMAIN units /\ PlaceTrue(r)
  BY DEF Inv, PlaceTrue, Adds
<1>3. /\ row.parent = place[r].id
      /\ row.code = body[r].code
      /\ row.path = place[r].path \o body[r].code
      /\ place[r].id # NoUnit => row.level = place[r].level + 1
  BY NewRowType DEF Inv, Adds
<1> HIDE DEF row
<1>4. TreeShape'
  <2>1. ASSUME NEW u \in DOMAIN units', units'[u].parent # NoUnit
        PROVE  /\ units'[u].parent \in DOMAIN units'
               /\ units'[u].path = units'[units'[u].parent].path \o units'[u].code
               /\ units'[u].level = units'[units'[u].parent].level + 1
    <3>1. CASE u = r
      <4>1. row.parent \in DOMAIN units /\ pc[r] = "insert"
        BY <1>1, <1>3, <2>1, <3>1 DEF Adds
      <4>2. units'[row.parent] = units[row.parent]
        BY <1>1, <1>2, <4>1
      <4>. QED  BY <1>1, <1>2, <1>3, <2>1, <3>1, <4>1, <4>2 DEF PlaceTrue
    <3>2. CASE u # r
      <4>1. u \in DOMAIN units /\ units'[u] = units[u]
        BY <1>1, <3>2
      <4>2. units[u].parent \in DOMAIN units
        BY <2>1, <4>1 DEF Inv, TreeShape, Tree
      <4>3. units'[units[u].parent] = units[units[u].parent]
        BY <1>1, <1>2, <4>2
      <4>. QED  BY <1>1, <2>1, <4>1, <4>2, <4>3 DEF Inv, TreeShape, Tree
    <3>. QED  BY <3>1, <3>2
  <2>. QED  BY <2>1 DEF TreeShape, Tree
<1>5. PathsEndInCodes(units')
  <2>1. place[r].path \in Seq(Labels) /\ body[r].code \in Seq(Labels)
    BY CodesAreLabels DEF Inv, TypeInv, TypeOK, HandlersStand, Stands, Place, Adds
  <2>2. EndsWith(row.path, row.code)
    BY <1>3, <2>1, ConcatEnds
  <2>. QED  BY <1>1, <2>2 DEF Inv, PathsEndInCodes
<1>6. NamedUnitsStay'
  BY <1>1, <1>2 DEF Inv, NamedUnitsStay, WithCode
<1>. QED  BY <1>4, <1>5, <1>6 DEF TableInv

\* A table with fewer rows, the rest in their places and under their parents or none.
LEMMA PlacesKeepTree ==
    ASSUME Tree(units), DOMAIN units' \subseteq DOMAIN units,
           \A u \in DOMAIN units' :
               /\ units'[u].code = units[u].code
               /\ units'[u].path = units[u].path
               /\ units'[u].level = units[u].level,
           \A u \in DOMAIN units' :
               \/ units'[u].parent = NoUnit
               \/ units'[u].parent = units[u].parent /\ units[u].parent \notin DOMAIN units \ DOMAIN units'
    PROVE  Tree(units')
<1>1. ASSUME NEW u \in DOMAIN units', units'[u].parent # NoUnit
      PROVE  /\ units'[u].parent \in DOMAIN units'
             /\ units'[u].path = units'[units'[u].parent].path \o units'[u].code
             /\ units'[u].level = units'[units'[u].parent].level + 1
  <2>1. /\ units'[u].parent = units[u].parent /\ units[u].parent # NoUnit
        /\ units[u].parent \notin DOMAIN units \ DOMAIN units'
    BY <1>1
  <2>2. /\ units[u].parent \in DOMAIN units
        /\ units[u].path = units[units[u].parent].path \o units[u].code
        /\ units[u].level = units[units[u].parent].level + 1
    BY <2>1 DEF Tree
  <2>3. units[u].parent \in DOMAIN units'
    BY <2>1, <2>2
  <2>4. /\ units'[units[u].parent].path = units[units[u].parent].path
        /\ units'[units[u].parent].level = units[units[u].parent].level
    BY <2>3
  <2>5. units'[u].path = units[u].path /\ units'[u].code = units[u].code /\ units'[u].level = units[u].level
    OBVIOUS
  <2>. QED  BY <2>1, <2>2, <2>3, <2>4, <2>5
<1>. QED  BY <1>1 DEF Tree

LEMMA DeleteKeepsTable ==
    ASSUME Inv, NEW gone, Deletes(gone), UNCHANGED named PROVE TableInv'
<1>1. gone \in DOMAIN units /\ units' = Without(gone) /\ TypeOK
  BY DEF Deletes, Inv, TypeInv
<1>2. DOMAIN units' = DOMAIN units \ {gone}
  BY <1>1 DEF Without
<1>3. \A u \in DOMAIN units' :
          /\ units'[u].code = units[u].code
          /\ units'[u].path = units[u].path
          /\ units'[u].level = units[u].level
          /\ units'[u].parent = IF units[u].parent = gone THEN NoUnit ELSE units[u].parent
  BY <1>1, <1>2, WithoutRows
<1>4. TreeShape'
  <2>1. ASSUME NEW u \in DOMAIN units'
        PROVE  \/ units'[u].parent = NoUnit
               \/ units'[u].parent = units[u].parent /\ units[u].parent \notin DOMAIN units \ DOMAIN units'
    BY <1>2, <1>3
  <2>. QED  BY <1>2, <1>3, <2>1, PlacesKeepTree DEF Inv, TreeShape
<1>5. PathsEndInCodes(units')
  BY <1>2, <1>3 DEF Inv, PathsEndInCodes
<1>6. NamedUnitsStay'
  BY <1>2, <1>3 DEF Inv, NamedUnitsStay, WithCode, Deletes
<1>. QED  BY <1>4, <1>5, <1>6 DEF TableInv

LEMMA FlipKeepsTable ==
    ASSUME Inv, NEW v, Flips(v), UNCHANGED named
    PROVE  /\ TableInv' /\ DOMAIN units' = DOMAIN units
           /\ \A u \in DOMAIN units : /\ units'[u].code = units[u].code
                                      /\ units'[u].path = units[u].path
                                      /\ units'[u].level = units[u].level
<1>1. PICK flag \in Flags : v \in DOMAIN units /\ units' = [units EXCEPT ![v].is_active = flag]
  BY DEF Flips
<1>2. DOMAIN units' = DOMAIN units /\ TypeOK
  BY <1>1 DEF Inv, TypeInv
<1>3. \A u \in DOMAIN units' :
          /\ units'[u].code = units[u].code
          /\ units'[u].path = units[u].path
          /\ units'[u].level = units[u].level
          /\ units'[u].parent = units[u].parent
  BY <1>1, <1>2, FlagRows
<1>4. TreeShape'
  BY <1>2, <1>3, PlacesKeepTree DEF Inv, TreeShape
<1>5. PathsEndInCodes(units')
  BY <1>2, <1>3 DEF Inv, PathsEndInCodes
<1>6. NamedUnitsStay'
  BY <1>2, <1>3 DEF Inv, NamedUnitsStay, WithCode
<1>. QED  BY <1>2, <1>3, <1>4, <1>5, <1>6 DEF TableInv

\* With the table as it was, or less a row, or with a flag changed, handlers know what they knew.
LEMMA MovePlaces ==
    ASSUME Inv, NEW r \in Requests, Moves(r) PROVE \A q \in Requests : PlaceTrue(q)'
<1>1. PICK label \in {"delete", "audit", "done"} : pc' = [pc EXCEPT ![r] = label]
  BY DEF Moves
<1>2. /\ \A q \in Requests : pc'[q] = IF q = r THEN label ELSE pc[q]
      /\ UNCHANGED <<body, place>>
  BY <1>1 DEF Moves, Inv, TypeInv, TypeOK
<1>3. /\ DOMAIN units' \subseteq DOMAIN units
      /\ \A u \in DOMAIN units' : /\ units'[u].code = units[u].code
                                  /\ units'[u].path = units[u].path
                                  /\ units'[u].level = units[u].level
  <2>1. CASE UNCHANGED units
    BY <2>1
  <2>2. CASE \E u \in DOMAIN units : Deletes(u)
    <3>1. PICK u \in DOMAIN units : Deletes(u)
      BY <2>2
    <3>2. DOMAIN units' = DOMAIN units \ {u} /\ TypeOK /\ units' = Without(u)
      BY <3>1 DEF Deletes, Without, Inv, TypeInv
    <3>. QED  BY <3>1, <3>2, WithoutRows
  <2>3. CASE \E u \in DOMAIN units : Flips(u)
    BY <2>3, FlipKeepsTable DEF Moves
  <2>. QED  BY <2>1, <2>2, <2>3 DEF Moves
<1>4. ASSUME NEW q \in Requests PROVE PlaceTrue(q)'
  <2>1. PlaceTrue(q)
    BY DEF Inv
  <2>. QED  BY <1>2, <1>3, <2>1 DEF PlaceTrue
<1>. QED  BY <1>4

LEMMA AddPlaces ==
    ASSUME Inv, NEW r \in Requests, Adds(r), UNCHANGED <<body, place>>
    PROVE  \A q \in Requests : PlaceTrue(q)'
<1>1. /\ \A q \in Requests : pc'[q] = IF q = r THEN "audit" ELSE pc[q]
      /\ DOMAIN units' = DOMAIN units \cup {r}
      /\ \A u \in DOMAIN units : u # r => units'[u] = units[u]
  BY DEF Adds, WithUnit, Inv, TypeInv, TypeOK
<1>2. pc[r] = "insert" /\ r \notin DOMAIN units
  BY DEF Adds, Inv, PlaceTrue
<1>3. ASSUME NEW q \in Requests PROVE PlaceTrue(q)'
  <2>1. PlaceTrue(q)
    BY DEF Inv
  <2>2. place[q].id # r
    BY <1>2, <2>1 DEF PlaceTrue
  <2>. QED  BY <1>1, <1>2, <2>1, <2>2 DEF PlaceTrue
<1>. QED  BY <1>3

LEMMA ReceivePlaces ==
    ASSUME Inv, NEW r \in Requests, Receive(r) PROVE \A q \in Requests : PlaceTrue(q)'
<1>1. PICK b \in Bodies :
        /\ pc[r] = "idle"
        /\ body' = [body EXCEPT ![r] = b]
        /\ \E label : pc' = [pc EXCEPT ![r] = label] /\ (label = "insert" => b.parent = NoCode)
        /\ UNCHANGED <<units, place>>
  <2>1. PICK b \in Bodies :
        /\ pc[r] = "idle"
        /\ body' = [body EXCEPT ![r] = b]
        /\ \/ Finish(r, "failed")
           \/ Goto(r, CASE b.op = "update" -> "update"
                        [] b.op = "delete" -> "children"
                        [] b.op = "create" -> IF b.parent = NoCode THEN "insert" ELSE "parent")
        /\ UNCHANGED <<units, place>>
    BY DEF Receive
  <2>2. b.op \in {"create", "update", "delete"}
    BY BodiesAreBodies DEF Body
  <2>. QED  BY <2>1, <2>2 DEF Finish, Goto
<1>2. PICK label : pc' = [pc EXCEPT ![r] = label] /\ (label = "insert" => b.parent = NoCode)
  BY <1>1
<1>3. ASSUME NEW q \in Requests PROVE PlaceTrue(q)'
  <2>1. PlaceTrue(q) /\ PlaceTrue(r)
    BY DEF Inv
  <2>2. /\ \A p \in Requests : pc'[p] = IF p = r THEN label ELSE pc[p]
        /\ body'[q] = IF q = r THEN b ELSE body[q]
    BY <1>1, <1>2 DEF Inv, TypeInv, TypeOK
  <2>3. r \notin DOMAIN units /\ place[r].id = NoUnit /\ NoUnit \notin Requests
    BY <1>1, <2>1, NothingIsNothing DEF PlaceTrue, Ids
  <2>4. place[q].id # r
    BY <1>1, <2>1 DEF PlaceTrue
  <2>5. NoUnit \notin DOMAIN units
    BY NothingIsNothing DEF Inv, TypeInv, TypeOK
  <2>. QED  BY <1>1, <1>2, <2>1, <2>2, <2>3, <2>4, <2>5 DEF PlaceTrue
<1>. QED  BY <1>3

LEMMA GetParentPlaces ==
    ASSUME Inv, NEW r \in Requests, GetParent(r) PROVE \A q \in Requests : PlaceTrue(q)'
<1>1. pc[r] = "parent" /\ body[r].parent \in Codes /\ UNCHANGED <<units, body>>
  BY DEF GetParent, Inv, TypeInv, HandlersStand, Stands
<1>2. CASE Finish(r, "not_found") /\ UNCHANGED place
  <2>1. \A p \in Requests : pc'[p] = IF p = r THEN "done" ELSE pc[p]
    BY <1>2 DEF Finish, Goto, Inv, TypeInv, TypeOK
  <2>2. ASSUME NEW q \in Requests PROVE PlaceTrue(q)'
    <3>1. PlaceTrue(q)
      BY DEF Inv
    <3>. QED  BY <1>1, <1>2, <2>1, <3>1 DEF PlaceTrue
  <2>. QED  BY <2>2
<1>3. CASE \E u \in WithCode(body[r].parent) :
             /\ place' = [place EXCEPT ![r] =
                    [id |-> u, path |-> units[u].path, level |-> units[u].level]]
             /\ Goto(r, "insert")
             /\ UNCHANGED answer
  <2>1. PICK u \in DOMAIN units :
             /\ units[u].code = body[r].parent
             /\ place' = [place EXCEPT ![r] =
                    [id |-> u, path |-> units[u].path, level |-> units[u].level]]
             /\ pc' = [pc EXCEPT ![r] = "insert"]
    BY <1>3 DEF WithCode, Goto
  <2>2. /\ \A p \in Requests : pc'[p] = IF p = r THEN "insert" ELSE pc[p]
        /\ \A p \in Requests : p # r => place'[p] = place[p]
        /\ place'[r].id = u /\ place'[r].path = units[u].path /\ place'[r].level = units[u].level
    BY <2>1 DEF Inv, TypeInv, TypeOK
  <2>3. u # NoUnit /\ body[r].parent # NoCode
    BY <1>1, NothingIsNothing DEF Inv, TypeInv, TypeOK
  <2>4. r \notin DOMAIN units /\ (u \in Requests => pc[u] \notin {"idle", "parent", "insert"})
    BY <1>1 DEF Inv, PlaceTrue
  <2>5. ASSUME NEW q \in Requests PROVE PlaceTrue(q)'
    <3>1. PlaceTrue(q)
      BY DEF Inv
    <3>2. CASE q = r
      BY <1>1, <2>1, <2>2, <2>3, <2>4, <3>1, <3>2 DEF PlaceTrue
    <3>3. CASE q # r
      <4>1. place[q].id # r
        BY <1>1, <3>1 DEF PlaceTrue
      <4>. QED  BY <1>1, <2>2, <3>1, <3>3, <4>1 DEF PlaceTrue
    <3>. QED  BY <3>2, <3>3
  <2>. QED  BY <2>5
<1>. QED  BY <1>2, <1>3 DEF GetParent

LEMMA LastPlaces ==
    ASSUME Inv, NEW r \in Requests, pc' = [pc EXCEPT ![r] = "done"], UNCHANGED <<units, body, place>>
    PROVE  \A q \in Requests : PlaceTrue(q)'
<1>1. \A p \in Requests : pc'[p] = IF p = r THEN "done" ELSE pc[p]
  BY DEF Inv, TypeInv, TypeOK
<1>2. ASSUME NEW q \in Requests PROVE PlaceTrue(q)'
  <2>1. PlaceTrue(q)
    BY DEF Inv
  <2>. QED  BY <1>1, <2>1 DEF PlaceTrue
<1>. QED  BY <1>2

LEMMA TableStays ==
    ASSUME Inv, UNCHANGED <<units, named>> PROVE TableInv'
BY DEF Inv, TableInv, TreeShape, NamedUnitsStay, WithCode

LEMMA NamingKeepsInv ==
    ASSUME Inv, NEW code \in Codes, Refer(code) \/ Release(code) PROVE Inv'
<1>1. TypeInv'
  BY NamingTypes DEF Inv
<1>2. UNCHANGED <<units, requestVars>>
  BY DEF Refer, Release
<1>3. NamedUnitsStay'
  BY <1>2 DEF Refer, Release, Inv, NamedUnitsStay, WithCode
<1>4. \A r \in Requests : PlaceTrue(r)'
  BY <1>2 DEF Inv, PlaceTrue, requestVars
<1>. QED  BY <1>1, <1>2, <1>3, <1>4 DEF Inv, TreeShape

LEMMA StepKeepsInv ==
    ASSUME Inv, NEW r \in Requests, Step(r) PROVE Inv'
<1>1. TypeInv'
  BY StepTypes DEF Inv
<1>2. TableInv' /\ \A q \in Requests : PlaceTrue(q)'
  <2>1. CASE Receive(r)
    <3>1. UNCHANGED <<units, named>>
      BY <2>1 DEF Receive
    <3>. QED  BY <2>1, <3>1, TableStays, ReceivePlaces
  <2>2. CASE GetParent(r)
    <3>1. UNCHANGED <<units, named>>
      BY <2>2 DEF GetParent
    <3>. QED  BY <2>2, <3>1, TableStays, GetParentPlaces
  <2>3. CASE Insert(r) \/ Update(r) \/ CheckChildren(r) \/ Delete(r)
    <3>1. Moves(r) \/ (Adds(r) /\ UNCHANGED <<body, place, named>>)
      BY <2>3, WritesAreThese DEF Inv
    <3>2. CASE Moves(r)
      <4>1. UNCHANGED named /\ (UNCHANGED units \/ \E u : Deletes(u) \/ Flips(u))
        BY <3>2 DEF Moves
      <4>2. TableInv'
        BY <4>1, TableStays, DeleteKeepsTable, FlipKeepsTable
      <4>. QED  BY <3>2, <4>2, MovePlaces
    <3>3. CASE Adds(r) /\ UNCHANGED <<body, place, named>>
      BY <3>3, AddKeepsTable, AddPlaces
    <3>. QED  BY <3>1, <3>2, <3>3
  <2>4. CASE RecordAudit(r) \/ Fail(r)
    <3>1. pc' = [pc EXCEPT ![r] = "done"] /\ UNCHANGED <<units, named, body, place>>
      BY <2>4, LastStepsMove DEF Inv
    <3>. QED  BY <3>1, TableStays, LastPlaces
  <2>. QED  BY <2>1, <2>2, <2>3, <2>4 DEF Step
<1>. QED  BY <1>1, <1>2 DEF Inv, TableInv

LEMMA InitInv == Init => Inv
<1> SUFFICES ASSUME Init PROVE Inv
  OBVIOUS
<1>1. TypeInv
  BY InitTypes
<1>2. TreeShape /\ PathsEndInCodes(units)
  BY SeedIsATree DEF Init, TreeShape, PathsEndInCodes
<1>3. NamedUnitsStay
  BY SeedIsATree DEF Init, NamedUnitsStay, WithCode
<1>4. ASSUME NEW r \in Requests PROVE PlaceTrue(r)
  BY IdsAreFresh, NothingIsNothing DEF Init, PlaceTrue, Nowhere, Ids
<1>. QED  BY <1>1, <1>2, <1>3, <1>4 DEF Inv

LEMMA NextInv == Inv /\ [Next]_vars => Inv'
<1> SUFFICES ASSUME Inv, [Next]_vars PROVE Inv'
  OBVIOUS
<1>1. CASE \E r \in Requests : Step(r)
  BY <1>1, StepKeepsInv
<1>2. CASE \E code \in Codes : Refer(code) \/ Release(code)
  BY <1>2, NamingKeepsInv
<1>3. CASE UNCHANGED vars
  <2>1. TypeInv'
    BY <1>3, NextTypes DEF Inv
  <2>2. TableInv'
    BY <1>3, TableStays DEF vars
  <2>3. \A r \in Requests : PlaceTrue(r)'
    BY <1>3 DEF vars, requestVars, Inv, PlaceTrue
  <2>. QED  BY <2>1, <2>2, <2>3 DEF Inv, TableInv
<1>. QED  BY <1>1, <1>2, <1>3 DEF Next

THEOREM OrgUnitsInvariant == Spec => []Inv
BY InitInv, NextInv, PTL DEF Spec

\* Paths and levels follow the parents, whatever creations and deletions interleave.
THEOREM TreeKeepsShape == Spec => []TreeShape
<1>1. Inv => TreeShape
  BY DEF Inv
<1>. QED  BY <1>1, OrgUnitsInvariant, PTL

\* The unit of a deal or a warehouse is never deleted.
THEOREM NamedUnitsAreKept == Spec => []NamedUnitsStay
<1>1. Inv => NamedUnitsStay
  BY DEF Inv
<1>. QED  BY <1>1, OrgUnitsInvariant, PTL
-------------------------------------------------------------------------------
\* A step that adds rows is Insert, and its row is under the parent that was named.
LEMMA AdditionsLand ==
    ASSUME Inv, [Next]_vars, NEW r \in DOMAIN units' \ DOMAIN units
    PROVE  IF body[r].parent = NoCode
           THEN units'[r].parent = NoUnit
           ELSE units'[r].parent \in WithCode(body[r].parent)
<1>1. PICK q \in Requests : Step(q)
  BY DEF Next, Refer, Release, vars
<1>2. Insert(q) \/ Update(q) \/ CheckChildren(q) \/ Delete(q)
  BY <1>1, LastStepsMove DEF Step, Receive, GetParent, Inv
<1>3. ~Moves(q)
  BY DEF Moves, Deletes, Flips, Without
<1>4. Adds(q)
  BY <1>2, <1>3, WritesAreThese DEF Inv
<1>5. q = r /\ units'[r] = NewRow(r)
  BY <1>4 DEF Adds, WithUnit
<1>6. NewRow(r).parent = place[r].id
  BY DEF NewRow
<1>. QED  BY <1>4, <1>5, <1>6 DEF Adds, Inv, PlaceTrue, WithCode

\* No creation lands under a unit that took the place of the parent it looked up.
THEOREM UnitsLandWhereNamed == Spec => LandsUnderNamedParent
<1>1. Inv /\ [Next]_vars => [\A r \in DOMAIN units' \ DOMAIN units :
          IF body[r].parent = NoCode
          THEN units'[r].parent = NoUnit
          ELSE units'[r].parent \in WithCode(body[r].parent)]_vars
  BY AdditionsLand
<1>. QED  BY <1>1, OrgUnitsInvariant, PTL DEF Spec, LandsUnderNamedParent

\* Of two codes that end one path, the shorter ends the longer.
LEMMA EndsMeet ==
    ASSUME NEW path \in Seq(Labels), NEW c \in Seq(Labels), NEW d \in Seq(Labels),
           EndsWith(path, c), EndsWith(path, d), c # d
    PROVE  EndsAfterDot(c, d) \/ EndsAfterDot(d, c)
<1>1. Len(path) \in Nat /\ Len(c) \in Nat /\ Len(d) \in Nat
  BY LenProperties
<1>2. ASSUME NEW a \in Seq(Labels), NEW b \in Seq(Labels), EndsWith(path, a), EndsWith(path, b),
             Len(a) \in Nat, Len(b) \in Nat, Len(b) <= Len(a)
      PROVE  EndsWith(a, b)
  <2>1. ASSUME NEW i \in 1..Len(b) PROVE a[Len(a) - Len(b) + i] = b[i]
    <3> DEFINE j == Len(a) - Len(b) + i
    <3>1. j \in 1..Len(a) /\ Len(path) - Len(a) + j = Len(path) - Len(b) + i
      BY <1>1, <1>2
    <3>2. path[Len(path) - Len(a) + j] = a[j] /\ path[Len(path) - Len(b) + i] = b[i]
      BY <1>2, <3>1 DEF EndsWith
    <3>. QED  BY <3>1, <3>2
  <2>. QED  BY <1>2, <2>1 DEF EndsWith
<1>3. ASSUME Len(c) = Len(d) PROVE FALSE
  <2>1. \A i \in 1..Len(c) : c[i] = d[i]
    BY <1>3 DEF EndsWith
  <2>. QED  BY <1>3, <2>1, SeqEqual
<1>4. Len(c) > Len(d) \/ Len(d) > Len(c)
  BY <1>1, <1>3
<1>5. CASE Len(c) > Len(d)
  BY <1>1, <1>2, <1>5 DEF EndsAfterDot
<1>6. CASE Len(d) > Len(c)
  BY <1>1, <1>2, <1>6 DEF EndsAfterDot
<1>. QED  BY <1>4, <1>5, <1>6

\* What a clash of a new row means: its code is taken, or its path is and a dot is in a code.
ClashesRightly(r) ==
    \/ WithCode(body[r].code) # {}
    \/ \E u \in DOMAIN units :
          /\ units[u].path = place[r].path \o body[r].code
          /\ \/ EndsAfterDot(units[u].code, body[r].code)
             \/ EndsAfterDot(body[r].code, units[u].code)

\* Both codes end the path they share, so they are equal or one ends the other.
LEMMA ClashesAreRight ==
    ASSUME Inv, NEW r \in Requests, pc[r] = "insert", Clashes(NewRow(r))
    PROVE  ClashesRightly(r)
<1>1. PICK u \in DOMAIN units : units[u].code = NewRow(r).code \/ units[u].path = NewRow(r).path
  BY DEF Clashes
<1>2. NewRow(r).code = body[r].code /\ NewRow(r).path = place[r].path \o body[r].code
  BY DEF NewRow
<1>3. CASE units[u].code = body[r].code
  BY <1>3 DEF WithCode, ClashesRightly
<1>4. CASE units[u].path = NewRow(r).path /\ units[u].code # body[r].code
  <2>1. body[r].code \in Codes /\ units[u].code \in Codes /\ units[u].path \in Seq(Labels)
    BY DEF Inv, TypeInv, TypeOK, HandlersStand, Stands, Row
  <2>2. body[r].code \in Seq(Labels) /\ units[u].code \in Seq(Labels)
    BY <2>1, CodesAreLabels
  <2>3. place[r].path \in Seq(Labels)
    BY DEF Inv, TypeInv, TypeOK, Place
  <2>4. EndsWith(units[u].path, units[u].code) /\ EndsWith(units[u].path, body[r].code)
    BY <1>2, <1>4, <2>2, <2>3, ConcatEnds DEF Inv, PathsEndInCodes
  <2>5. EndsAfterDot(units[u].code, body[r].code) \/ EndsAfterDot(body[r].code, units[u].code)
    BY <1>4, <2>1, <2>2, <2>4, EndsMeet
  <2>. QED  BY <1>2, <1>4, <2>5 DEF ClashesRightly
<1>. QED  BY <1>1, <1>2, <1>3, <1>4

\* Whatever the codes, a free one is refused as existing only for a dot: a unit stands at the path
\* it would have, and one of the two codes ends with the other.
THEOREM OnlyDotsClash == Spec => ConflictNeedsDots
<1>1. Inv /\ [Next]_vars =>
        [\A r \in Requests : answer[r] = "none" /\ answer'[r] = "conflict" => ClashesRightly(r)]_vars
  <2> SUFFICES ASSUME Inv, [Next]_vars, NEW r \in Requests,
                      answer[r] = "none", answer'[r] = "conflict"
               PROVE  ClashesRightly(r)
    OBVIOUS
  <2>1. PICK q \in Requests : Step(q)
    BY DEF Next, Refer, Release, requestVars, vars
  <2>2. \A how : Finish(q, how) => \A p \in Requests : answer'[p] = IF p = q THEN how ELSE answer[p]
    BY DEF Finish, Inv, TypeInv, TypeOK
  <2>3. \A op \in {"create", "update", "delete"} : Done[op] # "conflict"
    BY DEF Done
  <2>4. RecordAudit(q) => body[q].op \in {"create", "update", "delete"}
    BY DEF RecordAudit, Inv, TypeInv, HandlersStand, Stands, Body
  <2>5. q = r /\ Insert(r) /\ Clashes(NewRow(r))
    <3>1. CASE Receive(q)
      BY <2>2, <3>1 DEF Receive
    <3>2. CASE GetParent(q)
      BY <2>2, <3>2 DEF GetParent
    <3>3. CASE Insert(q)
      BY <2>2, <3>3 DEF Insert
    <3>4. CASE Update(q) \/ CheckChildren(q) \/ Delete(q)
      BY <2>2, <3>4 DEF Update, CheckChildren, Delete
    <3>5. CASE RecordAudit(q) \/ Fail(q)
      BY <2>2, <2>3, <2>4, <3>5 DEF RecordAudit, Fail
    <3>. QED  BY <2>1, <3>1, <3>2, <3>3, <3>4, <3>5 DEF Step
  <2>. QED  BY <2>5, ClashesAreRight DEF Insert
<1>. QED  BY <1>1, OrgUnitsInvariant, PTL DEF Spec, ConflictNeedsDots, ClashesRightly
===============================================================================
