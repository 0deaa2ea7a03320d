------------------------------- MODULE OrgUnits -------------------------------
(***************************************************************************)
(* The organisation tree (core.org_units) as the gateway keeps it: each    *)
(* unit has a code, its parent's id, and a copy of its place in the tree,  *)
(* path and level, computed when it is created and never again.            *)
(*                                                                         *)
(* A request is one handler invocation.  Each SQL statement is a           *)
(* transaction of its own and so one action; what a handler read in an     *)
(* earlier statement may be out of date in the next.  A unit is named by   *)
(* the request that creates it, which stands for its generated id.         *)
(*                                                                         *)
(* Codes are sequences of labels, "HQ.SALES" being two: nothing keeps the  *)
(* dot that separates the parts of a path out of a code.                   *)
(***************************************************************************)
EXTENDS Naturals, Sequences

CONSTANTS
    Requests,      \* POST, PUT and DELETE invocations on /api/v1/org-units
    Labels,        \* texts without a dot
    Codes,         \* codes of units, trimmed and in upper case
    NoCode,        \* a code left out
    NoUnit,        \* NULL in parent_id
    Bodies,        \* requests that clients send: [op, code, parent, active]
    InitialUnits,  \* the seeded rows, a function from ids to rows
    InitialNamed   \* the codes that seeded deals and warehouses bear

Ids == Requests \cup DOMAIN InitialUnits
Flags == {"yes", "no"}

Row == [parent : Ids \cup {NoUnit}, code : Codes, path : Seq(Labels),
        level : Nat, is_active : Flags]

\* What a creation keeps of the parent it looked up.
Place == [id : Ids \cup {NoUnit}, path : Seq(Labels), level : Nat]
Nowhere == [id |-> NoUnit, path |-> <<>>, level |-> 0]

Body == [op : {"create", "update", "delete"}, code : Codes \cup {NoCode},
         parent : Codes \cup {NoCode}, active : Flags \cup {"keep"}]
NoBody == [op |-> "none", code |-> NoCode, parent |-> NoCode, active |-> "keep"]

\* Each unit with a parent has it in the table, one level up and one code shorter.
Tree(table) ==
    \A u \in DOMAIN table : table[u].parent # NoUnit =>
        /\ table[u].parent \in DOMAIN table
        /\ table[u].path = table[table[u].parent].path \o table[u].code
        /\ table[u].level = table[table[u].parent].level + 1

\* What the UNIQUE constraints on code and path keep out.
Distinct(table) ==
    \A u, v \in DOMAIN table :
        table[u].code = table[v].code \/ table[u].path = table[v].path => u = v

EndsWith(path, code) ==
    /\ Len(code) <= Len(path)
    /\ \A i \in 1..Len(code) : path[Len(path) - Len(code) + i] = code[i]

EndsAfterDot(long, short) == Len(long) > Len(short) /\ EndsWith(long, short)

ASSUME CodesAreLabels == Codes \subseteq Seq(Labels) \ {<<>>}
ASSUME NothingIsNothing == NoCode \notin Codes /\ NoUnit \notin Ids
ASSUME IdsAreFresh == Requests \cap DOMAIN InitialUnits = {}
ASSUME BodiesAreBodies == Bodies \subseteq Body
ASSUME SeedIsATree ==
    /\ InitialUnits \in [DOMAIN InitialUnits -> Row]
    /\ Tree(InitialUnits)
    /\ Distinct(InitialUnits)
    /\ \A u \in DOMAIN InitialUnits : EndsWith(InitialUnits[u].path, InitialUnits[u].code)
    /\ InitialNamed \subseteq {InitialUnits[u].code : u \in DOMAIN InitialUnits}

VARIABLES
    units,    \* core.org_units: a function from the ids in use to rows
    named,    \* codes that rows of crm.deals and wms.warehouse bear
    pc,       \* where a request's handler stands
    body,     \* what it was sent
    place,    \* the parent it looked up
    answer,   \* how it was answered
    audited   \* requests with an entry in core.audit_log

requestVars == <<pc, body, place, answer, audited>>
vars == <<units, named, requestVars>>

Answers == {"created", "updated", "deleted", "not_found", "conflict", "has_children", "failed"}
Done == [create |-> "created", update |-> "updated", delete |-> "deleted"]

TypeOK ==
    /\ DOMAIN units \subseteq Ids
    /\ units \in [DOMAIN units -> Row]
    /\ named \subseteq Codes
    /\ pc \in [Requests -> {"idle", "parent", "insert", "update", "children", "delete", "audit", "done"}]
    /\ body \in [Requests -> Body \cup {NoBody}]
    /\ place \in [Requests -> Place]
    /\ answer \in [Requests -> Answers \cup {"none"}]
    /\ audited \subseteq Requests

Init ==
    /\ units = InitialUnits
    /\ named = InitialNamed
    /\ pc = [r \in Requests |-> "idle"]
    /\ body = [r \in Requests |-> NoBody]
    /\ place = [r \in Requests |-> Nowhere]
    /\ answer = [r \in Requests |-> "none"]
    /\ audited = {}
-------------------------------------------------------------------------------
Goto(r, label) == pc' = [pc EXCEPT ![r] = label]

Finish(r, how) == Goto(r, "done") /\ answer' = [answer EXCEPT ![r] = how]

\* The units with a code: one or none.
WithCode(code) == {u \in DOMAIN units : units[u].code = code}

\* A body arrives.  A missing code (or name, with the same outcome) is refused.
Receive(r) ==
    /\ pc[r] = "idle"
    /\ \E b \in Bodies :
          /\ body' = [body EXCEPT ![r] = b]
          /\ \/ /\ b.code = NoCode
                /\ Finish(r, "failed")
             \/ /\ b.code # NoCode
                /\ Goto(r, CASE b.op = "update" -> "update"
                             [] b.op = "delete" -> "children"
                             [] b.op = "create" -> IF b.parent = NoCode THEN "insert" ELSE "parent")
                /\ UNCHANGED answer
    /\ UNCHANGED <<units, named, place, audited>>

\* (mutant) a parent that is not found is taken for none.
MissingParentIsNone(r) ==
    /\ pc[r] = "parent"
    /\ \/ /\ WithCode(body[r].parent) = {}
          /\ UNCHANGED place
       \/ \E u \in WithCode(body[r].parent) :
          place' = [place EXCEPT ![r] = [id |-> u, path |-> units[u].path, level |-> units[u].level]]
    /\ Goto(r, "insert")
    /\ UNCHANGED <<units, named, body, answer, audited>>

\* GetOrgUnitByCode: what the row shows now is kept for the INSERT.
GetParent(r) ==
    /\ pc[r] = "parent"
    /\ \/ /\ WithCode(body[r].parent) = {}
          /\ Finish(r, "not_found")
          /\ UNCHANGED place
       \/ \E u \in WithCode(body[r].parent) :
          /\ place' = [place EXCEPT ![r] =
                 [id |-> u, path |-> units[u].path, level |-> units[u].level]]
          /\ Goto(r, "insert")
          /\ UNCHANGED answer
    /\ UNCHANGED <<units, named, body, audited>>

\* (mutant) the row is stored as active or not as the body says.
FlagFromBody(r) ==
    [parent |-> place[r].id, code |-> body[r].code, path |-> place[r].path \o body[r].code,
     level |-> IF place[r].id = NoUnit THEN 0 ELSE place[r].level + 1,
     is_active |-> body[r].active]

\* (mutant) the path of a unit is its parent's.
PathOfParent(r) ==
    [parent |-> place[r].id, code |-> body[r].code, path |-> place[r].path,
     level |-> IF place[r].id = NoUnit THEN 0 ELSE place[r].level + 1, is_active |-> "yes"]

\* The row the handler computes from what it read of the parent.
NewRow(r) ==
    [parent |-> place[r].id,
     code |-> body[r].code,
     path |-> place[r].path \o body[r].code,
     level |-> IF place[r].id = NoUnit THEN 0 ELSE place[r].level + 1,
     is_active |-> "yes"]

Clashes(row) == \E u \in DOMAIN units : units[u].code = row.code \/ units[u].path = row.path

WithUnit(r, row) == [u \in DOMAIN units \cup {r} |-> IF u = r THEN row ELSE units[u]]

\* (mutant) the column parent_id has no foreign key.
InsertAnywhere(r) ==
    /\ pc[r] = "insert"
    /\ IF Clashes(NewRow(r))
       THEN Finish(r, "conflict") /\ UNCHANGED units
       ELSE Goto(r, "audit") /\ units' = WithUnit(r, NewRow(r)) /\ UNCHANGED answer
    /\ UNCHANGED <<named, body, place, audited>>

\* INSERT: UNIQUE (code), UNIQUE (path), and the foreign key on the parent's id.
Insert(r) ==
    /\ pc[r] = "insert"
    /\ \/ /\ Clashes(NewRow(r))
          /\ Finish(r, "conflict")
          /\ UNCHANGED units
       \/ /\ ~Clashes(NewRow(r))
          /\ place[r].id \notin DOMAIN units \cup {NoUnit}
          /\ Finish(r, "failed")
          /\ UNCHANGED units
       \/ /\ ~Clashes(NewRow(r))
          /\ place[r].id \in DOMAIN units \cup {NoUnit}
          /\ units' = WithUnit(r, NewRow(r))
          /\ Goto(r, "audit")
          /\ UNCHANGED answer
    /\ UNCHANGED <<named, body, place, audited>>

\* UPDATE by code; the code, the parent, the path and the level have no field in the body.
Update(r) ==
    /\ pc[r] = "update"
    /\ \/ /\ WithCode(body[r].code) = {}
          /\ Finish(r, "not_found")
          /\ UNCHANGED units
       \/ \E u \in WithCode(body[r].code) :
          /\ units' = IF body[r].active = "keep" THEN units
                      ELSE [units EXCEPT ![u].is_active = body[r].active]
          /\ Goto(r, "audit")
          /\ UNCHANGED answer
    /\ UNCHANGED <<named, body, place, audited>>

CheckChildren(r) ==
    /\ pc[r] = "children"
    /\ \/ /\ \E u \in DOMAIN units : units[u].parent \in WithCode(body[r].code)
          /\ Finish(r, "has_children")
       \/ /\ \A u \in DOMAIN units : units[u].parent \notin WithCode(body[r].code)
          /\ Goto(r, "delete")
          /\ UNCHANGED answer
    /\ UNCHANGED <<units, named, body, place, audited>>

\* ON DELETE SET NULL: the children of a deleted unit keep their paths and levels.
Without(gone) ==
    [u \in DOMAIN units \ {gone} |->
        IF units[u].parent = gone THEN [units[u] EXCEPT !.parent = NoUnit] ELSE units[u]]

\* (mutant) the foreign keys of deals and warehouses are not there.
DeleteNamed(r) ==
    /\ pc[r] = "delete"
    /\ \/ WithCode(body[r].code) = {} /\ Finish(r, "not_found") /\ UNCHANGED units
       \/ \E u \in WithCode(body[r].code) :
             units' = Without(u) /\ Goto(r, "audit") /\ UNCHANGED answer
    /\ UNCHANGED <<named, body, place, audited>>

\* DELETE by code, refused by the foreign keys of crm.deals and wms.warehouse.
Delete(r) ==
    /\ pc[r] = "delete"
    /\ \/ /\ WithCode(body[r].code) = {}
          /\ Finish(r, "not_found")
          /\ UNCHANGED units
       \/ \E u \in WithCode(body[r].code) :
          /\ units[u].code \in named
          /\ Finish(r, "failed")
          /\ UNCHANGED units
       \/ \E u \in WithCode(body[r].code) :
          /\ units[u].code \notin named
          /\ units' = Without(u)
          /\ Goto(r, "audit")
          /\ UNCHANGED answer
    /\ UNCHANGED <<named, body, place, audited>>

\* The audit entry; an error is logged and changes no answer.
RecordAudit(r) ==
    /\ pc[r] = "audit"
    /\ audited' \in {audited, audited \cup {r}}
    /\ Finish(r, Done[body[r].op])
    /\ UNCHANGED <<units, named, body, place>>

\* The program stops or loses the database: after a statement its effect stays.
Fail(r) ==
    /\ pc[r] \notin {"idle", "done"}
    /\ Finish(r, "failed")
    /\ UNCHANGED <<units, named, body, place, audited>>

Step(r) ==
    \/ Receive(r) \/ GetParent(r) \/ Insert(r) \/ Update(r)
    \/ CheckChildren(r) \/ Delete(r) \/ RecordAudit(r) \/ Fail(r)

\* A deal or a warehouse of a unit is stored.
Refer(code) ==
    /\ WithCode(code) # {}
    /\ named' = named \cup {code}
    /\ UNCHANGED <<units, requestVars>>

\* The last warehouse of a unit that has no deals is deleted.
Release(code) ==
    /\ code \in named
    /\ named' = named \ {code}
    /\ UNCHANGED <<units, requestVars>>

Next ==
    \/ \E r \in Requests : Step(r)
    \/ \E code \in Codes : Refer(code) \/ Release(code)

Spec == Init /\ [][Next]_vars
-------------------------------------------------------------------------------
\* The copies of a unit's place agree with its parent: path and level follow from the parent's,
\* however creations, deletions and re-creations of units with the same codes interleave.
TreeShape == Tree(units)

\* A deal or a warehouse always belongs to a unit that exists.
NamedUnitsStay == \A code \in named : WithCode(code) # {}

\* A unit is stored under the parent its creator named, not under one that has taken the
\* parent's place since the handler looked it up, and at the top only when none was named.
LandsUnderNamedParent ==
    [][\A r \in DOMAIN units' \ DOMAIN units :
          IF body[r].parent = NoCode
          THEN units'[r].parent = NoUnit
          ELSE units'[r].parent \in WithCode(body[r].parent)]_vars

\* "org unit already exists" (409) is answered where a unit has the code, and for a free code only
\* in one case: a unit stands at the very path the new one would have, and of their two codes one
\* ends, after a dot, with the other ("A.B" at the top and "B" under "A").  Two codes of which
\* neither has a dot never clash, wherever their parents were when they were looked up.
ConflictNeedsDots ==
    [][\A r \in Requests :
          answer[r] = "none" /\ answer'[r] = "conflict" =>
             \/ WithCode(body[r].code) # {}
             \/ \E u \in DOMAIN units :
                   /\ units[u].path = place[r].path \o body[r].code
                   /\ \/ EndsAfterDot(units[u].code, body[r].code)
                      \/ EndsAfterDot(body[r].code, units[u].code)]_vars
===============================================================================
