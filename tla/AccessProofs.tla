----------------------------- MODULE AccessProofs -----------------------------
(***************************************************************************)
(* Proofs about Access, for any requests, users, roles and permissions:    *)
(* rows that a transaction replaces are replaced whole, nobody gets in     *)
(* without the right, a token that is revoked stays so, and only           *)
(* replacements without a common lock deadlock.                            *)
(***************************************************************************)
EXTENDS Access, SequenceTheorems, FiniteSetTheorems, TLAPS

\* A request that replaces a set of rows, and the rows it puts.
Replacing(r) == body[r].op = "update_user" => body[r].keys # Keep
RowOf(r, i) ==
    [in |-> Relation(r), owner |-> Owner(r), key |-> Entries(r)[i].key,
     effect |-> Entries(r)[i].effect, by |-> r]

\* No other request replaces the same rows, but for changes of a user that lock it first.
Apart(r) ==
    \/ body[r].op = "create_user"
    \/ \A q \in Requests \ {r} : Replaces(q, Relation(r), Owner(r)) =>
          Relation(r) = "user_roles" /\ SetsColumn(body[q]) /\ SetsColumn(body[r])

OpAt(r) ==
    /\ pc[r] = "idle" => body[r] = NoBody
    /\ pc[r] # "idle" => body[r] \in Bodies
    /\ pc[r] # "done" => answer[r] = "none"
    /\ pc[r] = "user" => body[r].op \in {"create_user", "update_user"}
    /\ pc[r] = "roles" => body[r].op \in {"create_user", "update_user"} /\ Replacing(r)
    /\ pc[r] \in {"delete", "locks", "insert"} =>
          body[r].op \in {"create_user", "update_user", "update_permissions"} /\ Replacing(r)
    /\ pc[r] = "commit" => body[r].op \in {"create_user", "update_user", "update_permissions"}
    /\ pc[r] \in {"exists", "scopes"} => body[r].op \in {"update_permissions", "create_token"}
    /\ pc[r] = "role" => body[r].op = "create_role"
    /\ pc[r] = "token" => body[r].op = "create_token"
    /\ pc[r] = "revoke" => body[r].op = "revoke_token"

(* What a transaction has done so far. *)
Work(r) ==
    /\ Open(r) /\ body[r].op = "update_user" => body[r].user \in DOMAIN users
    /\ pc[r] \notin {"insert", "commit"} => added[r] = {}
    /\ IsFiniteSet(added[r])
    /\ pc[r] = "insert" =>
          /\ Cardinality(added[r]) < Len(Entries(r))
          /\ added[r] = {RowOf(r, i) : i \in 1..Cardinality(added[r])}
    /\ pc[r] = "commit" =>
          added[r] = IF Replacing(r) THEN {RowOf(r, i) : i \in DOMAIN Entries(r)} ELSE {}
    /\ pc[r] \in {"locks", "insert", "commit"} /\ Replacing(r) /\ Apart(r) => OwnRows(rows, r) \subseteq found[r]

(* What a request on its way in has read, against what was in force meanwhile. *)
WayIn(r) ==
    /\ pc[r] \in {"login", "units", "guard"} =>
          /\ rows \subseteq since[r].ever /\ since[r].always \subseteq rows
          /\ Known(users, login[r]) # {} => since[r].valid
    /\ pc[r] \in {"units", "guard"} =>
          /\ since[r].valid
          /\ subject[r].grants \subseteq GrantsOf(since[r].ever, subject[r].id)
          /\ GrantsOf(since[r].always, subject[r].id) \subseteq subject[r].grants

\* Only a request that is through has made a user or a token.
Made == \A r \in Requests : r \in DOMAIN users \cup DOMAIN tokens => pc[r] \in {"audit", "done"}

\* Two transactions never hold the row of one user.
Clash(q, r) ==
    /\ Open(q) /\ Open(r) /\ body[q].op = "update_user" /\ body[r].op = "update_user"
    /\ body[q].user = body[r].user /\ SetsColumn(body[q]) /\ SetsColumn(body[r])
UsersAreLocked == \A q, r \in Requests : q # r => ~Clash(q, r)

Inv == TypeOK /\ Made /\ UsersAreLocked /\ (\A r \in Requests : OpAt(r) /\ Work(r) /\ WayIn(r))
-------------------------------------------------------------------------------
LEMMA BodyTyped ==
    ASSUME NEW b \in Bodies
    PROVE  /\ b.op = "create_user" => b \in CreateUserBody
           /\ b.op = "update_user" => b \in UpdateUserBody
           /\ b.op = "create_role" => b \in CreateRoleBody
           /\ b.op = "update_permissions" => b \in PermissionsBody
           /\ b.op = "create_token" => b \in CreateTokenBody
           /\ b.op = "revoke_token" => b \in RevokeTokenBody
           /\ b.op \in DOMAIN FirstOf
<1>1. b \in Body
    BY BodiesAreBodies
<1> QED
    BY <1>1 DEF Body, CreateUserBody, UpdateUserBody, CreateRoleBody, PermissionsBody, CreateTokenBody,
                RevokeTokenBody, FirstOf

LEMMA EntriesTyped ==
    ASSUME NEW r \in Requests, body[r] \in Bodies, Replacing(r),
           body[r].op \in {"create_user", "update_user", "update_permissions"}
    PROVE  /\ Len(Entries(r)) \in Nat /\ DOMAIN Entries(r) = 1..Len(Entries(r))
           /\ \A i \in DOMAIN Entries(r) : RowOf(r, i) \in Row
           /\ body[r].op # "update_permissions" =>
                 /\ DOMAIN Entries(r) = DOMAIN body[r].keys
                 /\ \A i \in DOMAIN Entries(r) : Entries(r)[i].key = body[r].keys[i]
<1> DEFINE T == [key : Grants, effect : {"allow"}]
<1>1. CASE body[r].op = "update_permissions"
  <2>1. body[r].role \in Codes /\ Entries(r) \in Seq(Entry)
      BY <1>1, BodyTyped DEF PermissionsBody, Entries
  <2>2. Len(Entries(r)) \in Nat /\ DOMAIN Entries(r) = 1..Len(Entries(r))
      BY <2>1
  <2>3. ASSUME NEW i \in DOMAIN Entries(r) PROVE RowOf(r, i) \in Row
    <3>1. Entries(r)[i] \in Entry
        BY <2>1, <2>2
    <3>2. Entries(r)[i].key \in Things \X Verbs \X Scopes /\ Entries(r)[i].effect \in Effects
        BY <3>1 DEF Entry
    <3>3. Relation(r) = "role_permissions" /\ Owner(r) = body[r].role
        BY <1>1 DEF Relation, Owner
    <3> QED
        BY <2>1, <3>2, <3>3 DEF RowOf, Row, Writers
  <2> QED
      BY <1>1, <2>2, <2>3
<1>2. CASE body[r].op \in {"create_user", "update_user"}
  <2>1. body[r].keys \in Seq(Grants)
      BY <1>2, BodyTyped DEF CreateUserBody, UpdateUserBody, Replacing
  <2>2. Entries(r) = [i \in DOMAIN body[r].keys |-> [key |-> body[r].keys[i], effect |-> "allow"]]
      BY <1>2 DEF Entries
  <2>3. PICK n \in Nat : body[r].keys \in [1..n -> Grants]
      BY <2>1, SeqDef
  <2>4. Entries(r) \in [1..n -> T]
      BY <2>2, <2>3
  <2>5. Entries(r) \in Seq(T)
    <3>1. Entries(r) \in UNION {[1..m -> T] : m \in Nat}
        BY <2>3, <2>4
    <3> QED
        BY <3>1, SeqDef, Zenon
  <2>6. Len(Entries(r)) \in Nat /\ DOMAIN Entries(r) = 1..Len(Entries(r))
      BY <2>5
  <2>7. DOMAIN Entries(r) = DOMAIN body[r].keys /\ \A i \in DOMAIN Entries(r) : Entries(r)[i].key = body[r].keys[i]
      BY <2>2, <2>3
  <2>8. ASSUME NEW i \in DOMAIN Entries(r) PROVE RowOf(r, i) \in Row
    <3>1. Entries(r)[i].key \in Grants /\ Entries(r)[i].effect = "allow"
        BY <2>4
    <3>2. Owner(r) \in UserIds
        BY <1>2, BodyTyped DEF Owner, UpdateUserBody, UserIds
    <3>3. Relation(r) = "user_roles"
        BY <1>2 DEF Relation
    <3> QED
        BY <3>1, <3>2, <3>3 DEF RowOf, Row, Writers
  <2> QED
      BY <1>2, <2>6, <2>7, <2>8
<1> QED
    BY <1>1, <1>2
LEMMA EmptyEntries ==
    ASSUME NEW r \in Requests, body[r] \in Bodies, Replacing(r),
           body[r].op \in {"create_user", "update_user", "update_permissions"},
           Len(Entries(r)) = 0
    PROVE  Entries(r) = <<>>
<1>1. CASE body[r].op = "update_permissions"
  <2>1. Entries(r) \in Seq(Entry)
      BY <1>1, BodyTyped DEF PermissionsBody, Entries
  <2> QED
      BY <2>1
<1>2. CASE body[r].op \in {"create_user", "update_user"}
  <2>1. body[r].keys \in Seq(Grants)
      BY <1>2, BodyTyped DEF CreateUserBody, UpdateUserBody, Replacing
  <2>2. Entries(r) = [i \in DOMAIN body[r].keys |-> [key |-> body[r].keys[i], effect |-> "allow"]]
      BY <1>2 DEF Entries
  <2>3. DOMAIN Entries(r) = {}
      BY EntriesTyped
  <2> QED
      BY <2>2, <2>3
<1> QED
    BY <1>1, <1>2
-------------------------------------------------------------------------------
(* A step of one request against what the others know *)

StepOf(r) ==
    /\ \A q \in Requests \ {r} :
          /\ pc'[q] = pc[q] /\ login'[q] = login[q] /\ body'[q] = body[q] /\ subject'[q] = subject[q]
          /\ found'[q] = found[q] /\ added'[q] = added[q] /\ answer'[q] = answer[q]
    /\ pc[r] # "idle" => body'[r] = body[r]
    /\ DOMAIN users \subseteq DOMAIN users'

\* Whatever others commit, no row appears that a transaction should delete and has not seen.
LEMMA NoRowSlipsIn ==
    ASSUME Inv, NEW r \in Requests, NEW q \in Requests \ {r}, pc[r] = "commit",
           pc[q] \in {"locks", "insert", "commit"}, Replacing(q), Apart(q), NEW w \in added[r]
    PROVE  ~(w.in = Relation(q) /\ w.owner = Owner(q))
<1> SUFFICES ASSUME w.in = Relation(q), w.owner = Owner(q) PROVE FALSE
    OBVIOUS
<1>1. Replacing(r) /\ w.in = Relation(r) /\ w.owner = Owner(r)
  <2>1. added[r] = IF Replacing(r) THEN {RowOf(r, i) : i \in DOMAIN Entries(r)} ELSE {}
      BY DEF Inv, Work
  <2>2. Replacing(r) /\ \E i : w = RowOf(r, i)
      BY <2>1
  <2> QED
      BY <2>2 DEF RowOf
<1>2. /\ body[r].op \in {"create_user", "update_user", "update_permissions"}
      /\ body[q].op \in {"create_user", "update_user", "update_permissions"}
    BY DEF Inv, OpAt
<1>3. Open(r) /\ Open(q) /\ q # r
    BY DEF Open
<1>4. /\ body[r].op = "update_user" => body[r].user \in DOMAIN users
      /\ body[q].op = "update_user" => body[q].user \in DOMAIN users
    BY <1>3 DEF Inv, Work
<1>5. q \notin DOMAIN users /\ r \notin DOMAIN users
    BY DEF Inv, Made
<1>6. CASE body[r].op = "update_permissions"
  <2>1. body[q].op = "update_permissions" /\ body[q].role = body[r].role
      BY <1>1, <1>2, <1>6 DEF Relation, Owner
  <2>2. Replaces(r, Relation(q), Owner(q))
      BY <1>6, <2>1 DEF Replaces, Relation, Owner
  <2> QED
      BY <2>1, <2>2 DEF Apart, Relation
<1>7. CASE body[r].op = "create_user"
  <2>1. body[q].op \in {"create_user", "update_user"} /\ Owner(q) = r
      BY <1>1, <1>2, <1>7 DEF Relation, Owner
  <2> QED
      BY <1>3, <1>4, <1>5, <2>1 DEF Owner
<1>8. CASE body[r].op = "update_user"
  <2>1. body[q].op \in {"create_user", "update_user"} /\ Owner(q) = body[r].user
      BY <1>1, <1>2, <1>8 DEF Relation, Owner
  <2>2. body[q].op = "update_user" /\ body[q].user = body[r].user
      BY <1>4, <1>5, <1>8, <2>1 DEF Owner
  <2>3. Replaces(r, Relation(q), Owner(q))
      BY <1>1, <1>8, <2>1, <2>2 DEF Replaces, Replacing, Relation, Owner
  <2>4. SetsColumn(body[r]) /\ SetsColumn(body[q])
      BY <2>2, <2>3 DEF Apart
  <2> QED
      BY <1>3, <1>8, <2>2, <2>4 DEF Inv, UsersAreLocked, Clash
<1> QED
    BY <1>2, <1>6, <1>7, <1>8

LEMMA FrameWork ==
    ASSUME Inv, NEW r \in Requests, NEW q \in Requests \ {r}, StepOf(r),
           rows' = rows \/ (pc[r] = "commit" /\ rows' = (rows \ found[r]) \cup added[r])
    PROVE  OpAt(q)' /\ Work(q)'
<1>1. /\ pc'[q] = pc[q] /\ body'[q] = body[q] /\ found'[q] = found[q] /\ added'[q] = added[q]
      /\ answer'[q] = answer[q] /\ DOMAIN users \subseteq DOMAIN users'
    BY DEF StepOf
<1>2. Relation(q)' = Relation(q) /\ Owner(q)' = Owner(q) /\ Entries(q)' = Entries(q) /\ (Replacing(q)' <=> Replacing(q))
    BY <1>1 DEF Relation, Owner, Entries, Replacing
<1>3. \A i : RowOf(q, i)' = RowOf(q, i)
    BY <1>2 DEF RowOf
<1>4. OpAt(q) /\ Work(q)
    BY DEF Inv
<1>5. OpAt(q)'
    BY <1>1, <1>2, <1>4 DEF OpAt
<1>6. Apart(q)' => Apart(q)
  <2>1. ASSUME NEW p \in Requests \ {q}, Replaces(p, Relation(q), Owner(q)) PROVE body'[p] = body[p]
    <3>1. body[p] # NoBody
        BY <2>1 DEF Replaces, NoBody
    <3> QED
        BY <3>1 DEF Inv, OpAt, StepOf
  <2> SUFFICES ASSUME Apart(q)', body[q].op # "create_user", NEW p \in Requests \ {q},
                      Replaces(p, Relation(q), Owner(q))
               PROVE  Relation(q) = "user_roles" /\ SetsColumn(body[p]) /\ SetsColumn(body[q])
      BY DEF Apart
  <2>2. body'[p] = body[p]
      BY <2>1
  <2>3. Replaces(p, Relation(q), Owner(q))'
      BY <1>2, <2>2 DEF Replaces
  <2>4. (Relation(q) = "user_roles" /\ SetsColumn(body[p]) /\ SetsColumn(body[q]))'
      BY <1>1, <2>3 DEF Apart
  <2> QED
      BY <1>1, <1>2, <2>2, <2>4
<1>7. (pc[q] \in {"locks", "insert", "commit"} /\ Replacing(q) /\ Apart(q) => OwnRows(rows, q) \subseteq found[q])'
  <2> SUFFICES ASSUME pc[q] \in {"locks", "insert", "commit"}, Replacing(q), Apart(q),
                      NEW w \in rows', w.in = Relation(q), w.owner = Owner(q)
               PROVE  w \in found[q]
      BY <1>1, <1>2, <1>6 DEF OwnRows
  <2>1. w \in rows
      BY NoRowSlipsIn
  <2> QED
      BY <1>4, <2>1 DEF Work, OwnRows
<1>8. Work(q)'
  <2>1. (Open(q) /\ body[q].op = "update_user" => body[q].user \in DOMAIN users)'
      BY <1>1, <1>4 DEF Work, Open
  <2>2. (pc[q] = "insert" =>
          /\ Cardinality(added[q]) < Len(Entries(q))
          /\ added[q] = {RowOf(q, i) : i \in 1..Cardinality(added[q])})'
      BY <1>1, <1>2, <1>3, <1>4 DEF Work
  <2>3. (pc[q] = "commit" =>
          added[q] = IF Replacing(q) THEN {RowOf(q, i) : i \in DOMAIN Entries(q)} ELSE {})'
      BY <1>1, <1>2, <1>3, <1>4 DEF Work
  <2>4. (/\ pc[q] \notin {"insert", "commit"} => added[q] = {}
         /\ IsFiniteSet(added[q]))'
      BY <1>1, <1>4 DEF Work
  <2> QED
      BY <1>7, <2>1, <2>2, <2>3, <2>4 DEF Work
<1> QED
    BY <1>5, <1>8

LEMMA FrameWayIn ==
    ASSUME Inv, NEW r \in Requests, NEW q \in Requests \ {r}, StepOf(r),
           Remember \/ (UNCHANGED <<users, rows>> /\ since'[q] = since[q])
    PROVE  WayIn(q)'
<1>1. pc'[q] = pc[q] /\ login'[q] = login[q] /\ subject'[q] = subject[q] /\ WayIn(q)
    BY DEF StepOf, Inv
<1>2. CASE UNCHANGED <<users, rows>> /\ since'[q] = since[q]
    BY <1>1, <1>2 DEF WayIn, Known, GrantsOf, KeysIn
<1>3. CASE Remember
  <2> SUFFICES ASSUME pc[q] \in {"login", "units", "guard"} PROVE WayIn(q)'
      BY <1>1 DEF WayIn
  <2>1. since'[q] = [ever |-> since[q].ever \cup rows', always |-> since[q].always \cap rows',
                     valid |-> since[q].valid \/ Known(users', login[q]) # {}]
      BY <1>3 DEF Remember
  <2>2. /\ rows' \subseteq since'[q].ever /\ since'[q].always \subseteq rows'
        /\ since[q].ever \subseteq since'[q].ever /\ since'[q].always \subseteq since[q].always
      BY <2>1
  <2>3. since'[q].valid = (since[q].valid \/ Known(users', login[q]) # {})
    <3> DEFINE now == [ever |-> since[q].ever \cup rows', always |-> since[q].always \cap rows',
                       valid |-> since[q].valid \/ Known(users', login[q]) # {}]
    <3>1. now.valid = (since[q].valid \/ Known(users', login[q]) # {})
        BY Zenon
    <3> QED
        BY <2>1, <3>1, Zenon
  <2>4. (since[q].valid => since'[q].valid) /\ (Known(users', login[q]) # {} => since'[q].valid)
      BY <2>3, Zenon
  <2>5. /\ GrantsOf(since[q].ever, subject[q].id) \subseteq GrantsOf(since'[q].ever, subject[q].id)
        /\ GrantsOf(since'[q].always, subject[q].id) \subseteq GrantsOf(since[q].always, subject[q].id)
      BY <2>2 DEF GrantsOf, KeysIn
  <2> QED
      BY <1>1, <2>2, <2>4, <2>5 DEF WayIn, Known
<1> QED
    BY <1>2, <1>3

\* So a step of r has only to account for r.
LEMMA Assemble ==
    ASSUME Inv, NEW r \in Requests, StepOf(r), TypeOK',
           rows' = rows \/ (pc[r] = "commit" /\ rows' = (rows \ found[r]) \cup added[r]),
           Remember \/ (UNCHANGED <<users, rows>> /\ \A q \in Requests \ {r} : since'[q] = since[q]),
           pc[r] \in {"audit", "done"} => pc'[r] \in {"audit", "done"},
           \A t \in DOMAIN users' \cup DOMAIN tokens' :
              t \in DOMAIN users \cup DOMAIN tokens \/ (t = r /\ pc'[r] = "audit"),
           Open(r)' /\ body'[r].op = "update_user" =>
              body'[r] = body[r] /\ (Open(r) \/ HoldersOfUser(r) = {}),
           OpAt(r)' /\ Work(r)' /\ WayIn(r)'
    PROVE  Inv'
<1>1. \A q \in Requests : OpAt(q)' /\ Work(q)' /\ WayIn(q)'
  <2> SUFFICES ASSUME NEW q \in Requests, q # r PROVE OpAt(q)' /\ Work(q)' /\ WayIn(q)'
      OBVIOUS
  <2> QED
      BY FrameWork, FrameWayIn
<1>2. Made'
    BY DEF Inv, Made, StepOf
<1>3. \A q \in Requests \ {r} : (Open(q)' <=> Open(q)) /\ body'[q] = body[q]
    BY DEF StepOf, Open
<1>4. ASSUME NEW q \in Requests \ {r} PROVE ~Clash(q, r)' /\ ~Clash(r, q)'
  <2> SUFFICES ASSUME Open(q), Open(r)', body[q].op = "update_user", body'[r].op = "update_user",
                      body[q].user = body'[r].user, SetsColumn(body[q]), SetsColumn(body'[r])
               PROVE  FALSE
      BY <1>3 DEF Clash
  <2>1. body'[r] = body[r] /\ (Open(r) \/ HoldersOfUser(r) = {})
      OBVIOUS
  <2>2. HoldersOfUser(r) # {}
      BY <2>1 DEF HoldersOfUser, InTx
  <2> QED
      BY <2>1, <2>2 DEF Inv, UsersAreLocked, Clash
<1>5. UsersAreLocked'
  <2> SUFFICES ASSUME NEW p \in Requests, NEW q \in Requests, p # q PROVE ~Clash(p, q)'
      BY DEF UsersAreLocked
  <2>1. CASE p = r \/ q = r
      BY <1>4, <2>1
  <2>2. CASE p # r /\ q # r
      BY <1>3, <2>2 DEF Inv, UsersAreLocked, Clash
  <2> QED
      BY <2>1, <2>2
<1> QED
    BY <1>1, <1>2, <1>5 DEF Inv
-------------------------------------------------------------------------------
(* Steps that change no row of a user or of permissions *)

LEMMA Moving ==
    ASSUME Inv, TypeOK', NEW r \in Requests, NEW label,
           pc' = [pc EXCEPT ![r] = label], label \notin {"idle", "locks", "insert", "commit"},
           pc[r] \notin {"idle", "insert", "commit", "audit", "done"},
           UNCHANGED <<users, rows, sent, work, answer>>,
           \A q \in Requests \ {r} : subject'[q] = subject[q] /\ since'[q] = since[q],
           \A t \in DOMAIN tokens' : t \in DOMAIN tokens \/ (t = r /\ label = "audit"),
           label \in {"roles", "delete"} /\ body[r].op = "update_user" =>
              body[r].user \in DOMAIN users /\ (Open(r) \/ HoldersOfUser(r) = {}),
           OpAt(r)', WayIn(r)'
    PROVE  Inv'
<1>1. pc'[r] = label /\ \A q \in Requests \ {r} : pc'[q] = pc[q]
    BY DEF Inv, TypeOK
<1>2. login' = login /\ body' = body /\ found' = found /\ added' = added /\ users' = users /\ rows' = rows
    BY DEF sent, work
<1>3. StepOf(r)
    BY <1>1, <1>2 DEF StepOf
<1>4. Open(r)' => label \in {"roles", "delete"}
    BY <1>1 DEF Open
<1>5. added[r] = {}
    BY DEF Inv, Work
<1>6. Work(r)'
    BY <1>1, <1>2, <1>4, <1>5, FS_EmptySet DEF Work
<1>7. \A t \in DOMAIN users' \cup DOMAIN tokens' :
         t \in DOMAIN users \cup DOMAIN tokens \/ (t = r /\ pc'[r] = "audit")
    BY <1>1, <1>2
<1>8. Open(r)' /\ body'[r].op = "update_user" =>
         body'[r] = body[r] /\ (Open(r) \/ HoldersOfUser(r) = {})
    BY <1>2, <1>4
<1> QED
    BY <1>2, <1>3, <1>6, <1>7, <1>8, Assemble

LEMMA Finishing ==
    ASSUME Inv, NEW r \in Requests, NEW how \in Answers, pc[r] # "idle", Finish(r, how),
           UNCHANGED <<tables, sent, subject>>, audited' \subseteq Requests
    PROVE  Inv'
<1>1. /\ pc' = [pc EXCEPT ![r] = "done"] /\ answer' = [answer EXCEPT ![r] = how]
      /\ found' = [found EXCEPT ![r] = {}] /\ added' = [added EXCEPT ![r] = {}]
      /\ since' = [since EXCEPT ![r] = Nothing]
    BY DEF Finish, Goto
<1>2. /\ login' = login /\ body' = body /\ subject' = subject
      /\ users' = users /\ rows' = rows /\ tokens' = tokens /\ roles' = roles
    BY DEF sent, tables
<1>3. pc'[r] = "done" /\ added'[r] = {}
    BY <1>1 DEF Inv, TypeOK
<1>4. StepOf(r) /\ \A q \in Requests \ {r} : since'[q] = since[q]
    BY <1>1, <1>2 DEF StepOf, Inv, TypeOK
<1>5. TypeOK'
    BY <1>1, <1>2 DEF Inv, TypeOK, Labels, Nothing
<1>6. OpAt(r)' /\ Work(r)' /\ WayIn(r)'
    BY <1>2, <1>3, FS_EmptySet DEF OpAt, Work, WayIn, Open, Inv
<1>7. ~Open(r)'
    BY <1>3 DEF Open
<1> QED
    BY <1>2, <1>3, <1>4, <1>5, <1>6, <1>7, Assemble

LEMMA FailInv ==
    ASSUME Inv, NEW r \in Requests, Fail(r)
    PROVE  Inv'
<1>1. audited' \subseteq Requests
    BY DEF Fail, Inv, TypeOK
<1> QED
    BY <1>1, Finishing DEF Fail, Answers

LEMMA DeadlockVictimInv ==
    ASSUME Inv, NEW r \in Requests, DeadlockVictim(r)
    PROVE  Inv'
<1>1. Holders(r) # {}
    BY DEF DeadlockVictim, Deadlocked
<1>2. pc[r] # "idle"
    BY <1>1 DEF Holders
<1>3. audited' \subseteq Requests
    BY DEF DeadlockVictim, Inv, TypeOK
<1> QED
    BY <1>2, <1>3, Finishing DEF DeadlockVictim, Answers

LEMMA RecordAuditInv ==
    ASSUME Inv, NEW r \in Requests, RecordAudit(r)
    PROVE  Inv'
<1>1. audited' \subseteq Requests
    BY DEF RecordAudit, Inv, TypeOK
<1> QED
    BY <1>1, Finishing DEF RecordAudit, Answers
-------------------------------------------------------------------------------
(* The way in *)

LEMMA ReceiveInv ==
    ASSUME Inv, NEW r \in Requests, Receive(r)
    PROVE  Inv'
<1>1. PICK l \in Logins, b \in Bodies :
         /\ login' = [login EXCEPT ![r] = l] /\ body' = [body EXCEPT ![r] = b]
         /\ since' = [since EXCEPT ![r] = [ever |-> rows, always |-> rows, valid |-> Known(users, l) # {}]]
    BY DEF Receive
<1>2. /\ pc[r] = "idle" /\ pc' = [pc EXCEPT ![r] = "login"]
      /\ users' = users /\ roles' = roles /\ rows' = rows /\ tokens' = tokens /\ subject' = subject
      /\ found' = found /\ added' = added /\ answer' = answer /\ audited' = audited
    BY DEF Receive, Goto, tables, work
<1>3. pc'[r] = "login" /\ login'[r] = l /\ body'[r] = b
    BY <1>1, <1>2 DEF Inv, TypeOK
<1>4. /\ since'[r].ever = rows /\ since'[r].always = rows
      /\ since'[r].valid = (Known(users, l) # {})
    BY <1>1 DEF Inv, TypeOK
<1>5. StepOf(r) /\ \A q \in Requests \ {r} : since'[q] = since[q]
    BY <1>1, <1>2 DEF StepOf, Inv, TypeOK
<1>6. (Known(users, l) # {}) \in BOOLEAN
    OBVIOUS
<1>7. TypeOK'
    BY <1>1, <1>2, <1>6 DEF Inv, TypeOK, Labels
<1>8. OpAt(r)' /\ ~Open(r)'
    BY <1>2, <1>3 DEF OpAt, Open, Inv
<1>9. Work(r)'
    BY <1>2, <1>3, <1>8 DEF Work, Inv
<1>10. WayIn(r)'
    BY <1>2, <1>3, <1>4 DEF WayIn
<1> QED
    BY <1>2, <1>3, <1>5, <1>7, <1>8, <1>9, <1>10, Assemble

LEMMA AuthenticateInv ==
    ASSUME Inv, NEW r \in Requests, Authenticate(r)
    PROVE  Inv'
<1>1. CASE Finish(r, Refusal(r)) /\ UNCHANGED subject
  <2>1. Refusal(r) \in Answers /\ audited' \subseteq Requests
      BY DEF Refusal, Answers, Authenticate, Inv, TypeOK
  <2> QED
      BY <1>1, <2>1, Finishing DEF Authenticate
<1>2. ASSUME NEW u \in Known(users, login[r]),
             subject' = [subject EXCEPT ![r].id = u, ![r].grants =
                 {g.key : g \in {w \in rows : w.in = "user_roles" /\ w.owner = u}}],
             Goto(r, "units"), Stay
      PROVE  Inv'
  <2>1. /\ pc[r] = "login" /\ pc' = [pc EXCEPT ![r] = "units"] /\ UNCHANGED <<users, roles, rows, tokens, sent, work>>
        /\ login' = login /\ body' = body /\ found' = found /\ added' = added
        /\ since' = since /\ answer' = answer /\ audited' = audited
      BY <1>2 DEF Authenticate, Goto, Stay, tables, sent, work
  <2>2. u \in UserIds /\ GrantsOf(rows, u) \subseteq Grants
      BY DEF Known, Inv, TypeOK, GrantsOf, KeysIn, Row
  <2>3. subject' = [subject EXCEPT ![r].id = u, ![r].grants = GrantsOf(rows, u)]
      BY <1>2 DEF GrantsOf, KeysIn
  <2>4. subject'[r].id = u /\ subject'[r].grants = GrantsOf(rows, u) /\ subject' \in [Requests -> Subject]
        /\ \A q \in Requests \ {r} : subject'[q] = subject[q]
      BY <2>2, <2>3 DEF Inv, TypeOK, Subject
  <2>5. pc'[r] = "units"
      BY <2>1 DEF Inv, TypeOK
  <2>6. TypeOK'
      BY <2>1, <2>4 DEF Inv, TypeOK, Labels
  <2>7. OpAt(r)'
      BY <2>1, <2>5 DEF OpAt, Inv
  <2>8. /\ since[r].valid /\ rows \subseteq since[r].ever /\ since[r].always \subseteq rows
      BY <2>1 DEF Inv, WayIn
  <2>9. WayIn(r)'
      BY <2>1, <2>4, <2>5, <2>8 DEF WayIn, GrantsOf, KeysIn
  <2> QED
      BY <2>1, <2>4, <2>6, <2>7, <2>9, Moving
<1> QED
    BY <1>1, <1>2 DEF Authenticate

LEMMA FetchInv ==
    ASSUME Inv, NEW r \in Requests, fetchUserOrgUnits(r)
    PROVE  Inv'
<1>1. /\ pc[r] = "units" /\ pc' = [pc EXCEPT ![r] = "guard"] /\ UNCHANGED <<users, roles, rows, tokens, sent, work>>
      /\ login' = login /\ body' = body /\ found' = found /\ added' = added
      /\ since' = since /\ answer' = answer /\ audited' = audited
      /\ subject' = [subject EXCEPT ![r].units =
             IF subject[r].id \in DOMAIN UnitsOf THEN UnitsOf[subject[r].id] ELSE {}]
    BY DEF fetchUserOrgUnits, Goto, Stay, tables, sent, work
<1>2. PICK own \in SUBSET Units : subject' = [subject EXCEPT ![r].units = own]
  <2>1. (IF subject[r].id \in DOMAIN UnitsOf THEN UnitsOf[subject[r].id] ELSE {}) \in SUBSET Units
      BY SeedsAreRows
  <2> QED
      BY <1>1, <2>1
<1>3. /\ subject'[r].id = subject[r].id /\ subject'[r].grants = subject[r].grants
      /\ subject' \in [Requests -> Subject] /\ \A q \in Requests \ {r} : subject'[q] = subject[q]
  <2> DEFINE new == [subject[r] EXCEPT !.units = own]
  <2>1. subject[r] \in Subject /\ subject \in [Requests -> Subject]
      BY DEF Inv, TypeOK
  <2>2. new \in Subject /\ new.id = subject[r].id /\ new.grants = subject[r].grants
      BY <2>1 DEF Subject
  <2>3. subject' = [subject EXCEPT ![r] = new]
      BY <1>2
  <2> HIDE DEF new
  <2> QED
      BY <2>1, <2>2, <2>3
<1>4. pc'[r] = "guard"
    BY <1>1 DEF Inv, TypeOK
<1>5. TypeOK'
    BY <1>1, <1>3 DEF Inv, TypeOK, Labels
<1>6. OpAt(r)'
    BY <1>1, <1>4 DEF OpAt, Inv
<1>7. WayIn(r)'
    BY <1>1, <1>3, <1>4 DEF WayIn, GrantsOf, KeysIn, Inv
<1> QED
    BY <1>1, <1>3, <1>5, <1>6, <1>7, Moving

LEMMA GuardInv ==
    ASSUME Inv, NEW r \in Requests, permissionGuard(r)
    PROVE  Inv'
<1>1. CASE Finish(r, "forbidden")
  <2>1. audited' \subseteq Requests
      BY DEF permissionGuard, Inv, TypeOK
  <2> QED
      BY <1>1, <2>1, Finishing DEF permissionGuard, Answers
<1>2. CASE /\ Goto(r, FirstOf[body[r].op])
           /\ since' = [since EXCEPT ![r] = Nothing]
           /\ UNCHANGED <<work, answer>>
  <2> DEFINE label == FirstOf[body[r].op]
  <2>1. /\ pc[r] = "guard" /\ pc' = [pc EXCEPT ![r] = label] /\ UNCHANGED <<users, roles, rows, tokens, sent, work>>
        /\ login' = login /\ body' = body /\ found' = found /\ added' = added
        /\ answer' = answer /\ audited' = audited /\ subject' = subject
      BY <1>2 DEF permissionGuard, Goto, tables, sent, work
  <2>2. body[r] \in Bodies /\ body[r].op \in DOMAIN FirstOf
      BY <2>1, BodyTyped DEF Inv, OpAt
  <2>3. label \in {"user", "role", "exists", "revoke"}
      BY <2>2 DEF FirstOf
  <2>4. pc'[r] = label
      BY <2>1 DEF Inv, TypeOK
  <2>5. TypeOK'
      BY <1>2, <2>1, <2>3 DEF Inv, TypeOK, Labels, Nothing
  <2>6. OpAt(r)'
      BY <2>1, <2>2, <2>3, <2>4 DEF OpAt, FirstOf, Inv
  <2>7. WayIn(r)' /\ \A q \in Requests \ {r} : subject'[q] = subject[q] /\ since'[q] = since[q]
      BY <1>2, <2>1, <2>3, <2>4 DEF WayIn, Inv, TypeOK
  <2> QED
      BY <2>1, <2>3, <2>5, <2>6, <2>7, Moving
<1> QED
    BY <1>1, <1>2 DEF permissionGuard
-------------------------------------------------------------------------------
(* Transactions *)

LEMMA InsertUserInv ==
    ASSUME Inv, NEW r \in Requests, InsertUser(r)
    PROVE  Inv'
<1>1. CASE Finish(r, "invalid") \/ Finish(r, "conflict")
  <2>1. audited' \subseteq Requests
      BY DEF InsertUser, Inv, TypeOK
  <2> QED
      BY <1>1, <2>1, Finishing DEF InsertUser, Answers
<1>2. CASE Goto(r, "roles") /\ Stay
  <2>1. /\ pc[r] = "user" /\ body[r].op = "create_user" /\ pc' = [pc EXCEPT ![r] = "roles"]
        /\ UNCHANGED <<users, roles, rows, tokens, sent, work>> /\ subject' = subject
        /\ login' = login /\ body' = body /\ found' = found /\ added' = added
        /\ since' = since /\ answer' = answer /\ audited' = audited
      BY <1>2 DEF InsertUser, Goto, Stay, tables, sent, work
  <2>2. pc'[r] = "roles"
      BY <2>1 DEF Inv, TypeOK
  <2>3. TypeOK'
      BY <2>1 DEF Inv, TypeOK, Labels
  <2>4. OpAt(r)' /\ WayIn(r)'
      BY <2>1, <2>2 DEF OpAt, Replacing, WayIn, Inv
  <2> QED
      BY <2>1, <2>3, <2>4, Moving
<1> QED
    BY <1>1, <1>2 DEF InsertUser

LEMMA UpdateUserRowInv ==
    ASSUME Inv, NEW r \in Requests, UpdateUserRow(r)
    PROVE  Inv'
<1>1. CASE Finish(r, "failed") \/ Finish(r, "not_found")
  <2>1. audited' \subseteq Requests
      BY DEF UpdateUserRow, Inv, TypeOK
  <2> QED
      BY <1>1, <2>1, Finishing DEF UpdateUserRow, Answers
<1>2. CASE /\ HoldersOfUser(r) = {} /\ body[r].user \in DOMAIN users
           /\ Goto(r, IF body[r].keys = Keep THEN "commit"
                      ELSE IF body[r].keys = <<>> THEN "delete" ELSE "roles")
           /\ Stay
  <2> DEFINE label == IF body[r].keys = Keep THEN "commit" ELSE IF body[r].keys = <<>> THEN "delete" ELSE "roles"
  <2>1. /\ pc[r] = "user" /\ body[r].op = "update_user" /\ pc' = [pc EXCEPT ![r] = label]
        /\ UNCHANGED <<users, roles, rows, tokens, sent, work>> /\ subject' = subject
        /\ login' = login /\ body' = body /\ found' = found /\ added' = added
        /\ since' = since /\ answer' = answer /\ audited' = audited
        /\ users' = users /\ rows' = rows /\ tokens' = tokens /\ roles' = roles
      BY <1>2 DEF UpdateUserRow, Goto, Stay, tables, sent, work
  <2>2. pc'[r] = label /\ label \in {"commit", "delete", "roles"}
      BY <2>1 DEF Inv, TypeOK
  <2>3. TypeOK'
      BY <2>1, <2>2 DEF Inv, TypeOK, Labels
  <2>4. label # "commit" => Replacing(r)'
      BY <2>1 DEF Replacing
  <2>5. body[r] \in Bodies
      BY <2>1 DEF Inv, OpAt
  <2>6. OpAt(r)'
      BY <2>1, <2>2, <2>4, <2>5 DEF OpAt, Inv
  <2>7. WayIn(r)'
      BY <2>2 DEF WayIn
  <2>8. CASE label # "commit"
      BY <1>2, <2>1, <2>2, <2>3, <2>6, <2>7, <2>8, Moving
  <2>9. CASE label = "commit"
    <3>1. body[r].keys = Keep
        BY <2>9
    <3>2. ~Replacing(r)'
        BY <2>1, <3>1 DEF Replacing
    <3>3. added[r] = {}
        BY <2>1 DEF Inv, Work
    <3>4. Work(r)'
        BY <1>2, <2>1, <2>2, <2>9, <3>2, <3>3, FS_EmptySet DEF Work
    <3>5. StepOf(r)
        BY <2>1 DEF StepOf, Inv, TypeOK
    <3> QED
        BY <1>2, <2>1, <2>2, <2>3, <2>6, <2>7, <3>4, <3>5, Assemble
  <2> QED
      BY <2>8, <2>9
<1> QED
    BY <1>1, <1>2 DEF UpdateUserRow

LEMMA ValidateRolesInv ==
    ASSUME Inv, NEW r \in Requests, ValidateRoles(r)
    PROVE  Inv'
<1>1. CASE Finish(r, "not_found")
  <2>1. audited' \subseteq Requests
      BY DEF ValidateRoles, Inv, TypeOK
  <2> QED
      BY <1>1, <2>1, Finishing DEF ValidateRoles, Answers
<1>2. CASE Goto(r, "delete") /\ Stay
  <2>1. /\ pc[r] = "roles" /\ pc' = [pc EXCEPT ![r] = "delete"]
        /\ UNCHANGED <<users, roles, rows, tokens, sent, work>> /\ subject' = subject
        /\ login' = login /\ body' = body /\ found' = found /\ added' = added
        /\ since' = since /\ answer' = answer /\ audited' = audited
      BY <1>2 DEF ValidateRoles, Goto, Stay, tables, sent, work
  <2>2. pc'[r] = "delete"
      BY <2>1 DEF Inv, TypeOK
  <2>3. TypeOK'
      BY <2>1 DEF Inv, TypeOK, Labels
  <2>4. OpAt(r)' /\ WayIn(r)'
      BY <2>1, <2>2 DEF OpAt, Replacing, WayIn, Inv
  <2>5. Open(r)
      BY <2>1 DEF Open
  <2>6. body[r].op = "update_user" => body[r].user \in DOMAIN users
      BY <2>5 DEF Inv, Work
  <2> QED
      BY <2>1, <2>3, <2>4, <2>5, <2>6, Moving
<1> QED
    BY <1>1, <1>2 DEF ValidateRoles

LEMMA BeginDeleteInv ==
    ASSUME Inv, NEW r \in Requests, BeginDelete(r)
    PROVE  Inv'
<1>1. /\ pc[r] = "delete" /\ pc' = [pc EXCEPT ![r] = "locks"]
      /\ found' = [found EXCEPT ![r] = OwnRows(rows, r)]
      /\ users' = users /\ rows' = rows /\ tokens' = tokens /\ roles' = roles /\ subject' = subject
      /\ login' = login /\ body' = body /\ added' = added
      /\ since' = since /\ answer' = answer /\ audited' = audited
    BY DEF BeginDelete, Goto, tables, sent
<1>2. pc'[r] = "locks" /\ found'[r] = OwnRows(rows, r)
    BY <1>1 DEF Inv, TypeOK
<1>3. OwnRows(rows, r) \subseteq Row
    BY DEF OwnRows, Inv, TypeOK
<1>4. TypeOK'
    BY <1>1, <1>3 DEF Inv, TypeOK, Labels
<1>5. StepOf(r)
    BY <1>1 DEF StepOf, Inv, TypeOK
<1>6. Open(r) /\ added[r] = {} /\ (Replacing(r)' <=> Replacing(r))
    BY <1>1 DEF Open, Inv, Work, Replacing
<1>7. OpAt(r)' /\ WayIn(r)'
    BY <1>1, <1>2, <1>6 DEF OpAt, WayIn, Inv
<1>8. OwnRows(rows, r)' = OwnRows(rows, r)
    BY <1>1 DEF OwnRows, Relation, Owner
<1>9. Work(r)'
    BY <1>1, <1>2, <1>6, <1>8, FS_EmptySet DEF Work, Inv
<1> QED
    BY <1>1, <1>2, <1>4, <1>5, <1>6, <1>7, <1>9, Assemble

LEMMA DeleteInv ==
    ASSUME Inv, NEW r \in Requests, Delete(r)
    PROVE  Inv'
<1> DEFINE label == IF Entries(r) = <<>> THEN "commit" ELSE "insert"
<1>1. /\ pc[r] = "locks" /\ pc' = [pc EXCEPT ![r] = label]
      /\ found' = [found EXCEPT ![r] = @ \cap rows]
      /\ users' = users /\ rows' = rows /\ tokens' = tokens /\ roles' = roles /\ subject' = subject
      /\ login' = login /\ body' = body /\ added' = added
      /\ since' = since /\ answer' = answer /\ audited' = audited
    BY DEF Delete, Goto, tables, sent
<1>2. pc'[r] = label /\ found'[r] = found[r] \cap rows
    BY <1>1 DEF Inv, TypeOK
<1>3. TypeOK'
    BY <1>1 DEF Inv, TypeOK, Labels
<1>4. StepOf(r)
    BY <1>1 DEF StepOf, Inv, TypeOK
<1>5. /\ Open(r) /\ Replacing(r) /\ body[r] \in Bodies
      /\ body[r].op \in {"create_user", "update_user", "update_permissions"}
    BY <1>1 DEF Open, Inv, OpAt
<1>6. /\ Relation(r)' = Relation(r) /\ Owner(r)' = Owner(r) /\ Entries(r)' = Entries(r) /\ Replacing(r)'
      /\ (Apart(r)' <=> Apart(r))
    BY <1>1, <1>5 DEF Relation, Owner, Entries, Replacing, Apart, Replaces
<1>7. OpAt(r)' /\ WayIn(r)'
    BY <1>1, <1>2, <1>5, <1>6 DEF OpAt, WayIn, Inv
<1>8. added[r] = {} /\ IsFiniteSet(added[r]) /\ Cardinality(added[r]) = 0
    BY <1>1, FS_EmptySet DEF Inv, Work
<1>9. Len(Entries(r)) \in Nat /\ DOMAIN Entries(r) = 1..Len(Entries(r))
    BY <1>5, EntriesTyped
<1>10. label = "insert" => 0 < Len(Entries(r))
    BY <1>5, <1>9, EntriesTyped, EmptyEntries
<1>11. (pc[r] \in {"locks", "insert", "commit"} /\ Replacing(r) /\ Apart(r) => OwnRows(rows, r) \subseteq found[r])'
  <2>1. Apart(r) => OwnRows(rows, r) \subseteq found[r]
      BY <1>1, <1>5 DEF Inv, Work
  <2> QED
      BY <1>1, <1>2, <1>6, <2>1 DEF OwnRows
<1>12. (pc[r] = "insert" =>
          /\ Cardinality(added[r]) < Len(Entries(r))
          /\ added[r] = {RowOf(r, i) : i \in 1..Cardinality(added[r])})'
    BY <1>1, <1>2, <1>6, <1>8, <1>9, <1>10
<1>13. (pc[r] = "commit" =>
          added[r] = IF Replacing(r) THEN {RowOf(r, i) : i \in DOMAIN Entries(r)} ELSE {})'
    BY <1>1, <1>2, <1>6, <1>8
<1>14. (Open(r) /\ body[r].op = "update_user" => body[r].user \in DOMAIN users)'
    BY <1>1, <1>5 DEF Inv, Work
<1>15. Work(r)'
    BY <1>1, <1>8, <1>11, <1>12, <1>13, <1>14 DEF Work
<1> QED
    BY <1>1, <1>2, <1>3, <1>4, <1>5, <1>7, <1>15, Assemble

LEMMA InsertRowInv ==
    ASSUME Inv, NEW r \in Requests, InsertRow(r)
    PROVE  Inv'
<1>1. CASE Finish(r, "failed")
  <2>1. audited' \subseteq Requests
      BY DEF InsertRow, Inv, TypeOK
  <2> QED
      BY <1>1, <2>1, Finishing DEF InsertRow, Answers
<1>2. CASE /\ \A w \in (rows \ found[r]) \cup added[r] : ~SameKey(w, NextRow(r))
           /\ added' = [added EXCEPT ![r] = @ \cup {NextRow(r)}]
           /\ Goto(r, IF Cardinality(added[r]) + 1 = Len(Entries(r)) THEN "commit" ELSE "insert")
           /\ UNCHANGED <<found, answer, since>>
  <2> DEFINE n == Cardinality(added[r])
             label == IF n + 1 = Len(Entries(r)) THEN "commit" ELSE "insert"
  <2>1. /\ pc[r] = "insert" /\ pc' = [pc EXCEPT ![r] = label]
        /\ users' = users /\ rows' = rows /\ tokens' = tokens /\ roles' = roles /\ subject' = subject
        /\ login' = login /\ body' = body /\ found' = found
        /\ since' = since /\ answer' = answer /\ audited' = audited
      BY <1>2 DEF InsertRow, Goto, tables, sent
  <2>2. /\ Open(r) /\ Replacing(r) /\ body[r] \in Bodies
        /\ body[r].op \in {"create_user", "update_user", "update_permissions"}
      BY <2>1 DEF Open, Inv, OpAt
  <2>3. /\ IsFiniteSet(added[r]) /\ n < Len(Entries(r)) /\ added[r] = {RowOf(r, i) : i \in 1..n}
      BY <2>1 DEF Inv, Work
  <2>4. n \in Nat /\ Len(Entries(r)) \in Nat /\ DOMAIN Entries(r) = 1..Len(Entries(r))
      BY <2>2, <2>3, EntriesTyped, FS_CardinalityType
  <2>5. NextRow(r) = RowOf(r, n + 1)
      BY DEF NextRow, RowOf
  <2>6. n + 1 \in DOMAIN Entries(r)
      BY <2>3, <2>4
  <2>7. NextRow(r) \in Row
      BY <2>2, <2>5, <2>6, EntriesTyped
  <2>8. pc'[r] = label /\ added'[r] = added[r] \cup {NextRow(r)}
      BY <1>2, <2>1 DEF Inv, TypeOK
  <2>9. TypeOK'
      BY <1>2, <2>1, <2>7 DEF Inv, TypeOK, Labels
  <2>10. StepOf(r)
      BY <1>2, <2>1 DEF StepOf, Inv, TypeOK
  <2>11. NextRow(r) \notin added[r]
      BY <1>2 DEF SameKey
  <2>12. IsFiniteSet(added'[r]) /\ Cardinality(added'[r]) = n + 1
      BY <2>3, <2>8, <2>11, FS_AddElement
  <2>13. added'[r] = {RowOf(r, i) : i \in 1..(n + 1)}
      BY <2>3, <2>4, <2>5, <2>8
  <2>14. /\ Relation(r)' = Relation(r) /\ Owner(r)' = Owner(r) /\ Entries(r)' = Entries(r) /\ Replacing(r)'
         /\ (Apart(r)' <=> Apart(r))
      BY <2>1, <2>2 DEF Relation, Owner, Entries, Replacing, Apart, Replaces
  <2>15. \A i : RowOf(r, i)' = RowOf(r, i)
      BY <2>14 DEF RowOf
  <2>16. OpAt(r)' /\ WayIn(r)'
      BY <2>1, <2>2, <2>8, <2>14 DEF OpAt, WayIn, Inv
  <2>17. (pc[r] = "insert" =>
            /\ Cardinality(added[r]) < Len(Entries(r))
            /\ added[r] = {RowOf(r, i) : i \in 1..Cardinality(added[r])})'
    <3>1. label = "insert" => n + 1 < Len(Entries(r))
        BY <2>3, <2>4
    <3> QED
        BY <2>8, <2>12, <2>13, <2>14, <2>15, <3>1
  <2>18. (pc[r] = "commit" =>
            added[r] = IF Replacing(r) THEN {RowOf(r, i) : i \in DOMAIN Entries(r)} ELSE {})'
      BY <2>4, <2>8, <2>13, <2>14, <2>15
  <2>19. (pc[r] \in {"locks", "insert", "commit"} /\ Replacing(r) /\ Apart(r) => OwnRows(rows, r) \subseteq found[r])'
      BY <2>1, <2>2, <2>14 DEF Inv, Work, OwnRows
  <2>20. (Open(r) /\ body[r].op = "update_user" => body[r].user \in DOMAIN users)'
      BY <2>1, <2>2 DEF Inv, Work
  <2>21. Work(r)'
      BY <2>8, <2>12, <2>17, <2>18, <2>19, <2>20 DEF Work
  <2> QED
      BY <2>1, <2>2, <2>8, <2>9, <2>10, <2>16, <2>21, Assemble
<1> QED
    BY <1>1, <1>2 DEF InsertRow

\* A commit changes one user at most, and no other.
LEMMA UsersTyped ==
    ASSUME Inv, NEW r \in Requests, pc[r] = "commit"
    PROVE  /\ DOMAIN UsersAfter(r) = IF body[r].op = "create_user" THEN DOMAIN users \cup {r} ELSE DOMAIN users
           /\ UsersAfter(r) \in [DOMAIN UsersAfter(r) -> User]
<1>1. body[r] \in Bodies /\ body[r].op \in {"create_user", "update_user", "update_permissions"}
    BY DEF Inv, OpAt
<1>2. users \in [DOMAIN users -> User]
    BY DEF Inv, TypeOK
<1>3. CASE body[r].op = "create_user"
  <2> DEFINE new == [email |-> body[r].email, active |-> body[r].active, password |-> body[r].password]
  <2>1. new \in User
      BY <1>1, <1>3, BodyTyped DEF CreateUserBody, User
  <2>2. UsersAfter(r) = [u \in DOMAIN users \cup {r} |-> IF u # r THEN users[u] ELSE new]
      BY <1>3 DEF UsersAfter
  <2> HIDE DEF new
  <2> QED
      BY <1>2, <1>3, <2>1, <2>2
<1>4. CASE body[r].op = "update_user"
  <2> DEFINE u == body[r].user
             row == [users[u] EXCEPT !.active = Given(body[r].active, @), !.password = Given(body[r].password, @)]
  <2>1. UsersAfter(r) = [users EXCEPT ![u] = row]
      BY <1>4 DEF UsersAfter
  <2>2. ASSUME u \in DOMAIN users PROVE row \in User
    <3>1. users[u] \in User
        BY <1>2, <2>2
    <3>2. /\ Given(body[r].active, users[u].active) \in Flags
          /\ Given(body[r].password, users[u].password) \in Passwords
        BY <1>1, <1>4, <3>1, BodyTyped DEF UpdateUserBody, User, Given
    <3> QED
        BY <3>1, <3>2 DEF User
  <2> HIDE DEF row
  <2> QED
      BY <1>2, <1>4, <2>1, <2>2
<1>5. CASE body[r].op = "update_permissions"
    BY <1>2, <1>5 DEF UsersAfter
<1> QED
    BY <1>1, <1>3, <1>4, <1>5

LEMMA CommitInv ==
    ASSUME Inv, NEW r \in Requests, Commit(r)
    PROVE  Inv'
<1>1. /\ pc[r] = "commit" /\ pc' = [pc EXCEPT ![r] = "audit"] /\ users' = UsersAfter(r)
      /\ rows' = (rows \ found[r]) \cup added[r] /\ Remember
      /\ found' = [found EXCEPT ![r] = {}] /\ added' = [added EXCEPT ![r] = {}]
      /\ tokens' = tokens /\ roles' = roles /\ subject' = subject
      /\ login' = login /\ body' = body /\ answer' = answer /\ audited' = audited
    BY DEF Commit, Goto, sent
<1>2. pc'[r] = "audit" /\ added'[r] = {} /\ ~Open(r)'
    BY <1>1 DEF Inv, TypeOK, Open
<1>3. users' \in [DOMAIN users' -> User] /\ DOMAIN users \subseteq DOMAIN users' /\ DOMAIN users' \subseteq DOMAIN users \cup {r}
    BY <1>1, UsersTyped
<1>4. rows' \subseteq Row
    BY <1>1 DEF Inv, TypeOK
<1>5. since' \in [Requests -> [ever : SUBSET Row, always : SUBSET Row, valid : BOOLEAN]]
  <2>1. \A q \in Requests : since[q] \in [ever : SUBSET Row, always : SUBSET Row, valid : BOOLEAN]
      BY DEF Inv, TypeOK
  <2>2. ASSUME NEW q \in Requests
        PROVE  [ever |-> since[q].ever \cup rows', always |-> since[q].always \cap rows',
                valid |-> since[q].valid \/ Known(users', login[q]) # {}]
               \in [ever : SUBSET Row, always : SUBSET Row, valid : BOOLEAN]
      BY <1>4, <2>1
  <2> QED
      BY <1>1, <2>1, <2>2 DEF Remember
<1>6. TypeOK'
    BY <1>1, <1>3, <1>4, <1>5 DEF Inv, TypeOK, Labels, UserIds
<1>7. StepOf(r)
    BY <1>1, <1>3 DEF StepOf, Inv, TypeOK
<1>8. OpAt(r)' /\ WayIn(r)'
    BY <1>1, <1>2 DEF OpAt, WayIn, Inv
<1>9. Work(r)'
    BY <1>2, FS_EmptySet DEF Work
<1>10. \A t \in DOMAIN users' \cup DOMAIN tokens' :
          t \in DOMAIN users \cup DOMAIN tokens \/ (t = r /\ pc'[r] = "audit")
    BY <1>1, <1>2, <1>3
<1> QED
    BY <1>1, <1>2, <1>6, <1>7, <1>8, <1>9, <1>10, Assemble
-------------------------------------------------------------------------------
(* Roles, permissions, tokens *)

LEMMA RoleExistsInv ==
    ASSUME Inv, NEW r \in Requests, RoleExists(r)
    PROVE  Inv'
<1>1. CASE Finish(r, "unknown_role")
  <2>1. audited' \subseteq Requests
      BY DEF RoleExists, Inv, TypeOK
  <2> QED
      BY <1>1, <2>1, Finishing DEF RoleExists, Answers
<1>2. CASE Goto(r, "scopes") /\ Stay
  <2>1. /\ pc[r] = "exists" /\ pc' = [pc EXCEPT ![r] = "scopes"]
        /\ UNCHANGED <<users, roles, rows, tokens, sent, work>> /\ subject' = subject
        /\ login' = login /\ body' = body /\ found' = found /\ added' = added
        /\ since' = since /\ answer' = answer /\ audited' = audited
      BY <1>2 DEF RoleExists, Goto, Stay, tables, sent, work
  <2>2. pc'[r] = "scopes"
      BY <2>1 DEF Inv, TypeOK
  <2>3. TypeOK'
      BY <2>1 DEF Inv, TypeOK, Labels
  <2>4. OpAt(r)' /\ WayIn(r)'
      BY <2>1, <2>2 DEF OpAt, WayIn, Inv
  <2> QED
      BY <2>1, <2>3, <2>4, Moving
<1> QED
    BY <1>1, <1>2 DEF RoleExists

LEMMA NormalizeScopeInv ==
    ASSUME Inv, NEW r \in Requests, normalizeScope(r)
    PROVE  Inv'
<1>1. CASE Finish(r, "failed")
  <2>1. audited' \subseteq Requests
      BY DEF normalizeScope, Inv, TypeOK
  <2> QED
      BY <1>1, <2>1, Finishing DEF normalizeScope, Answers
<1>2. CASE Goto(r, IF body[r].op = "create_token" THEN "token" ELSE "delete") /\ Stay
  <2> DEFINE label == IF body[r].op = "create_token" THEN "token" ELSE "delete"
  <2>1. /\ pc[r] = "scopes" /\ pc' = [pc EXCEPT ![r] = label]
        /\ UNCHANGED <<users, roles, rows, tokens, sent, work>> /\ subject' = subject
        /\ login' = login /\ body' = body /\ found' = found /\ added' = added
        /\ since' = since /\ answer' = answer /\ audited' = audited
      BY <1>2 DEF normalizeScope, Goto, Stay, tables, sent, work
  <2>2. pc'[r] = label /\ body[r].op \in {"update_permissions", "create_token"} /\ body[r] \in Bodies
      BY <2>1 DEF Inv, TypeOK, OpAt
  <2>3. TypeOK'
      BY <2>1 DEF Inv, TypeOK, Labels
  <2>4. OpAt(r)' /\ WayIn(r)'
      BY <2>1, <2>2 DEF OpAt, Replacing, WayIn, Inv
  <2> QED
      BY <2>1, <2>2, <2>3, <2>4, Moving
<1> QED
    BY <1>1, <1>2 DEF normalizeScope

LEMMA CreateRoleInv ==
    ASSUME Inv, NEW r \in Requests, CreateRole(r)
    PROVE  Inv'
<1>1. CASE (Finish(r, "failed") \/ Finish(r, "conflict")) /\ UNCHANGED roles
  <2>1. audited' \subseteq Requests /\ UNCHANGED tables
      BY <1>1 DEF CreateRole, Inv, TypeOK, tables
  <2> QED
      BY <1>1, <2>1, Finishing DEF CreateRole, Answers
<1>2. CASE roles' = roles \cup {body[r].role} /\ Goto(r, "audit") /\ Stay
  <2>1. /\ pc[r] = "role" /\ pc' = [pc EXCEPT ![r] = "audit"]
        /\ UNCHANGED <<users, rows, tokens, sent, work>> /\ subject' = subject
        /\ login' = login /\ body' = body /\ found' = found /\ added' = added
        /\ since' = since /\ answer' = answer /\ audited' = audited
      BY <1>2 DEF CreateRole, Goto, Stay, tables, sent, work
  <2>2. body[r] \in Bodies /\ body[r].op = "create_role" /\ pc'[r] = "audit"
      BY <2>1 DEF Inv, TypeOK, OpAt
  <2>3. body[r].role \in Codes
      BY <2>2, BodyTyped DEF CreateRoleBody
  <2>4. TypeOK'
      BY <1>2, <2>1, <2>3 DEF Inv, TypeOK, Labels
  <2>5. OpAt(r)' /\ WayIn(r)'
      BY <2>1, <2>2 DEF OpAt, WayIn, Inv
  <2> QED
      BY <2>1, <2>4, <2>5, Moving
<1> QED
    BY <1>1, <1>2 DEF CreateRole

LEMMA CreateAPITokenInv ==
    ASSUME Inv, NEW r \in Requests, CreateAPIToken(r)
    PROVE  Inv'
<1>1. /\ pc[r] = "token" /\ pc' = [pc EXCEPT ![r] = "audit"]
      /\ UNCHANGED <<users, roles, rows, sent, work>> /\ subject' = subject
      /\ login' = login /\ body' = body /\ found' = found /\ added' = added
      /\ since' = since /\ answer' = answer /\ audited' = audited
      /\ tokens' = [t \in DOMAIN tokens \cup {r} |-> IF t = r THEN NewToken(r) ELSE tokens[t]]
    BY DEF CreateAPIToken, Goto, Stay, sent, work
<1>2. body[r] \in Bodies /\ body[r].op = "create_token" /\ pc'[r] = "audit"
    BY <1>1 DEF Inv, TypeOK, OpAt
<1>3. NewToken(r) \in Token
    BY <1>2, BodyTyped DEF CreateTokenBody, NewToken, Token, Writers
<1>4. TypeOK'
    BY <1>1, <1>3 DEF Inv, TypeOK, Labels, TokenIds
<1>5. OpAt(r)' /\ WayIn(r)'
    BY <1>1, <1>2 DEF OpAt, WayIn, Inv
<1>6. \A t \in DOMAIN tokens' : t \in DOMAIN tokens \/ t = r
    BY <1>1
<1> QED
    BY <1>1, <1>4, <1>5, <1>6, Moving

LEMMA RevokeAPITokenInv ==
    ASSUME Inv, NEW r \in Requests, RevokeAPIToken(r)
    PROVE  Inv'
<1>1. CASE Finish(r, "not_found") /\ UNCHANGED tokens
  <2>1. audited' \subseteq Requests /\ UNCHANGED tables
      BY <1>1 DEF RevokeAPIToken, Inv, TypeOK, tables
  <2> QED
      BY <1>1, <2>1, Finishing DEF RevokeAPIToken, Answers
<1>2. CASE /\ Valid(body[r].token)
           /\ tokens' = [tokens EXCEPT ![body[r].token].revoked = r]
           /\ Goto(r, "audit") /\ Stay
  <2>1. /\ pc[r] = "revoke" /\ pc' = [pc EXCEPT ![r] = "audit"]
        /\ UNCHANGED <<users, roles, rows, sent, work>> /\ subject' = subject
        /\ login' = login /\ body' = body /\ found' = found /\ added' = added
        /\ since' = since /\ answer' = answer /\ audited' = audited
      BY <1>2 DEF RevokeAPIToken, Goto, Stay, sent, work
  <2>2. body[r] \in Bodies /\ pc'[r] = "audit"
      BY <2>1 DEF Inv, TypeOK, OpAt
  <2>3. tokens' \in [DOMAIN tokens -> Token] /\ DOMAIN tokens' = DOMAIN tokens
    <3>1. tokens \in [DOMAIN tokens -> Token] /\ body[r].token \in DOMAIN tokens
        BY <1>2 DEF Valid, Inv, TypeOK
    <3>2. [tokens[body[r].token] EXCEPT !.revoked = r] \in Token
        BY <3>1 DEF Token, Writers
    <3> QED
        BY <1>2, <3>1, <3>2
  <2>4. TypeOK'
      BY <2>1, <2>3 DEF Inv, TypeOK, Labels
  <2>5. OpAt(r)' /\ WayIn(r)'
      BY <2>1, <2>2 DEF OpAt, WayIn, Inv
  <2> QED
      BY <2>1, <2>3, <2>4, <2>5, Moving
<1> QED
    BY <1>1, <1>2 DEF RevokeAPIToken
-------------------------------------------------------------------------------
LEMMA InitInv == Init => Inv
<1> SUFFICES ASSUME Init PROVE Inv
    OBVIOUS
<1>1. TypeOK
    BY SeedsAreRows DEF Init, TypeOK, UserIds, TokenIds, Labels, Stranger, Subject, Nothing
<1>2. Made
    BY NamesAreFresh DEF Init, Made
<1>3. UsersAreLocked
    BY DEF Init, UsersAreLocked, Clash, Open
<1>4. \A r \in Requests : OpAt(r) /\ Work(r) /\ WayIn(r)
    BY FS_EmptySet DEF Init, OpAt, Work, WayIn, Open
<1> QED
    BY <1>1, <1>2, <1>3, <1>4 DEF Inv

LEMMA NextInv == Inv /\ [Next]_vars => Inv'
<1> SUFFICES ASSUME Inv, [Next]_vars PROVE Inv'
    OBVIOUS
<1>1. ASSUME NEW r \in Requests, Receive(r) \/ Fail(r) PROVE Inv'
    BY <1>1, ReceiveInv, FailInv
<1>2. ASSUME NEW r \in Requests,
             Authenticate(r) \/ fetchUserOrgUnits(r) \/ permissionGuard(r) \/ RecordAudit(r) \/ DeadlockVictim(r)
      PROVE  Inv'
    BY <1>2, AuthenticateInv, FetchInv, GuardInv, RecordAuditInv, DeadlockVictimInv
<1>3. ASSUME NEW r \in Requests,
             \/ InsertUser(r) \/ UpdateUserRow(r) \/ ValidateRoles(r)
             \/ BeginDelete(r) \/ Delete(r) \/ InsertRow(r) \/ Commit(r)
      PROVE  Inv'
    BY <1>3, InsertUserInv, UpdateUserRowInv, ValidateRolesInv, BeginDeleteInv, DeleteInv, InsertRowInv, CommitInv
<1>4. ASSUME NEW r \in Requests,
             \/ RoleExists(r) \/ normalizeScope(r) \/ CreateRole(r)
             \/ CreateAPIToken(r) \/ RevokeAPIToken(r)
      PROVE  Inv'
    BY <1>4, RoleExistsInv, NormalizeScopeInv, CreateRoleInv, CreateAPITokenInv, RevokeAPITokenInv
<1>5. CASE UNCHANGED vars
  <2>1. UNCHANGED <<users, roles, rows, tokens, pc, login, body, subject, found, added, answer, audited, since>>
      BY <1>5 DEF vars, tables, sent, work
  <2>2. TypeOK' /\ Made' /\ UsersAreLocked'
      BY <2>1 DEF Inv, TypeOK, Made, UsersAreLocked, Clash, Open
  <2>3. ASSUME NEW r \in Requests PROVE OpAt(r)' /\ Work(r)' /\ WayIn(r)'
    <3>1. OpAt(r)'
        BY <2>1 DEF Inv, OpAt, Replacing
    <3>2. WayIn(r)'
        BY <2>1 DEF Inv, WayIn, Known, GrantsOf, KeysIn
    <3>3. /\ Relation(r)' = Relation(r) /\ Owner(r)' = Owner(r) /\ Entries(r)' = Entries(r)
          /\ (Replacing(r)' <=> Replacing(r)) /\ (Apart(r)' <=> Apart(r)) /\ (Open(r)' <=> Open(r))
        BY <2>1 DEF Relation, Owner, Entries, Replacing, Apart, Replaces, Open
    <3>4. \A i : RowOf(r, i)' = RowOf(r, i)
        BY <3>3 DEF RowOf
    <3>5. Work(r)'
        BY <2>1, <3>3, <3>4 DEF Inv, Work, OwnRows
    <3> QED
        BY <3>1, <3>2, <3>5
  <2> QED
      BY <2>2, <2>3 DEF Inv
<1> QED
    BY <1>1, <1>2, <1>3, <1>4, <1>5 DEF Next, Step

LEMMA AlwaysInv == Spec => []Inv
BY InitInv, NextInv, PTL DEF Spec
-------------------------------------------------------------------------------
(* Which step is it? *)

LEMMA OneAtATime ==
    ASSUME Inv, Next, NEW r \in Requests, pc'[r] # pc[r]
    PROVE  Receive(r) \/ Step(r) \/ Fail(r)
<1>1. PICK q \in Requests : Receive(q) \/ Step(q) \/ Fail(q)
    BY DEF Next
<1>2. \E label : pc' = [pc EXCEPT ![q] = label]
  <2>1. CASE Receive(q) \/ Fail(q)
      BY <2>1 DEF Receive, Fail, Goto, Finish
  <2>2. CASE \/ Authenticate(q) \/ fetchUserOrgUnits(q) \/ permissionGuard(q) \/ InsertUser(q)
             \/ UpdateUserRow(q) \/ ValidateRoles(q) \/ BeginDelete(q)
      BY <2>2 DEF Authenticate, fetchUserOrgUnits, permissionGuard, InsertUser, UpdateUserRow,
                  ValidateRoles, BeginDelete, Goto, Finish
  <2>3. CASE \/ Delete(q) \/ InsertRow(q) \/ Commit(q) \/ RoleExists(q) \/ normalizeScope(q) \/ CreateRole(q)
             \/ CreateAPIToken(q) \/ RevokeAPIToken(q) \/ RecordAudit(q) \/ DeadlockVictim(q)
      BY <2>3 DEF Delete, InsertRow, Commit, RoleExists, normalizeScope, CreateRole, CreateAPIToken,
                  RevokeAPIToken, RecordAudit, DeadlockVictim, Goto, Finish
  <2> QED
      BY <1>1, <2>1, <2>2, <2>3 DEF Step
<1>3. q = r
    BY <1>2 DEF Inv, TypeOK
<1> QED
    BY <1>1, <1>3

LEMMA ItIsTheCommit ==
    ASSUME Inv, Next, NEW r \in Requests, pc[r] = "commit", pc'[r] = "audit"
    PROVE  Commit(r)
<1>1. Receive(r) \/ Step(r) \/ Fail(r)
    BY OneAtATime
<1>2. ~Fail(r) /\ ~DeadlockVictim(r)
    BY DEF Fail, DeadlockVictim, Finish, Goto, Inv, TypeOK
<1>3. /\ ~Receive(r) /\ ~Authenticate(r) /\ ~fetchUserOrgUnits(r) /\ ~permissionGuard(r) /\ ~InsertUser(r)
      /\ ~UpdateUserRow(r) /\ ~ValidateRoles(r) /\ ~BeginDelete(r) /\ ~Delete(r) /\ ~InsertRow(r)
    BY DEF Receive, Authenticate, fetchUserOrgUnits, permissionGuard, InsertUser, UpdateUserRow,
           ValidateRoles, BeginDelete, Delete, InsertRow
<1>4. /\ ~RoleExists(r) /\ ~normalizeScope(r) /\ ~CreateRole(r) /\ ~CreateAPIToken(r)
      /\ ~RevokeAPIToken(r) /\ ~RecordAudit(r)
    BY DEF RoleExists, normalizeScope, CreateRole, CreateAPIToken, RevokeAPIToken, RecordAudit
<1> QED
    BY <1>1, <1>2, <1>3, <1>4 DEF Step

LEMMA ItIsTheGuard ==
    ASSUME Inv, Next, NEW r \in Requests, Enters(r)
    PROVE  permissionGuard(r)
<1>1. pc[r] = "guard" /\ answer'[r] # "failed" /\ (Receive(r) \/ Step(r) \/ Fail(r))
    BY OneAtATime DEF Enters
<1>2. ~Fail(r) /\ ~DeadlockVictim(r)
    BY <1>1 DEF Fail, DeadlockVictim, Finish, Inv, TypeOK
<1>3. /\ ~Receive(r) /\ ~Authenticate(r) /\ ~fetchUserOrgUnits(r) /\ ~InsertUser(r)
      /\ ~UpdateUserRow(r) /\ ~ValidateRoles(r) /\ ~BeginDelete(r) /\ ~Delete(r) /\ ~InsertRow(r)
    BY <1>1 DEF Receive, Authenticate, fetchUserOrgUnits, InsertUser, UpdateUserRow,
           ValidateRoles, BeginDelete, Delete, InsertRow
<1>4. /\ ~RoleExists(r) /\ ~normalizeScope(r) /\ ~CreateRole(r) /\ ~CreateAPIToken(r)
      /\ ~RevokeAPIToken(r) /\ ~RecordAudit(r) /\ ~Commit(r)
    BY <1>1 DEF RoleExists, normalizeScope, CreateRole, CreateAPIToken, RevokeAPIToken, RecordAudit, Commit
<1> QED
    BY <1>1, <1>2, <1>3, <1>4 DEF Step

\* What a replacement has when it commits.
LEMMA CommitPutsItsRows ==
    ASSUME Inv, NEW r \in Requests, Commit(r), Replacing(r), Apart(r)
    PROVE  KeysIn(rows', Relation(r), Owner(r)) = {Entries(r)[i].key : i \in DOMAIN Entries(r)}
<1>1. rows' = (rows \ found[r]) \cup added[r] /\ pc[r] = "commit"
    BY DEF Commit
<1>2. added[r] = {RowOf(r, i) : i \in DOMAIN Entries(r)} /\ OwnRows(rows, r) \subseteq found[r]
    BY <1>1 DEF Inv, Work
<1>3. {w \in rows' : w.in = Relation(r) /\ w.owner = Owner(r)} = added[r]
    BY <1>1, <1>2 DEF OwnRows, RowOf
<1>4. KeysIn(rows', Relation(r), Owner(r)) = {w.key : w \in added[r]}
    BY <1>3 DEF KeysIn
<1>5. {w.key : w \in added[r]} = {Entries(r)[i].key : i \in DOMAIN Entries(r)}
  <2>1. \A i : RowOf(r, i).key = Entries(r)[i].key
      BY DEF RowOf
  <2> QED
      BY <1>2, <2>1
<1> QED
    BY <1>4, <1>5
-------------------------------------------------------------------------------
\* Users, roles, permissions, tokens and requests have their types: above all, no row is stored
\* that is not a row, whatever fields an update leaves out.
THEOREM AccessTypeCorrect == Spec => []TypeOK
<1>1. Inv => TypeOK
    BY DEF Inv
<1> QED
    BY <1>1, AlwaysInv, PTL

\* A user comes into the table with exactly the roles it was to be created with, at once: rows
\* of a user are written by its own transaction until that has committed.
THEOREM UsersComeWhole == Spec => CreatedWhole
<1> DEFINE A == \A r \in DOMAIN users' \ DOMAIN users :
                   KeysIn(rows', "user_roles", r) = {body[r].keys[k] : k \in DOMAIN body[r].keys}
<1>1. ASSUME Inv, [Next]_vars PROVE A
  <2> SUFFICES ASSUME NEW r \in DOMAIN users' \ DOMAIN users
               PROVE  KeysIn(rows', "user_roles", r) = {body[r].keys[k] : k \in DOMAIN body[r].keys}
      OBVIOUS
  <2>1. Next
      BY <1>1 DEF vars, tables
  <2>2. PICK q \in Requests : Receive(q) \/ Step(q) \/ Fail(q)
      BY <2>1 DEF Next
  <2>3. Commit(q)
      BY <2>2 DEF Step, Receive, Fail, Authenticate, fetchUserOrgUnits, permissionGuard, InsertUser,
                  UpdateUserRow, ValidateRoles, BeginDelete, Delete, InsertRow, RoleExists, normalizeScope,
                  CreateRole, CreateAPIToken, RevokeAPIToken, RecordAudit, DeadlockVictim, tables
  <2>4. pc[q] = "commit" /\ users' = UsersAfter(q)
      BY <2>3 DEF Commit
  <2>5. body[q].op = "create_user" /\ r = q
      BY <1>1, <2>4, UsersTyped
  <2>6. Replacing(r) /\ Apart(r) /\ Relation(r) = "user_roles" /\ Owner(r) = r
      BY <2>5 DEF Replacing, Apart, Relation, Owner
  <2>7. KeysIn(rows', "user_roles", r) = {Entries(r)[i].key : i \in DOMAIN Entries(r)}
      BY <1>1, <2>3, <2>5, <2>6, CommitPutsItsRows
  <2>8. body[r] \in Bodies
      BY <1>1, <2>4, <2>5 DEF Inv, OpAt
  <2>9. DOMAIN Entries(r) = DOMAIN body[r].keys /\ \A i \in DOMAIN Entries(r) : Entries(r)[i].key = body[r].keys[i]
      BY <2>5, <2>6, <2>8, EntriesTyped
  <2> QED
      BY <2>7, <2>9
<1> QED
    BY <1>1, AlwaysInv, PTL DEF Spec, CreatedWhole

\* Replacements of one user's roles which all lock the user leave what the last one put, and so
\* does a replacement of a role's permissions that no other is beside.
THEOREM ReplacementsAreWhole == Spec => ReplacesWhole
<1> DEFINE A == \A r \in Requests, relation \in {"user_roles", "role_permissions"}, owner \in UserIds \cup Codes :
          /\ Replaces(r, relation, owner)
          /\ pc[r] = "commit" /\ pc'[r] = "audit"
          /\ \A q \in Requests : q # r /\ Replaces(q, relation, owner) =>
                /\ relation = "user_roles"
                /\ SetsColumn(body[q]) /\ SetsColumn(body[r])
          => KeysIn(rows', relation, owner) = {Entries(r)[i].key : i \in DOMAIN Entries(r)}
<1>1. ASSUME Inv, [Next]_vars PROVE A
  <2> SUFFICES ASSUME NEW r \in Requests, NEW relation \in {"user_roles", "role_permissions"},
                      NEW owner \in UserIds \cup Codes, Replaces(r, relation, owner),
                      pc[r] = "commit", pc'[r] = "audit",
                      \A q \in Requests : q # r /\ Replaces(q, relation, owner) =>
                         relation = "user_roles" /\ SetsColumn(body[q]) /\ SetsColumn(body[r])
               PROVE  KeysIn(rows', relation, owner) = {Entries(r)[i].key : i \in DOMAIN Entries(r)}
      OBVIOUS
  <2>1. Next
      BY <1>1 DEF vars
  <2>2. Commit(r)
      BY <1>1, <2>1, ItIsTheCommit
  <2>3. Relation(r) = relation /\ Owner(r) = owner /\ Replacing(r)
      BY DEF Replaces, Relation, Owner, Replacing
  <2>4. Apart(r)
      BY <2>3 DEF Apart
  <2> QED
      BY <1>1, <2>2, <2>3, <2>4, CommitPutsItsRows
<1> QED
    BY <1>1, AlwaysInv, PTL DEF Spec, ReplacesWhole

\* A token that is revoked stays revoked, by whom it was: ids of tokens are never used again, and
\* the UPDATE passes over a token that is revoked.
THEOREM RevocationsLast == Spec => RevokedOnce
<1> DEFINE A == \A t \in DOMAIN tokens : tokens[t].revoked # Nobody =>
                   t \in DOMAIN tokens' /\ tokens'[t].revoked = tokens[t].revoked
<1>1. ASSUME Inv, [Next]_vars PROVE A
  <2>1. CASE tokens' = tokens
      BY <2>1
  <2>2. ASSUME NEW r \in Requests, CreateAPIToken(r) PROVE A
    <3>1. r \notin DOMAIN tokens
        BY <1>1, <2>2 DEF CreateAPIToken, Inv, Made
    <3> QED
        BY <2>2, <3>1 DEF CreateAPIToken
  <2>3. ASSUME NEW r \in Requests, RevokeAPIToken(r) PROVE A
      BY <2>1, <2>3 DEF RevokeAPIToken, Valid
  <2>4. CASE Next
    <3>1. PICK r \in Requests : Receive(r) \/ Step(r) \/ Fail(r)
        BY <2>4 DEF Next
    <3>2. CreateAPIToken(r) \/ RevokeAPIToken(r) \/ tokens' = tokens
        BY <3>1 DEF Step, Receive, Fail, Authenticate, fetchUserOrgUnits, permissionGuard, InsertUser,
                    UpdateUserRow, ValidateRoles, BeginDelete, Delete, InsertRow, Commit, RoleExists,
                    normalizeScope, CreateRole, RecordAudit, DeadlockVictim, tables
    <3> QED
        BY <2>1, <2>2, <2>3, <3>2
  <2> QED
      BY <1>1, <2>1, <2>4 DEF vars, tables
<1> QED
    BY <1>1, AlwaysInv, PTL DEF Spec, RevokedOnce

\* Nobody gets past the guard but on credentials that were valid, roles that were held and a
\* permission that was in force since the request came in, though each is read in its own time.
THEOREM NobodyEntersWithoutRight == Spec => AdmittedOnRights
<1> DEFINE Admitted(r) ==
             /\ since[r].valid
             /\ LET g == GrantsOf(since[r].ever, subject[r].id)
                IN  \E p \in since[r].ever, k \in g :
                       /\ p.in = "role_permissions" /\ p.effect = "allow" /\ p.owner = Lower[k[1]]
                       /\ p.key[1] \in {Need[body[r].op][1], Any} /\ p.key[2] \in {Need[body[r].op][2], Any}
                       /\ p.key[3] = Any \/ p.key[3] \in subject[r].units \/ \E l \in g : p.key[3] = l[2]
           A == \A r \in Requests : Enters(r) /\ answer'[r] = "none" => Admitted(r)
<1>1. ASSUME Inv, [Next]_vars PROVE A
  <2> SUFFICES ASSUME NEW r \in Requests, Enters(r), answer'[r] = "none" PROVE Admitted(r)
      OBVIOUS
  <2>1. permissionGuard(r)
      BY <1>1, ItIsTheGuard DEF vars, Enters
  <2>2. pc[r] = "guard" /\ CheckPermission(r)
      BY <1>1, <2>1 DEF permissionGuard, Finish, Inv, TypeOK
  <2>3. /\ since[r].valid /\ rows \subseteq since[r].ever
        /\ subject[r].grants \subseteq GrantsOf(since[r].ever, subject[r].id)
      BY <1>1, <2>2 DEF Inv, WayIn
  <2>4. PICK p \in rows :
           /\ p.in = "role_permissions" /\ p.owner \in RoleCodes(subject[r]) /\ p.effect = "allow"
           /\ p.key[1] \in {Need[body[r].op][1], Any} /\ p.key[2] \in {Need[body[r].op][2], Any}
           /\ p.key[3] \in ScopesOf(subject[r]) \cup {Any}
      BY <2>2 DEF CheckPermission, HasPermission
  <2>5. PICK k \in subject[r].grants : p.owner = Lower[k[1]]
      BY <2>4 DEF RoleCodes
  <2>6. p.key[3] = Any \/ p.key[3] \in subject[r].units \/ \E l \in subject[r].grants : p.key[3] = l[2]
      BY <2>4 DEF ScopesOf
  <2> QED
      BY <2>3, <2>4, <2>5, <2>6
<1> QED
    BY <1>1, AlwaysInv, PTL DEF Spec, AdmittedOnRights

\* Nobody is refused who has held a role in lower case, and the role a permission that covers
\* the request, since the request came in.
THEOREM NobodyWithRightIsRefused == Spec => RefusedOnlyWithoutRight
<1> DEFINE Entitled(r, p, k) ==
             /\ p.in = "role_permissions" /\ p.effect = "allow"
             /\ p.owner = k[1] /\ Lower[k[1]] = k[1]
             /\ p.key[1] \in {Need[body[r].op][1], Any} /\ p.key[2] \in {Need[body[r].op][2], Any}
             /\ p.key[3] \in {Any, k[2]}
           A == \A r \in Requests :
                   Enters(r) /\ answer'[r] = "forbidden" =>
                      \A p \in since[r].always, k \in GrantsOf(since[r].always, subject[r].id) : ~ Entitled(r, p, k)
<1>1. ASSUME Inv, [Next]_vars PROVE A
  <2> SUFFICES ASSUME NEW r \in Requests, Enters(r), answer'[r] = "forbidden", NEW p \in since[r].always,
                      NEW k \in GrantsOf(since[r].always, subject[r].id), Entitled(r, p, k)
               PROVE  FALSE
      OBVIOUS
  <2>1. permissionGuard(r)
      BY <1>1, ItIsTheGuard DEF vars, Enters
  <2>2. pc[r] = "guard"
      BY DEF Enters
  <2>3. k \in subject[r].grants /\ p \in rows
      BY <1>1, <2>2 DEF Inv, WayIn
  <2>4. p.owner \in RoleCodes(subject[r]) /\ p.key[3] \in ScopesOf(subject[r]) \cup {Any}
      BY <2>3 DEF RoleCodes, ScopesOf
  <2>5. CheckPermission(r)
      BY <2>3, <2>4 DEF CheckPermission, HasPermission
  <2>6. answer'[r] = "none"
    <3>1. UNCHANGED answer
        BY <2>1, <2>5 DEF permissionGuard
    <3> QED
        BY <1>1, <2>2, <3>1 DEF Inv, OpAt
  <2> QED
      BY <2>6
<1> QED
    BY <1>1, AlwaysInv, PTL DEF Spec, RefusedOnlyWithoutRight
-------------------------------------------------------------------------------
(* Which transactions wait for each other *)

\* A transaction only deletes rows of the owner whose rows it replaces.
FoundOwn(r) ==
    /\ pc[r] \notin {"locks", "insert", "commit"} => found[r] = {}
    /\ \A w \in found[r] : w.in = Relation(r) /\ w.owner = Owner(r)
FoundInv == \A r \in Requests : FoundOwn(r)

LEMMA FoundFrame ==
    ASSUME Inv, FoundInv, NEW r \in Requests, NEW label, NEW set,
           pc' = [pc EXCEPT ![r] = label], found' = [found EXCEPT ![r] = set],
           \A q \in Requests \ {r} : body'[q] = body[q],
           label \notin {"locks", "insert", "commit"} => set = {},
           set # {} => body'[r] = body[r] /\ \A w \in set : w.in = Relation(r) /\ w.owner = Owner(r)
    PROVE  FoundInv'
<1>1. /\ pc'[r] = label /\ found'[r] = set
      /\ \A q \in Requests \ {r} : pc'[q] = pc[q] /\ found'[q] = found[q]
    BY DEF Inv, TypeOK
<1>2. \A q \in Requests : body'[q] = body[q] => Relation(q)' = Relation(q) /\ Owner(q)' = Owner(q)
    BY DEF Relation, Owner
<1>3. FoundOwn(r)'
    BY <1>1, <1>2 DEF FoundOwn
<1>4. ASSUME NEW q \in Requests \ {r} PROVE FoundOwn(q)'
    BY <1>1, <1>2 DEF FoundInv, FoundOwn
<1> QED
    BY <1>3, <1>4 DEF FoundInv

LEMMA FoundNext == Inv /\ FoundInv /\ [Next]_vars => FoundInv'
<1> SUFFICES ASSUME Inv, FoundInv, [Next]_vars PROVE FoundInv'
    OBVIOUS
<1>1. CASE UNCHANGED vars
    BY <1>1 DEF vars, work, sent, FoundInv, FoundOwn, Relation, Owner
<1>2. ASSUME NEW r \in Requests, Receive(r) \/ Step(r) \/ Fail(r) PROVE FoundInv'
  <2>0. FoundOwn(r)
      BY DEF FoundInv
  <2>1. ASSUME NEW how, Finish(r, how), UNCHANGED sent PROVE FoundInv'
      BY <2>1, FoundFrame DEF Finish, Goto, sent
  <2>2. ASSUME NEW label, pc' = [pc EXCEPT ![r] = label], UNCHANGED <<sent, work>>,
               pc[r] \notin {"locks", "insert", "commit"} \/ label \in {"insert", "commit"}
        PROVE  FoundInv'
    <3>1. found' = [found EXCEPT ![r] = found[r]] /\ body' = body
        BY <2>2 DEF work, sent, Inv, TypeOK
    <3> QED
        BY <2>0, <2>2, <3>1, FoundFrame DEF FoundOwn
  <2>3. CASE Receive(r)
    <3>1. PICK b \in Bodies : body' = [body EXCEPT ![r] = b]
        BY <2>3 DEF Receive
    <3>2. /\ pc[r] = "idle" /\ pc' = [pc EXCEPT ![r] = "login"] /\ found[r] = {}
          /\ found' = [found EXCEPT ![r] = {}]
        BY <2>0, <2>3 DEF Receive, Goto, work, FoundOwn, Inv, TypeOK
    <3>3. \A q \in Requests \ {r} : body'[q] = body[q]
        BY <3>1 DEF Inv, TypeOK
    <3> QED
        BY <3>2, <3>3, FoundFrame
  <2>4. CASE Fail(r) \/ DeadlockVictim(r) \/ RecordAudit(r)
      BY <2>1, <2>4 DEF Fail, DeadlockVictim, RecordAudit
  <2>5. CASE Authenticate(r) \/ fetchUserOrgUnits(r) \/ permissionGuard(r)
      BY <2>1, <2>2, <2>5 DEF Authenticate, fetchUserOrgUnits, permissionGuard, Goto, Stay
  <2>6. CASE InsertUser(r) \/ UpdateUserRow(r) \/ ValidateRoles(r)
      BY <2>1, <2>2, <2>6 DEF InsertUser, UpdateUserRow, ValidateRoles, Goto, Stay
  <2>7. CASE \/ RoleExists(r) \/ normalizeScope(r) \/ CreateRole(r)
             \/ CreateAPIToken(r) \/ RevokeAPIToken(r)
      BY <2>1, <2>2, <2>7 DEF RoleExists, normalizeScope, CreateRole, CreateAPIToken, RevokeAPIToken,
                              Goto, Stay
  <2>8. CASE BeginDelete(r)
      BY <2>8, FoundFrame DEF BeginDelete, Goto, sent, OwnRows
  <2>9. CASE Delete(r)
    <3> DEFINE label == IF Entries(r) = <<>> THEN "commit" ELSE "insert"
    <3>1. /\ pc' = [pc EXCEPT ![r] = label] /\ found' = [found EXCEPT ![r] = found[r] \cap rows]
          /\ body' = body /\ label \in {"commit", "insert"}
        BY <2>9 DEF Delete, Goto, sent, Inv, TypeOK
    <3> HIDE DEF label
    <3> QED
        BY <2>0, <3>1, FoundFrame DEF FoundOwn
  <2>10. CASE InsertRow(r)
    <3>1. CASE Finish(r, "failed")
        BY <2>1, <2>10, <3>1 DEF InsertRow
    <3>2. CASE ~Finish(r, "failed")
      <4> DEFINE label == IF Cardinality(added[r]) + 1 = Len(Entries(r)) THEN "commit" ELSE "insert"
      <4>1. /\ pc' = [pc EXCEPT ![r] = label] /\ found' = [found EXCEPT ![r] = found[r]]
            /\ body' = body /\ label \in {"commit", "insert"}
          BY <2>10, <3>2 DEF InsertRow, Goto, sent, Inv, TypeOK
      <4> HIDE DEF label
      <4> QED
          BY <2>0, <4>1, FoundFrame DEF FoundOwn
    <3> QED
        BY <3>1, <3>2
  <2>11. CASE Commit(r)
      BY <2>11, FoundFrame DEF Commit, Goto, sent
  <2> QED
      BY <1>2, <2>3, <2>4, <2>5, <2>6, <2>7, <2>8, <2>9, <2>10, <2>11 DEF Step
<1> QED
    BY <1>1, <1>2 DEF Next

\* Only transactions that have deleted or inserted rows are waited for at a row or a key.
LEMMA Waiting ==
    ASSUME Inv, NEW r \in Requests, NEW q \in Holders(r)
    PROVE  /\ q \in Requests /\ Open(q) /\ pc[r] \in {"user", "locks", "insert"}
           /\ pc[r] \in {"locks", "insert"} => q # r /\ pc[q] \in {"insert", "commit"}
<1>1. CASE pc[r] = "user"
    BY <1>1 DEF Holders, HoldersOfUser, InTx
<1>2. CASE pc[r] = "locks"
    BY <1>2 DEF Holders, HoldersOfRows, Open
<1>3. CASE pc[r] = "insert"
  <2>1. q \in HoldersOfKey(r)
      BY <1>3 DEF Holders
  <2>2. q \in Requests \ {r} /\ (added[q] # {} \/ pc[q] \in {"insert", "commit"})
      BY <2>1 DEF HoldersOfKey, HoldersOfRows
  <2>3. pc[q] \in {"insert", "commit"}
      BY <2>2 DEF Inv, Work
  <2> QED
      BY <1>3, <2>2, <2>3 DEF Open
<1> QED
    BY <1>1, <1>2, <1>3 DEF Holders

\* So one that waits for itself waits at a key that it inserts.
LEMMA DeadlockedInserts ==
    ASSUME Inv, NEW r \in Requests, Deadlocked(r)
    PROVE  pc[r] = "insert"
<1>1. Holders(r) # {}
    BY DEF Deadlocked
<1>2. pc[r] \in {"user", "locks", "insert"}
    BY <1>1, Waiting
<1>3. pc[r] # "user"
  <2> DEFINE s == {q \in Requests : Open(q)}
  <2>1. s \in SUBSET Requests /\ Holders(r) \subseteq s /\ \A q \in s : Holders(q) \subseteq s
      BY Waiting
  <2>2. r \in s
      BY <2>1 DEF Deadlocked
  <2> QED
      BY <2>2 DEF Open
<1>4. pc[r] # "locks"
  <2> SUFFICES ASSUME pc[r] = "locks" PROVE FALSE
      OBVIOUS
  <2> DEFINE s == {q \in Requests : pc[q] \in {"insert", "commit"}}
  <2>1. s \in SUBSET Requests /\ Holders(r) \subseteq s
      BY Waiting
  <2>2. ASSUME NEW q \in s PROVE Holders(q) \subseteq s
      BY Waiting
  <2>3. r \in s
      BY <2>1, <2>2 DEF Deadlocked
  <2> QED
      BY <2>3
<1> QED
    BY <1>2, <1>3, <1>4

\* A transaction that waits for itself does so over one that waits for itself as well.
LEMMA DeadlockedPartner ==
    ASSUME Inv, NEW r \in Requests, Deadlocked(r)
    PROVE  \E q \in Holders(r) : Deadlocked(q)
<1> DEFINE Closed(s) == \A q \in s : Holders(q) \subseteq s
           apart == {q \in Requests : \E s \in SUBSET Requests : q \in s /\ r \notin s /\ Closed(s)}
<1>1. Closed(apart)
    BY Waiting
<1>2. r \notin apart /\ apart \in SUBSET Requests
    OBVIOUS
<1>3. PICK q \in Holders(r) : q \notin apart
    BY <1>1, <1>2 DEF Deadlocked
<1>4. q \in Requests /\ q # r
    BY <1>3, Waiting, DeadlockedInserts
<1>5. ASSUME NEW s \in SUBSET Requests, Holders(q) \subseteq s, Closed(s)
      PROVE  q \in s
  <2>1. Closed(s \cup {q}) /\ s \cup {q} \in SUBSET Requests
      BY <1>4, <1>5
  <2>2. r \in s
      BY <1>3, <1>4, <2>1
  <2> QED
      BY <1>3, <1>5, <2>2
<1> QED
    BY <1>3, <1>5 DEF Deadlocked

\* What a transaction waits for at a key is about the rows that it replaces itself.
LEMMA SameOwner ==
    ASSUME Inv, FoundInv, NEW r \in Requests, NEW q \in Requests, pc[r] = "insert", pc[q] = "insert",
           q \in Holders(r)
    PROVE  Relation(q) = Relation(r) /\ Owner(q) = Owner(r)
<1>1. q \in HoldersOfKey(r)
    BY DEF Holders
<1>2. NextRow(r).in = Relation(r) /\ NextRow(r).owner = Owner(r)
    BY DEF NextRow
<1>3. CASE \E w \in added[q] : SameKey(w, NextRow(r))
  <2>1. PICK w \in added[q] : w.in = Relation(r) /\ w.owner = Owner(r)
      BY <1>2, <1>3 DEF SameKey
  <2>2. added[q] = {RowOf(q, i) : i \in 1..Cardinality(added[q])}
      BY DEF Inv, Work
  <2>3. \E i : w = RowOf(q, i)
      BY <2>1, <2>2
  <2> QED
      BY <2>1, <2>3 DEF RowOf
<1>4. CASE q \in HoldersOfRows(r, {w \in rows \ found[r] : SameKey(w, NextRow(r))})
  <2>1. PICK w \in found[q] : w.in = Relation(r) /\ w.owner = Owner(r)
      BY <1>2, <1>4 DEF HoldersOfRows, SameKey
  <2> QED
      BY <2>1 DEF FoundInv, FoundOwn
<1> QED
    BY <1>1, <1>3, <1>4 DEF HoldersOfKey

\* A request that waits for itself replaces the roles of a user or the permissions of a role, and
\* waits at one of its INSERTs for another that is caught as well and replaces the same rows,
\* without the lock of the user's row that would have kept them apart.
DeadlocksAmongReplacements ==
    \A r \in Requests : Deadlocked(r) =>
        \E q \in Holders(r) :
           /\ pc[r] = "insert" /\ Deadlocked(q)
           /\ Replaces(r, Relation(r), Owner(r)) /\ Replaces(q, Relation(r), Owner(r))
           /\ ~(Relation(r) = "user_roles" /\ SetsColumn(body[r]) /\ SetsColumn(body[q]))

LEMMA DeadlocksFound ==
    ASSUME Inv, FoundInv
    PROVE  DeadlocksAmongReplacements
<1> SUFFICES ASSUME NEW r \in Requests, Deadlocked(r)
             PROVE  \E q \in Holders(r) :
                       /\ pc[r] = "insert" /\ Deadlocked(q)
                       /\ Replaces(r, Relation(r), Owner(r)) /\ Replaces(q, Relation(r), Owner(r))
                       /\ ~(Relation(r) = "user_roles" /\ SetsColumn(body[r]) /\ SetsColumn(body[q]))
    BY DEF DeadlocksAmongReplacements
<1>1. PICK q \in Holders(r) : Deadlocked(q)
    BY DeadlockedPartner
<1>2. pc[r] = "insert" /\ pc[q] = "insert" /\ q \in Requests /\ q # r
    BY <1>1, DeadlockedInserts, Waiting
<1>3. Relation(q) = Relation(r) /\ Owner(q) = Owner(r)
    BY <1>1, <1>2, SameOwner
<1>4. /\ Replacing(r) /\ body[r].op \in {"create_user", "update_user", "update_permissions"}
      /\ Replacing(q) /\ body[q].op \in {"create_user", "update_user", "update_permissions"}
    BY <1>2 DEF Inv, OpAt
<1>5. /\ Open(r) /\ Open(q) /\ r \notin DOMAIN users /\ q \notin DOMAIN users
      /\ body[r].op = "update_user" => body[r].user \in DOMAIN users
      /\ body[q].op = "update_user" => body[q].user \in DOMAIN users
    BY <1>2 DEF Inv, Work, Made, Open
<1>6. body[r].op # "create_user" /\ body[q].op # "create_user"
    BY <1>2, <1>3, <1>4, <1>5 DEF Relation, Owner
<1>7. body[r].op = body[q].op
    BY <1>3, <1>4, <1>6 DEF Relation
<1>8. Replaces(r, Relation(r), Owner(r)) /\ Replaces(q, Relation(r), Owner(r))
  <2>1. CASE body[r].op = "update_user"
      BY <1>3, <1>4, <1>7, <2>1 DEF Replaces, Replacing, Relation, Owner
  <2>2. CASE body[r].op = "update_permissions"
      BY <1>3, <1>7, <2>2 DEF Replaces, Relation, Owner
  <2> QED
      BY <1>4, <1>6, <2>1, <2>2
<1>9. ~(Relation(r) = "user_roles" /\ SetsColumn(body[r]) /\ SetsColumn(body[q]))
  <2> SUFFICES ASSUME Relation(r) = "user_roles", SetsColumn(body[r]), SetsColumn(body[q]) PROVE FALSE
      OBVIOUS
  <2>1. body[r].op = "update_user" /\ body[q].op = "update_user" /\ body[q].user = body[r].user
      BY <1>3, <1>4, <1>6, <1>7 DEF Relation, Owner
  <2>2. Clash(q, r)
      BY <1>5, <2>1 DEF Clash
  <2> QED
      BY <1>2, <2>2 DEF Inv, UsersAreLocked
<1> QED
    BY <1>1, <1>2, <1>8, <1>9

\* Whatever users are created and changed, and whatever permissions replaced, at once, PostgreSQL only fails for a
\* deadlock what replaces rows that another replaces without a common lock: never the creation of
\* a user, and never replacements of a user's roles that change a column of the user too.
THEOREM OnlyReplacementsDeadlock == Spec => []DeadlocksAmongReplacements
<1>1. Init => Inv /\ FoundInv
    BY InitInv DEF Init, FoundInv, FoundOwn
<1>2. Inv /\ FoundInv /\ [Next]_vars => (Inv /\ FoundInv)'
    BY NextInv, FoundNext
<1>3. Inv /\ FoundInv => DeadlocksAmongReplacements
    BY DeadlocksFound
<1> QED
    BY <1>1, <1>2, <1>3, PTL DEF Spec
===============================================================================
