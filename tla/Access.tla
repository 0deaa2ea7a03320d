--------------------------------- MODULE Access ---------------------------------
(***************************************************************************)
(* Users, roles, permissions and API tokens as the gateway keeps them      *)
(* (core.users, user_roles, role_permissions, api_tokens), and the way in  *)
(* for every request: authentication, then the permission guard.           *)
(*                                                                         *)
(* Each SQL statement is one action.  A change of a user or of a role's    *)
(* permissions is a READ COMMITTED transaction that deletes the rows it    *)
(* finds and inserts new ones.  Until it commits, what it deletes is in    *)
(* found and what it inserts in added, and others that meet those rows     *)
(* wait for it.  A user and a token are named by the request that makes    *)
(* them.                                                                   *)
(*                                                                         *)
(* A row of user_roles or role_permissions has an owner (a user, a role),  *)
(* a key (a role and a scope; a resource, a verb and a scope), an effect   *)
(* and, as its identity, the request that wrote it.  Scopes are in upper   *)
(* case, emails in lower case, all trimmed; roles keep their case.         *)
(***************************************************************************)
EXTENDS Naturals, Sequences, FiniteSets

CONSTANTS
    Requests,        \* requests to the core routes
    Emails, Passwords,
    Codes,           \* texts for the codes of roles
    Lower,           \* strings.ToLower on them: [Codes -> Codes]
    Units,           \* codes of organisation units
    Existing,        \* those in core.org_units (module OrgUnits)
    Any,             \* "*"
    Keep,            \* a field left out of an update
    Nobody,          \* the writer of seeded rows; NULL in revoked_at
    Logins,          \* credentials that clients send: [email, password]
    Bodies,          \* what they ask for
    InitialUsers,    \* core.users, a function from ids to rows
    InitialRoles,    \* core.roles
    InitialRows,     \* core.user_roles and core.role_permissions
    InitialTokens,   \* core.api_tokens, a function from ids to rows
    UnitsOf          \* core.user_org_units: [DOMAIN InitialUsers -> SUBSET Units]

UserIds == Requests \cup DOMAIN InitialUsers
TokenIds == Requests \cup DOMAIN InitialTokens
Scopes == Units \cup {Any}
Grants == Codes \X Scopes
Things == {Any, "core.user", "core.role", "core.permission", "core.api_token", "crm.deal"}
Verbs == {Any, "read", "write"}
Flags == {"yes", "no"}
Effects == {"allow", "deny"}
Writers == Requests \cup {Nobody}

User == [email : Emails, active : Flags, password : Passwords]
Token == [role : Codes, scope : Scopes, revoked : Writers]
Entry == [key : Things \X Verbs \X Scopes, effect : Effects]
Row == [in : {"user_roles"}, owner : UserIds, key : Grants, effect : {"allow"}, by : Writers]
       \cup [in : {"role_permissions"}, owner : Codes, key : Things \X Verbs \X Scopes,
             effect : Effects, by : Writers]

CreateUserBody == [op : {"create_user"}, email : Emails, active : Flags, password : Passwords, keys : Seq(Grants)]
UpdateUserBody == [op : {"update_user"}, user : UserIds, name : {"keep", "given", "blank"},
                   active : {Keep} \cup Flags, password : {Keep} \cup Passwords, keys : {Keep} \cup Seq(Grants)]
CreateRoleBody == [op : {"create_role"}, role : Codes, described : BOOLEAN]
PermissionsBody == [op : {"update_permissions"}, role : Codes, entries : Seq(Entry)]
CreateTokenBody == [op : {"create_token"}, role : Codes, scope : Scopes]
RevokeTokenBody == [op : {"revoke_token"}, token : TokenIds]
Body == CreateUserBody \cup UpdateUserBody \cup CreateRoleBody \cup PermissionsBody
        \cup CreateTokenBody \cup RevokeTokenBody
NoBody == [op |-> "none"]
NoLogin == [email |-> Nobody, password |-> Nobody]

\* What a request knows of its sender.
Subject == [id : UserIds \cup {Nobody}, grants : SUBSET Grants, units : SUBSET Units]
Stranger == [id |-> Nobody, grants |-> {}, units |-> {}]

ASSUME LowerFolds == Lower \in [Codes -> Codes] /\ \A c \in Codes : Lower[Lower[c]] = Lower[c]
ASSUME BodiesAreBodies == Bodies \subseteq Body
ASSUME ExistingAreUnits == Existing \subseteq Units
ASSUME LoginsAreLogins == Logins \subseteq [email : Emails, password : Passwords]
ASSUME SeedsAreRows ==
    /\ InitialUsers \in [DOMAIN InitialUsers -> User]
    /\ InitialRoles \subseteq Codes
    /\ InitialRows \subseteq Row
    /\ InitialTokens \in [DOMAIN InitialTokens -> Token]
    /\ UnitsOf \in [DOMAIN InitialUsers -> SUBSET Units]
ASSUME NamesAreFresh ==
    /\ Requests \cap (DOMAIN InitialUsers \cup DOMAIN InitialTokens) = {}
    /\ Nobody \notin UserIds \cup TokenIds

VARIABLES
    users,      \* core.users
    roles,      \* core.roles
    rows,       \* core.user_roles and core.role_permissions, what is committed
    tokens,     \* core.api_tokens
    pc,         \* where a request stands
    login,      \* the credentials it brings
    body,       \* what it asks for
    subject,    \* what authentication read of its sender
    found,      \* rows its transaction deletes
    added,      \* rows its transaction inserts
    answer,     \* how it was answered
    audited,    \* requests with an entry in core.audit_log
    since       \* history: what was in force since the request came in

tables == <<users, roles, rows, tokens>>
sent == <<login, body>>
work == <<found, added>>
vars == <<tables, pc, sent, subject, work, answer, audited, since>>

Labels == {"idle", "login", "units", "guard", "user", "roles", "delete", "locks", "insert",
           "commit", "exists", "scopes", "role", "token", "revoke", "audit", "done"}
Answers == {"unauthorized", "inactive", "forbidden", "invalid", "unknown_role", "no_such_role",
            "conflict", "not_found", "failed", "ok"}
Nothing == [ever |-> {}, always |-> {}, valid |-> FALSE]

TypeOK ==
    /\ DOMAIN users \subseteq UserIds /\ users \in [DOMAIN users -> User]
    /\ roles \subseteq Codes
    /\ rows \subseteq Row
    /\ DOMAIN tokens \subseteq TokenIds /\ tokens \in [DOMAIN tokens -> Token]
    /\ pc \in [Requests -> Labels]
    /\ login \in [Requests -> Logins \cup {NoLogin}]
    /\ body \in [Requests -> Bodies \cup {NoBody}]
    /\ subject \in [Requests -> Subject]
    /\ found \in [Requests -> SUBSET Row]
    /\ added \in [Requests -> SUBSET Row]
    /\ answer \in [Requests -> Answers \cup {"none"}]
    /\ audited \subseteq Requests
    /\ since \in [Requests -> [ever : SUBSET Row, always : SUBSET Row, valid : BOOLEAN]]

Init ==
    /\ users = InitialUsers
    /\ roles = InitialRoles
    /\ rows = InitialRows
    /\ tokens = InitialTokens
    /\ pc = [r \in Requests |-> "idle"]
    /\ login = [r \in Requests |-> NoLogin]
    /\ body = [r \in Requests |-> NoBody]
    /\ subject = [r \in Requests |-> Stranger]
    /\ found = [r \in Requests |-> {}]
    /\ added = [r \in Requests |-> {}]
    /\ answer = [r \in Requests |-> "none"]
    /\ audited = {}
    /\ since = [r \in Requests |-> Nothing]
-------------------------------------------------------------------------------
(* The way in *)

Goto(r, label) == pc' = [pc EXCEPT ![r] = label]

\* The handler returns; a transaction that is open is rolled back.
Finish(r, how) ==
    /\ Goto(r, "done")
    /\ answer' = [answer EXCEPT ![r] = how]
    /\ found' = [found EXCEPT ![r] = {}]
    /\ added' = [added EXCEPT ![r] = {}]
    /\ since' = [since EXCEPT ![r] = Nothing]

Stay == UNCHANGED <<work, answer, since>>

\* The active user with these credentials: one or none.
Known(table, l) ==
    {u \in DOMAIN table : table[u].email = l.email /\ table[u].password = l.password
                          /\ table[u].active = "yes"}

\* basic-auth credentials and a body arrive.
Receive(r) ==
    /\ pc[r] = "idle"
    /\ \E l \in Logins, b \in Bodies :
          /\ login' = [login EXCEPT ![r] = l]
          /\ body' = [body EXCEPT ![r] = b]
          /\ since' = [since EXCEPT ![r] =
                 [ever |-> rows, always |-> rows, valid |-> Known(users, l) # {}]]
    /\ Goto(r, "login")
    /\ UNCHANGED <<tables, subject, work, answer, audited>>

\* (mutant) users are remembered as they were when the gateway started.
RolesAtStart(r) ==
    /\ pc[r] = "login"
    /\ \/ Known(InitialUsers, login[r]) = {} /\ Finish(r, "unauthorized") /\ UNCHANGED subject
       \/ \E u \in Known(InitialUsers, login[r]) :
             /\ subject' = [subject EXCEPT ![r].id = u, ![r].grants =
                    {g.key : g \in {w \in InitialRows : w.in = "user_roles" /\ w.owner = u}}]
             /\ Goto(r, "units")
             /\ Stay
    /\ UNCHANGED <<tables, sent, audited>>

\* 403 or 401: the state is looked at before the password.
Refusal(r) ==
    IF \E u \in DOMAIN users : users[u].email = login[r].email /\ users[u].active = "no"
    THEN "inactive" ELSE "unauthorized"

\* One SELECT of the user with its roles.
Authenticate(r) ==
    /\ pc[r] = "login"
    /\ \/ /\ Known(users, login[r]) = {}
          /\ Finish(r, Refusal(r))
          /\ UNCHANGED subject
       \/ \E u \in Known(users, login[r]) :
             /\ subject' = [subject EXCEPT ![r].id = u, ![r].grants =
                    {g.key : g \in {w \in rows : w.in = "user_roles" /\ w.owner = u}}]
             /\ Goto(r, "units")
             /\ Stay
    /\ UNCHANGED <<tables, sent, audited>>

fetchUserOrgUnits(r) ==
    /\ pc[r] = "units"
    /\ subject' = [subject EXCEPT ![r].units =
           IF subject[r].id \in DOMAIN UnitsOf THEN UnitsOf[subject[r].id] ELSE {}]
    /\ Goto(r, "guard")
    /\ Stay
    /\ UNCHANGED <<tables, sent, audited>>

\* What the routes ask for.
Need ==
    [create_user |-> <<"core.user", "write">>, update_user |-> <<"core.user", "write">>,
     create_role |-> <<"core.role", "write">>, update_permissions |-> <<"core.permission", "write">>,
     create_token |-> <<"core.api_token", "write">>, revoke_token |-> <<"core.api_token", "write">>]

\* (mutant) a permission for every scope needs a grant for every scope.
ScopesMustMatch(table, codes, scopes, need) ==
    \E p \in table :
        /\ p.in = "role_permissions" /\ p.owner \in codes /\ p.effect = "allow"
        /\ p.key[1] \in {need[1], Any} /\ p.key[2] \in {need[2], Any} /\ p.key[3] \in scopes

\* Some role of the sender, some scope of the sender: which grant has which is not asked.
HasPermission(table, codes, scopes, need) ==
    \E p \in table :
        /\ p.in = "role_permissions" /\ p.owner \in codes /\ p.effect = "allow"
        /\ p.key[1] \in {need[1], Any}
        /\ p.key[2] \in {need[2], Any}
        /\ p.key[3] \in scopes \cup {Any}

\* Roles are compared in lower case, whatever case they were created in.
RoleCodes(s) == {Lower[g[1]] : g \in s.grants}
ScopesOf(s) == {g[2] : g \in s.grants} \cup s.units

\* The first statement of each operation.
FirstOf ==
    [create_user |-> "user", update_user |-> "user", create_role |-> "role",
     update_permissions |-> "exists", create_token |-> "exists", revoke_token |-> "revoke"]

CheckPermission(r) ==
    HasPermission(rows, RoleCodes(subject[r]), ScopesOf(subject[r]), Need[body[r].op])

permissionGuard(r) ==
    /\ pc[r] = "guard"
    /\ \/ ~CheckPermission(r) /\ Finish(r, "forbidden")
       \/ /\ CheckPermission(r)
          /\ Goto(r, FirstOf[body[r].op])
          /\ since' = [since EXCEPT ![r] = Nothing]
          /\ UNCHANGED <<work, answer>>
    /\ UNCHANGED <<tables, sent, subject, audited>>
-------------------------------------------------------------------------------
(* Transactions *)

Open(q) == pc[q] \in {"roles", "delete", "locks", "insert", "commit"}
InTx(op) == {q \in Requests : Open(q) /\ body[q].op = op}

\* The fields of an update that are columns of core.users.
SetsColumn(b) == b.name = "given" \/ b.active # Keep \/ b.password # Keep

\* (mutant) updates of a user's columns do not wait for each other.
NoRowLock(r) ==
    IF body[r].op = "create_user"
    THEN {q \in InTx("create_user") \ {r} : body[q].email = body[r].email}
    ELSE {}

\* Whom the first statement of a change of users waits for: an uncommitted user with the
\* same email, or the lock of the user's row.
HoldersOfUser(r) ==
    IF body[r].op = "create_user"
    THEN {q \in InTx("create_user") \ {r} : body[q].email = body[r].email}
    ELSE IF SetsColumn(body[r])
         THEN {q \in InTx("update_user") \ {r} : body[q].user = body[r].user /\ SetsColumn(body[q])}
         ELSE {}

\* (mutant) the row is stored by a statement of its own, before the transaction.
InsertUserFirst(r) ==
    /\ pc[r] = "user" /\ body[r].op = "create_user" /\ body[r].keys # <<>>
    /\ \A u \in DOMAIN users : users[u].email # body[r].email
    /\ users' = [u \in DOMAIN users \cup {r} |-> IF u # r THEN users[u]
           ELSE [email |-> body[r].email, active |-> body[r].active, password |-> body[r].password]]
    /\ Goto(r, "roles")
    /\ Stay
    /\ UNCHANGED <<roles, rows, tokens, sent, subject, audited>>

\* A user has a role at least.
AcceptsUser(b) == b.keys # <<>>

\* INSERT, if no user has the email.
InsertUser(r) ==
    /\ pc[r] = "user" /\ body[r].op = "create_user"
    /\ \/ ~AcceptsUser(body[r]) /\ Finish(r, "invalid")
       \/ /\ AcceptsUser(body[r]) /\ HoldersOfUser(r) = {}
          /\ IF \E u \in DOMAIN users : users[u].email = body[r].email
             THEN Finish(r, "conflict")
             ELSE Goto(r, "roles") /\ Stay
    /\ UNCHANGED <<tables, sent, subject, audited>>

\* A name that is given has a text.
AcceptsEdit(b) == b.name # "blank"

\* UPDATE of the columns given, which locks the row, or else a SELECT, which does not.
UpdateUserRow(r) ==
    /\ pc[r] = "user" /\ body[r].op = "update_user"
    /\ \/ ~AcceptsEdit(body[r]) /\ Finish(r, "failed")
       \/ /\ AcceptsEdit(body[r]) /\ HoldersOfUser(r) = {} /\ body[r].user \notin DOMAIN users
          /\ Finish(r, "not_found")
       \/ /\ AcceptsEdit(body[r]) /\ HoldersOfUser(r) = {} /\ body[r].user \in DOMAIN users
          /\ Goto(r, IF body[r].keys = Keep THEN "commit"
                     ELSE IF body[r].keys = <<>> THEN "delete" ELSE "roles")
          /\ Stay
    /\ UNCHANGED <<tables, sent, subject, audited>>

\* The codes must exist; a code that does not is answered as an unknown organisation unit.
ValidateRoles(r) ==
    /\ pc[r] = "roles"
    /\ \/ \E k \in DOMAIN body[r].keys : body[r].keys[k][1] \notin roles /\ Finish(r, "not_found")
       \/ /\ \A k \in DOMAIN body[r].keys : body[r].keys[k][1] \in roles
          /\ Goto(r, "delete") /\ Stay
    /\ UNCHANGED <<tables, sent, subject, audited>>

\* The relation a replacement is about, its owner there, and the entries it puts.
Relation(r) == IF body[r].op = "update_permissions" THEN "role_permissions" ELSE "user_roles"
Owner(r) ==
    CASE body[r].op = "create_user" -> r
      [] body[r].op = "update_user" -> body[r].user
      [] OTHER -> body[r].role
Entries(r) ==
    IF body[r].op = "update_permissions" THEN body[r].entries
    ELSE [i \in DOMAIN body[r].keys |-> [key |-> body[r].keys[i], effect |-> "allow"]]

OwnRows(table, r) == {w \in table : w.in = Relation(r) /\ w.owner = Owner(r)}

\* DELETE begins: the rows it will delete are those committed by now.
BeginDelete(r) ==
    /\ pc[r] = "delete"
    /\ found' = [found EXCEPT ![r] = OwnRows(rows, r)]
    /\ Goto(r, "locks")
    /\ UNCHANGED <<tables, sent, subject, added, answer, audited, since>>

\* Transactions that have deleted a row this one is about to delete.
HoldersOfRows(r, set) == {q \in Requests \ {r} : pc[q] \in {"insert", "commit"} /\ found[q] \cap set # {}}

\* It waits for the locks of its rows; a row that is gone by then is passed over.
Delete(r) ==
    /\ pc[r] = "locks"
    /\ HoldersOfRows(r, found[r]) = {}
    /\ found' = [found EXCEPT ![r] = @ \cap rows]
    /\ Goto(r, IF Entries(r) = <<>> THEN "commit" ELSE "insert")
    /\ UNCHANGED <<tables, sent, subject, added, answer, audited, since>>

\* The INSERTs follow the order of the body.
NextRow(r) ==
    LET e == Entries(r)[Cardinality(added[r]) + 1]
    IN  [in |-> Relation(r), owner |-> Owner(r), key |-> e.key, effect |-> e.effect, by |-> r]

SameKey(w, v) == w.in = v.in /\ w.owner = v.owner /\ w.key = v.key

\* Transactions with an uncommitted row of this primary key, or that delete one.
HoldersOfKey(r) ==
    {q \in Requests \ {r} : \E w \in added[q] : SameKey(w, NextRow(r))}
    \cup HoldersOfRows(r, {w \in rows \ found[r] : SameKey(w, NextRow(r))})

\* (mutant) a duplicate key is tried again.
RetryDuplicate(r) ==
    /\ pc[r] = "insert"
    /\ HoldersOfKey(r) = {}
    /\ \A w \in (rows \ found[r]) \cup added[r] : ~SameKey(w, NextRow(r))
    /\ added' = [added EXCEPT ![r] = @ \cup {NextRow(r)}]
    /\ Goto(r, IF Cardinality(added[r]) + 1 = Len(Entries(r)) THEN "commit" ELSE "insert")
    /\ UNCHANGED <<tables, sent, subject, found, answer, since, audited>>

InsertRow(r) ==
    /\ pc[r] = "insert"
    /\ HoldersOfKey(r) = {}
    /\ \/ /\ \E w \in (rows \ found[r]) \cup added[r] : SameKey(w, NextRow(r))
          /\ Finish(r, "failed")
       \/ /\ \A w \in (rows \ found[r]) \cup added[r] : ~SameKey(w, NextRow(r))
          /\ added' = [added EXCEPT ![r] = @ \cup {NextRow(r)}]
          /\ Goto(r, IF Cardinality(added[r]) + 1 = Len(Entries(r)) THEN "commit" ELSE "insert")
          /\ UNCHANGED <<found, answer, since>>
    /\ UNCHANGED <<tables, sent, subject, audited>>

\* (mutant) a field left out is stored as such.
AsGiven(new, old) == new

Given(new, old) == IF new = Keep THEN old ELSE new

\* The table of users once the transaction has committed.
UsersAfter(r) ==
    LET b == body[r]
    IN  CASE b.op = "create_user" ->
               [u \in DOMAIN users \cup {r} |-> IF u # r THEN users[u]
                   ELSE [email |-> b.email, active |-> b.active, password |-> b.password]]
          [] b.op = "update_user" ->
               [users EXCEPT ![b.user].active = Given(b.active, @),
                             ![b.user].password = Given(b.password, @)]
          [] OTHER -> users

\* A request on its way in remembers what was in force, for the properties.
Remember ==
    since' = [q \in Requests |->
        IF pc[q] \in {"login", "units", "guard"}
        THEN [ever |-> since[q].ever \cup rows', always |-> since[q].always \cap rows',
              valid |-> since[q].valid \/ Known(users', login[q]) # {}]
        ELSE since[q]]

Commit(r) ==
    /\ pc[r] = "commit"
    /\ users' = UsersAfter(r)
    /\ rows' = (rows \ found[r]) \cup added[r]
    /\ Remember
    /\ found' = [found EXCEPT ![r] = {}]
    /\ added' = [added EXCEPT ![r] = {}]
    /\ Goto(r, "audit")
    /\ UNCHANGED <<roles, tokens, sent, subject, answer, audited>>
-------------------------------------------------------------------------------
(* Roles, permissions, tokens *)

RoleExists(r) ==
    /\ pc[r] = "exists"
    /\ \/ body[r].role \notin roles /\ Finish(r, "unknown_role")
       \/ body[r].role \in roles /\ Goto(r, "scopes") /\ Stay
    /\ UNCHANGED <<tables, sent, subject, audited>>

ScopesAsked(b) ==
    IF b.op = "create_token" THEN {b.scope} ELSE {b.entries[i].key[3] : i \in DOMAIN b.entries}

\* A scope must be a unit or "*"; nothing keeps the unit afterwards.
normalizeScope(r) ==
    /\ pc[r] = "scopes"
    /\ \/ ~(ScopesAsked(body[r]) \subseteq Existing \cup {Any}) /\ Finish(r, "failed")
       \/ /\ ScopesAsked(body[r]) \subseteq Existing \cup {Any}
          /\ Goto(r, IF body[r].op = "create_token" THEN "token" ELSE "delete")
          /\ Stay
    /\ UNCHANGED <<tables, sent, subject, audited>>

\* A code and a description, or none of it.
AcceptsRole(b) == b.described

CreateRole(r) ==
    /\ pc[r] = "role"
    /\ \/ ~AcceptsRole(body[r]) /\ Finish(r, "failed") /\ UNCHANGED roles
       \/ AcceptsRole(body[r]) /\ body[r].role \in roles /\ Finish(r, "conflict") /\ UNCHANGED roles
       \/ /\ AcceptsRole(body[r]) /\ body[r].role \notin roles
          /\ roles' = roles \cup {body[r].role}
          /\ Goto(r, "audit") /\ Stay
    /\ UNCHANGED <<users, rows, tokens, sent, subject, audited>>

NewToken(r) == [role |-> body[r].role, scope |-> body[r].scope, revoked |-> Nobody]

\* Nothing makes names of tokens differ.
CreateAPIToken(r) ==
    /\ pc[r] = "token"
    /\ tokens' = [t \in DOMAIN tokens \cup {r} |-> IF t = r THEN NewToken(r) ELSE tokens[t]]
    /\ Goto(r, "audit") /\ Stay
    /\ UNCHANGED <<users, roles, rows, sent, subject, audited>>

\* (mutant) the UPDATE does not ask for revoked_at IS NULL.
RevokeAgain(r) ==
    /\ pc[r] = "revoke"
    /\ \/ body[r].token \notin DOMAIN tokens /\ Finish(r, "not_found") /\ UNCHANGED tokens
       \/ /\ body[r].token \in DOMAIN tokens
          /\ tokens' = [tokens EXCEPT ![body[r].token].revoked = r]
          /\ Goto(r, "audit") /\ Stay
    /\ UNCHANGED <<users, roles, rows, sent, subject, audited>>

Valid(t) == t \in DOMAIN tokens /\ tokens[t].revoked = Nobody

RevokeAPIToken(r) ==
    /\ pc[r] = "revoke"
    /\ \/ ~Valid(body[r].token) /\ Finish(r, "not_found") /\ UNCHANGED tokens
       \/ /\ Valid(body[r].token)
          /\ tokens' = [tokens EXCEPT ![body[r].token].revoked = r]
          /\ Goto(r, "audit") /\ Stay
    /\ UNCHANGED <<users, roles, rows, sent, subject, audited>>

\* What is stored is read again for the answer; the audit entry may fail unnoticed.
RecordAudit(r) ==
    /\ pc[r] = "audit"
    /\ audited' \in {audited, audited \cup {r}}
    /\ Finish(r, "ok")
    /\ UNCHANGED <<tables, sent, subject>>

\* The program stops or loses the database; what was committed stays.
Fail(r) ==
    /\ pc[r] \notin {"idle", "done"}
    /\ Finish(r, "failed")
    /\ UNCHANGED <<tables, sent, subject, audited>>

Holders(r) ==
    CASE pc[r] = "user" -> HoldersOfUser(r)
      [] pc[r] = "locks" -> HoldersOfRows(r, found[r])
      [] pc[r] = "insert" -> HoldersOfKey(r)
      [] OTHER -> {}

\* It waits, over others, for itself: it is in every set that holds whom it waits for and, with
\* each of its members, whom that one waits for.
Deadlocked(r) ==
    \A s \in SUBSET Requests :
        Holders(r) \subseteq s /\ (\A q \in s : Holders(q) \subseteq s) => r \in s

\* PostgreSQL fails a transaction that waits for itself.
DeadlockVictim(r) ==
    /\ Deadlocked(r)
    /\ Finish(r, "failed")
    /\ UNCHANGED <<tables, sent, subject, audited>>

Step(r) ==
    \/ Authenticate(r) \/ fetchUserOrgUnits(r) \/ permissionGuard(r)
    \/ InsertUser(r) \/ UpdateUserRow(r) \/ ValidateRoles(r)
    \/ BeginDelete(r) \/ Delete(r) \/ InsertRow(r) \/ Commit(r)
    \/ RoleExists(r) \/ normalizeScope(r) \/ CreateRole(r)
    \/ CreateAPIToken(r) \/ RevokeAPIToken(r)
    \/ RecordAudit(r) \/ DeadlockVictim(r)

Next == \E r \in Requests : Receive(r) \/ Step(r) \/ Fail(r)

Spec == Init /\ [][Next]_vars

\* A handler runs on, and PostgreSQL breaks deadlocks.
FairSpec == Spec /\ \A r \in Requests : WF_vars(Step(r))
-------------------------------------------------------------------------------
KeysIn(table, relation, owner) == {w.key : w \in {v \in table : v.in = relation /\ v.owner = owner}}

\* A user is never in the table without the roles it was created with, whatever else runs,
\* fails or is rolled back beside the creation (CreateUser's transaction).
CreatedWhole ==
    [][\A r \in DOMAIN users' \ DOMAIN users :
          KeysIn(rows', "user_roles", r) = {body[r].keys[k] : k \in DOMAIN body[r].keys}]_vars

Replaces(r, relation, owner) ==
    \/ /\ body[r].op = "update_user" /\ relation = "user_roles"
       /\ body[r].user = owner /\ body[r].keys # Keep
    \/ /\ body[r].op = "update_permissions" /\ relation = "role_permissions"
       /\ body[r].role = owner

\* Of replacements of one user's roles that all change a column of the user too, each leaves
\* exactly the roles it asked for, in whatever order their statements run: no union of two, no
\* row of a former one.  (Replacements that change roles only, and those of a role's permissions,
\* hold no common lock and may leave a union; a single one leaves what it asked for.)
ReplacesWhole ==
    [][\A r \in Requests, relation \in {"user_roles", "role_permissions"}, owner \in UserIds \cup Codes :
          /\ Replaces(r, relation, owner)
          /\ pc[r] = "commit" /\ pc'[r] = "audit"
          /\ \A q \in Requests : q # r /\ Replaces(q, relation, owner) =>
                /\ relation = "user_roles"
                /\ SetsColumn(body[q]) /\ SetsColumn(body[r])
          => KeysIn(rows', relation, owner) = {Entries(r)[i].key : i \in DOMAIN Entries(r)}]_vars

\* What of a set of rows is about a user.
GrantsOf(set, u) == KeysIn(set, "user_roles", u)

Enters(r) == pc[r] = "guard" /\ pc'[r] # "guard" /\ answer'[r] # "failed"

\* A request gets past the guard only on credentials that were valid, roles that its sender
\* held and a permission that was in force at some time since it came in: what was taken away
\* before is taken away, though the three are read at different times.
AdmittedOnRights ==
    [][\A r \in Requests :
          Enters(r) /\ answer'[r] = "none" =>
             /\ since[r].valid
             /\ LET g == GrantsOf(since[r].ever, subject[r].id)
                IN  \E p \in since[r].ever, k \in g :
                       /\ p.in = "role_permissions" /\ p.effect = "allow" /\ p.owner = Lower[k[1]]
                       /\ p.key[1] \in {Need[body[r].op][1], Any} /\ p.key[2] \in {Need[body[r].op][2], Any}
                       /\ p.key[3] = Any \/ p.key[3] \in subject[r].units \/ \E l \in g : p.key[3] = l[2]]_vars

\* A request is not refused while its sender holds, from its arrival on, a role written in
\* lower case and that role has a permission that covers it.  (A role with capitals is looked
\* for in lower case and grants nothing.)
RefusedOnlyWithoutRight ==
    [][\A r \in Requests :
          Enters(r) /\ answer'[r] = "forbidden" =>
             \A p \in since[r].always, k \in GrantsOf(since[r].always, subject[r].id) :
                ~ /\ p.in = "role_permissions" /\ p.effect = "allow"
                  /\ p.owner = k[1] /\ Lower[k[1]] = k[1]
                  /\ p.key[1] \in {Need[body[r].op][1], Any} /\ p.key[2] \in {Need[body[r].op][2], Any}
                  /\ p.key[3] \in {Any, k[2]}]_vars

\* A token is revoked once, by one request, and never works again: a second revocation is
\* answered "not found" and does not move the time of the first.
RevokedOnce ==
    [][\A t \in DOMAIN tokens : tokens[t].revoked # Nobody =>
          t \in DOMAIN tokens' /\ tokens'[t].revoked = tokens[t].revoked]_vars

\* Every request is answered, though transactions wait for rows and keys of each other.
EveryRequestAnswered == \A r \in Requests : pc[r] = "login" ~> pc[r] = "done"
===============================================================================
