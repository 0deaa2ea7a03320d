------------------------------- MODULE Documents -------------------------------
(***************************************************************************)
(* Issuing and updating documents (modules/docs and its copy inside the    *)
(* gateway).  Both programs serve the same API over the same PostgreSQL    *)
(* schema, so a request of one meets the requests of the other only in the *)
(* database: a request is one handler invocation, its transaction one or   *)
(* more of the steps below, and its uncommitted writes stay in docW/signW  *)
(* until Commit.                                                           *)
(*                                                                         *)
(* The database is PostgreSQL under READ COMMITTED.  A statement that      *)
(* meets a row or a unique key written by an open transaction waits for    *)
(* that transaction (its action is not enabled); NOW() is the time at      *)
(* which the transaction BEGAN.                                            *)
(***************************************************************************)
EXTENDS Naturals, Sequences, FiniteSets

CONSTANTS
    Requests,          \* handler invocations; a create names its document after itself
    Site,              \* [Requests -> Sites], the program that serves a request
    MaxConns,          \* [Sites -> Nat], the size of a program's connection pool
    NumberSequences,   \* rows of docs.number_sequence
    Prefix,            \* [NumberSequences -> STRING], their prefix column
    FirstFree,         \* [NumberSequences -> Nat], their current_value at the start
    Templates,         \* rows of docs.template
    Signers,           \* rows of docs.signer
    CreateInputs,      \* bodies of POST /documents that clients send
    UpdateInputs,      \* bodies of PUT /documents/:id that clients send
    NoDoc              \* no row

Sites == {"docs", "gateway"}
Statuses == {"draft", "issued", "signed", "archived"}
SignerStatuses == {"pending", "signed", "declined"}

\* A row of docs.document; a timestamp is 0 for NULL.  Title and payload are left out.
DocRow == [seq : NumberSequences, value : Nat, status : Statuses,
           issued : Nat, signed : Nat, archived : Nat]

\* A row of docs.document_signer, "none" where there is no such row.
SignerRow == [status : SignerStatuses \cup {"none"}, at : Nat]
NoSigner == [status |-> "none", at |-> 0]
NoSigners == [g \in Signers |-> NoSigner]

NoInput == [op |-> "none"]

ASSUME RequestsServed ==
    /\ Site \in [Requests -> Sites]
    /\ MaxConns \in [Sites -> Nat \ {0}]

ASSUME SequencesSeeded ==
    /\ FirstFree \in [NumberSequences -> Nat]
    /\ DOMAIN Prefix = NumberSequences

ASSUME NoDocIsNoRow == NoDoc \notin DocRow

ASSUME InputsAreInputs ==
    /\ \A i \in CreateInputs : i.op = "create"
    /\ \A i \in UpdateInputs : i.op = "update" /\ i.doc \in Requests

\* An update's signer statuses are a JSON list.
ASSUME MarksAreLists ==
    \A i \in UpdateInputs :
        Len(i.marks) \in Nat /\ DOMAIN i.marks = 1 .. Len(i.marks)

VARIABLES
    seqRow,    \* committed current_value of each sequence
    docRow,    \* committed documents: [Requests -> DocRow \cup {NoDoc}]
    signRow,   \* committed signers of each document: [Requests -> [Signers -> SignerRow]]
    clock,     \* number of transactions begun, the time NOW() is read from
    pc,        \* where a request's handler stands
    input,     \* its body
    start,     \* the time its transaction began
    num,       \* the sequence value it took, 0 before nextNumber
    docW,      \* its uncommitted document row
    signW,     \* its uncommitted signer rows
    mark,      \* the next of its signer statuses to write
    seen,      \* the signers its response shows
    answer     \* how it was answered

tables == <<seqRow, docRow, signRow>>
txVars == <<start, num, docW, signW, mark>>
vars == <<tables, clock, pc, input, txVars, seen, answer>>

-------------------------------------------------------------------------------
(* What a request is and holds. *)

Creates(r) == input[r].op = "create"
Target(r) == IF Creates(r) THEN r ELSE input[r].doc

InTx(r) == pc[r] \in {"number", "insert", "signers", "fields", "marks", "read", "commit"}

\* A pool hands out a connection only while fewer than MaxConns are out.
FreeConn(site) ==
    Cardinality({r \in Requests : Site[r] = site /\ InTx(r)}) < MaxConns[site]

\* The row locks: FOR UPDATE on a sequence, UPDATE on a document or on one of its signers.
HoldsSequence(r, s) == num[r] # 0 /\ input[r].seq = s
HoldsDocument(r, d) == ~Creates(r) /\ docW[r] # NoDoc /\ input[r].doc = d
HoldsSigner(r, d, g) ==
    ~Creates(r) /\ g \in Signers /\ signW[r][g] # NoSigner /\ input[r].doc = d

\* The formatted number: prefix, then the value padded with zeros (nextNumber).  With one
\* padding for all sequences, and values within it, the two parts determine the string.
Number(row) == <<Prefix[row.seq], row.value>>

\* The signer rows a transaction sees: its own writes over the committed ones.
Overlay(rows, writes) ==
    [g \in Signers |-> IF writes[g] = NoSigner THEN rows[g] ELSE writes[g]]

SignerStatusOf(rows) == [g \in Signers |-> rows[g].status]

-------------------------------------------------------------------------------
Init ==
    /\ seqRow = FirstFree
    /\ docRow = [d \in Requests |-> NoDoc]
    /\ signRow = [d \in Requests |-> NoSigners]
    /\ clock = 0
    /\ pc = [r \in Requests |-> "idle"]
    /\ input = [r \in Requests |-> NoInput]
    /\ start = [r \in Requests |-> 0]
    /\ num = [r \in Requests |-> 0]
    /\ docW = [r \in Requests |-> NoDoc]
    /\ signW = [r \in Requests |-> NoSigners]
    /\ mark = [r \in Requests |-> 1]
    /\ seen = [r \in Requests |-> SignerStatusOf(NoSigners)]
    /\ answer = [r \in Requests |-> "none"]

\* The transaction is over: its locks and its writes are gone, the handler answers.
Finish(r, reply) ==
    /\ pc' = [pc EXCEPT ![r] = "done"]
    /\ answer' = [answer EXCEPT ![r] = reply]
    /\ start' = [start EXCEPT ![r] = 0]
    /\ num' = [num EXCEPT ![r] = 0]
    /\ docW' = [docW EXCEPT ![r] = NoDoc]
    /\ signW' = [signW EXCEPT ![r] = NoSigners]
    /\ mark' = [mark EXCEPT ![r] = 1]
    /\ UNCHANGED input

\* (mutant) no deferred Rollback: the locks and writes of the failed handler stay.
RollbackForgotten(r, reply) ==
    /\ pc' = [pc EXCEPT ![r] = "done"]
    /\ answer' = [answer EXCEPT ![r] = reply]
    /\ UNCHANGED <<tables, clock, input, txVars, seen>>

Rollback(r, reply) ==
    /\ Finish(r, reply)
    /\ UNCHANGED <<tables, clock, seen>>

-------------------------------------------------------------------------------
(* The service's validation, and the beginning of the transaction. *)

\* An empty status means issued.
InitialStatus(i) == IF i.status = "" THEN "issued" ELSE i.status

\* (mutant) allowedDocStatuses is not consulted.
AnyStatusAccepted(i) == TRUE

ValidCreate(i) == InitialStatus(i) \in Statuses

ValidUpdate(i) ==
    /\ i.status \in Statuses \cup {"keep"}
    /\ \A k \in DOMAIN i.marks : i.marks[k].status \in SignerStatuses

\* A body arrives and is validated; nothing is read or written when it is refused.  An
\* update names a document a client has seen, or (its own name) one that never existed.
Receive(r, i) ==
    /\ pc[r] = "idle"
    /\ i.op = "update" => docRow[i.doc] # NoDoc \/ i.doc = r
    /\ input' = [input EXCEPT ![r] = i]
    /\ IF (i.op = "create" /\ ValidCreate(i)) \/ (i.op = "update" /\ ValidUpdate(i))
       THEN pc' = [pc EXCEPT ![r] = "begin"] /\ UNCHANGED answer
       ELSE pc' = [pc EXCEPT ![r] = "done"]
            /\ answer' = [answer EXCEPT ![r] = "refused"]
    /\ UNCHANGED <<tables, clock, txVars, seen>>

\* pool.BeginTx waits for a free connection; the request's context has no deadline.
BeginTx(r) ==
    /\ pc[r] = "begin"
    /\ FreeConn(Site[r])
    /\ pc' = [pc EXCEPT ![r] = IF Creates(r) THEN "number" ELSE "fields"]
    /\ clock' = clock + 1
    /\ start' = [start EXCEPT ![r] = clock + 1]
    /\ UNCHANGED <<tables, input, num, docW, signW, mark, seen, answer>>

-------------------------------------------------------------------------------
(* CreateDocument. *)

\* (mutant) the increment runs on the pool and commits by itself.
NextNumberOutsideTx(r) ==
    /\ pc[r] = "number"
    /\ IF input[r].seq \notin NumberSequences
       THEN Rollback(r, "failed")
       ELSE /\ \A q \in Requests : ~HoldsSequence(q, input[r].seq)
            /\ num' = [num EXCEPT ![r] = seqRow[input[r].seq] + 1]
            /\ seqRow' = [seqRow EXCEPT ![input[r].seq] = @ + 1]
            /\ pc' = [pc EXCEPT ![r] = "insert"]
            /\ UNCHANGED <<docRow, signRow, clock, input, start, docW, signW, mark, seen,
                           answer>>

\* (mutant) a plain SELECT, without FOR UPDATE.
NextNumberUnlocked(r) ==
    /\ pc[r] = "number"
    /\ IF input[r].seq \notin NumberSequences
       THEN Rollback(r, "failed")
       ELSE /\ num' = [num EXCEPT ![r] = seqRow[input[r].seq] + 1]
            /\ pc' = [pc EXCEPT ![r] = "insert"]
            /\ UNCHANGED <<tables, clock, input, start, docW, signW, mark, seen, answer>>

\* SELECT ... FOR UPDATE, then the increment, which commits or rolls back with the document.
NextNumber(r) ==
    /\ pc[r] = "number"
    /\ IF input[r].seq \notin NumberSequences
       THEN Rollback(r, "failed")
       ELSE /\ \A q \in Requests : ~HoldsSequence(q, input[r].seq)
            /\ num' = [num EXCEPT ![r] = seqRow[input[r].seq] + 1]
            /\ pc' = [pc EXCEPT ![r] = "insert"]
            /\ UNCHANGED <<tables, clock, input, start, docW, signW, mark, seen, answer>>

\* issued_at is set whatever the status; signed_at and archived_at stay NULL.
NewDocument(r) ==
    [seq |-> input[r].seq, value |-> num[r], status |-> InitialStatus(input[r]),
     issued |-> start[r], signed |-> 0, archived |-> 0]

\* UNIQUE (number): an equal number of an open transaction makes the insert wait.
InsertDocument(r) ==
    /\ pc[r] = "insert"
    /\ \A q \in Requests : (Creates(q) /\ docW[q] # NoDoc) =>
                               Number(docW[q]) # Number(NewDocument(r))
    /\ IF \E d \in Requests : docRow[d] # NoDoc /\ Number(docRow[d]) = Number(NewDocument(r))
       THEN Rollback(r, "duplicate")
       ELSE IF input[r].template \notin Templates
       THEN Rollback(r, "failed")
       ELSE /\ docW' = [docW EXCEPT ![r] = NewDocument(r)]
            /\ pc' = [pc EXCEPT ![r] = "signers"]
            /\ UNCHANGED <<tables, clock, input, start, num, signW, mark, seen, answer>>

\* Rows that break the foreign key or UNIQUE (document_id, signer_id) fail the transaction.
InsertDocumentSigners(r) ==
    LET list == input[r].signers IN
    /\ pc[r] = "signers"
    /\ IF \/ \E k \in DOMAIN list : list[k] \notin Signers
          \/ \E k, l \in DOMAIN list : k # l /\ list[k] = list[l]
       THEN Rollback(r, "failed")
       ELSE /\ signW' = [signW EXCEPT ![r] =
                  [g \in Signers |-> IF \E k \in DOMAIN list : list[k] = g
                                     THEN [status |-> "pending", at |-> 0]
                                     ELSE NoSigner]]
            /\ seen' = [seen EXCEPT ![r] = SignerStatusOf(signW'[r])]
            /\ pc' = [pc EXCEPT ![r] = "commit"]
            /\ UNCHANGED <<tables, clock, input, start, num, docW, mark, answer>>

-------------------------------------------------------------------------------
(* UpdateDocument. *)

\* The SET clause a new status brings with it.
Stamped(row, status, now) ==
    CASE status = "issued"   -> [row EXCEPT !.status = status, !.signed = 0, !.archived = 0,
                                            !.issued = IF @ = 0 THEN now ELSE @]
      [] status = "signed"   -> [row EXCEPT !.status = status, !.signed = now, !.archived = 0]
      [] status = "archived" -> [row EXCEPT !.status = status, !.archived = now]
      [] status = "draft"    -> [row EXCEPT !.status = status, !.issued = 0, !.signed = 0,
                                            !.archived = 0]
      [] OTHER               -> row

\* (mutant) the row is read, and written back at the commit, without its lock.
UpdateFieldsUnlocked(r) ==
    LET d == input[r].doc IN
    /\ pc[r] = "fields"
    /\ IF input[r].status = "keep" /\ ~input[r].title
       THEN /\ pc' = [pc EXCEPT ![r] = "marks"]
            /\ UNCHANGED <<tables, clock, input, txVars, seen, answer>>
       ELSE IF docRow[d] = NoDoc
       THEN Rollback(r, "not_found")
       ELSE /\ docW' = [docW EXCEPT ![r] = Stamped(docRow[d], input[r].status, start[r])]
            /\ pc' = [pc EXCEPT ![r] = "marks"]
            /\ UNCHANGED <<tables, clock, input, start, num, signW, mark, seen, answer>>

\* With neither status, title nor payload there is no UPDATE, and no lock, at all.
UpdateDocumentFields(r) ==
    LET d == input[r].doc IN
    /\ pc[r] = "fields"
    /\ IF input[r].status = "keep" /\ ~input[r].title
       THEN /\ pc' = [pc EXCEPT ![r] = "marks"]
            /\ UNCHANGED <<tables, clock, input, txVars, seen, answer>>
       ELSE IF docRow[d] = NoDoc
       THEN Rollback(r, "not_found")
       ELSE /\ \A q \in Requests : ~HoldsDocument(q, d)
            /\ docW' = [docW EXCEPT ![r] = Stamped(docRow[d], input[r].status, start[r])]
            /\ pc' = [pc EXCEPT ![r] = "marks"]
            /\ UNCHANGED <<tables, clock, input, start, num, signW, mark, seen, answer>>

\* One UPDATE per listed signer, in the client's order; a status keeps or sets signed_at.
UpdateSignerStatus(r) ==
    LET d == input[r].doc
        m == input[r].marks[mark[r]]
    IN
    /\ pc[r] = "marks"
    /\ mark[r] \in DOMAIN input[r].marks
    /\ IF m.signer \in Signers /\ signRow[d][m.signer] # NoSigner
       THEN /\ \A q \in Requests \ {r} : ~HoldsSigner(q, d, m.signer)
            /\ signW' = [signW EXCEPT ![r][m.signer] =
                  [status |-> m.status,
                   at |-> CASE m.status = "signed"  -> start[r]
                            [] m.status = "pending" -> 0
                            [] OTHER -> Overlay(signRow[d], signW[r])[m.signer].at]]
            /\ mark' = [mark EXCEPT ![r] = @ + 1]
            /\ UNCHANGED <<tables, clock, pc, input, start, num, docW, seen, answer>>
       ELSE Rollback(r, "failed")

SignersUpdated(r) ==
    /\ pc[r] = "marks"
    /\ mark[r] \notin DOMAIN input[r].marks
    /\ pc' = [pc EXCEPT ![r] = "read"]
    /\ UNCHANGED <<tables, clock, input, txVars, seen, answer>>

\* (mutant) the docs service reads them through the pool too.
AttachCommittedSigners(r) ==
    /\ Site[r] = "docs"
    /\ seen' = [seen EXCEPT ![r] = SignerStatusOf(signRow[Target(r)])]

\* The docs service reads the signers back inside its transaction.
AttachSignersInTx(r) ==
    /\ Site[r] = "docs"
    /\ seen' = [seen EXCEPT ![r] = SignerStatusOf(Overlay(signRow[Target(r)], signW[r]))]

\* The gateway reads them through the pool: on a second connection, from committed rows.
AttachSignersFromPool(r) ==
    /\ Site[r] = "gateway"
    /\ FreeConn("gateway")
    /\ seen' = [seen EXCEPT ![r] = SignerStatusOf(signRow[Target(r)])]

\* getDocumentTx: the row must be there; its signers go into the response.
GetDocumentTx(r) ==
    /\ pc[r] = "read"
    /\ IF docRow[input[r].doc] = NoDoc
       THEN Rollback(r, "not_found")
       ELSE /\ AttachSignersInTx(r) \/ AttachSignersFromPool(r)
            /\ pc' = [pc EXCEPT ![r] = "commit"]
            /\ UNCHANGED <<tables, clock, input, txVars, answer>>

-------------------------------------------------------------------------------
(* The end of a transaction. *)

\* (mutant) number_sequence is not written back.
CommitWithoutCounter(r, reply) ==
    /\ pc[r] = "commit"
    /\ docRow' = [docRow EXCEPT ![Target(r)] = IF docW[r] = NoDoc THEN @ ELSE docW[r]]
    /\ signRow' = [signRow EXCEPT ![Target(r)] = Overlay(@, signW[r])]
    /\ Finish(r, reply)
    /\ UNCHANGED <<seqRow, clock, seen>>

\* The transaction's writes become visible together.  The reply may be lost with the
\* connection after the server committed: the handler then answers an error ("lost").
Commit(r, reply) ==
    /\ pc[r] = "commit"
    /\ docRow' = [docRow EXCEPT ![Target(r)] = IF docW[r] = NoDoc THEN @ ELSE docW[r]]
    /\ signRow' = [signRow EXCEPT ![Target(r)] = Overlay(@, signW[r])]
    /\ seqRow' = IF Creates(r) THEN [seqRow EXCEPT ![input[r].seq] = num[r]] ELSE seqRow
    /\ Finish(r, reply)
    /\ UNCHANGED <<clock, seen>>

\* The program, the database or the connection between them fails: deferred Rollback.
Disconnect(r) ==
    /\ InTx(r)
    /\ Rollback(r, "failed")

\* The requests that hold what r's next statement needs.
Blockers(r) ==
    {q \in Requests \ {r} :
        \/ pc[r] = "fields" /\ (input[r].status # "keep" \/ input[r].title)
             /\ HoldsDocument(q, input[r].doc)
        \/ pc[r] = "marks" /\ mark[r] \in DOMAIN input[r].marks
             /\ HoldsSigner(q, input[r].doc, input[r].marks[mark[r]].signer)}

WaitCycle(c) == c # {} /\ \A q \in c : Blockers(q) \cap c # {}

\* PostgreSQL finds a cycle of waiting transactions and fails one of them.
DeadlockVictim(r) ==
    /\ \E c \in SUBSET Requests :
          /\ r \in c /\ WaitCycle(c)
          /\ \A b \in SUBSET c : WaitCycle(b) => b = c
    /\ Rollback(r, "failed")

Step(r) ==
    \/ BeginTx(r)
    \/ NextNumber(r)
    \/ InsertDocument(r)
    \/ InsertDocumentSigners(r)
    \/ UpdateDocumentFields(r)
    \/ UpdateSignerStatus(r)
    \/ SignersUpdated(r)
    \/ GetDocumentTx(r)
    \/ Commit(r, "ok")
    \/ DeadlockVictim(r)

Next ==
    \E r \in Requests :
        \/ \E i \in CreateInputs \cup UpdateInputs : Receive(r, i)
        \/ Step(r)
        \/ Commit(r, "lost")
        \/ Disconnect(r)

Spec == Init /\ [][Next]_vars

\* Handlers run, and the database answers every statement that nothing blocks.
Fairness == \A r \in Requests : WF_vars(Step(r))

FairSpec == Spec /\ Fairness

-------------------------------------------------------------------------------
(* Properties. *)

\* Every variable stays within its table's columns and the handler's states.
TypeOK ==
    /\ seqRow \in [NumberSequences -> Nat]
    /\ docRow \in [Requests -> DocRow \cup {NoDoc}]
    /\ signRow \in [Requests -> [Signers -> SignerRow]]
    /\ clock \in Nat
    /\ pc \in [Requests -> {"idle", "begin", "number", "insert", "signers", "fields",
                            "marks", "read", "commit", "done"}]
    /\ input \in [Requests -> CreateInputs \cup UpdateInputs \cup {NoInput}]
    /\ start \in [Requests -> Nat]
    /\ num \in [Requests -> Nat]
    /\ docW \in [Requests -> DocRow \cup {NoDoc}]
    /\ signW \in [Requests -> [Signers -> SignerRow]]
    /\ mark \in [Requests -> Nat \ {0}]
    /\ seen \in [Requests -> [Signers -> SignerStatuses \cup {"none"}]]
    /\ answer \in [Requests -> {"none", "ok", "lost", "refused", "not_found",
                                "duplicate", "failed"}]

Registered(s) == {d \in Requests : docRow[d] # NoDoc /\ docRow[d].seq = s}

\* Whatever requests failed after they took a number, the documents of a sequence bear
\* exactly the values up to its counter, each value once: CreateDocument never burns a
\* number and never gives one out twice.
GaplessNumbers ==
    \A s \in NumberSequences :
        /\ \A d \in Registered(s) : docRow[d].value \in FirstFree[s] + 1 .. seqRow[s]
        /\ \A n \in FirstFree[s] + 1 .. seqRow[s] :
              \E d \in Registered(s) : docRow[d].value = n
        /\ \A d, e \in Registered(s) : docRow[d].value = docRow[e].value => d = e

\* The lock of nextNumber keeps concurrent creates of a sequence from computing one number
\* twice, so UNIQUE (number) never has to refuse a valid document.
NoNumberRefused == \A r \in Requests : answer[r] # "duplicate"

\* Issuing documents implements the register of numbers, step by step.
Numbers == INSTANCE NumberRegister WITH
    Documents <- Requests,
    last <- seqRow,
    register <- {[doc |-> d, seq |-> docRow[d].seq, value |-> docRow[d].value] :
                     d \in {e \in Requests : docRow[e] # NoDoc}}
ImplementsRegister == Numbers!Spec

\* To its clients the domain is a ledger that serves one request at a time: whatever updates and
\* creations of both programs interleave, fail or deadlock, each request that is answered with
\* success has changed, in the step that answers it, the newest rows and nothing else, and no
\* other has changed any (no update is lost, none is half done).
Ledger == INSTANCE DocumentLedger WITH
    Bodies <- CreateInputs \cup UpdateInputs,
    counter <- seqRow,
    doc <- docRow,
    signers <- signRow,
    asked <- input,
    reply <- answer
ImplementsLedger == Ledger!Spec

\* Document and signer timestamps agree with the status they were written with, however
\* updates of one document interleave.  (A document may be created straight into any
\* status, with issued_at alone set: only these implications hold.)
StampsMatchStatus ==
    /\ \A d \in Requests : docRow[d] # NoDoc =>
          /\ docRow[d].status = "issued" =>
                docRow[d].issued # 0 /\ docRow[d].signed = 0 /\ docRow[d].archived = 0
          /\ docRow[d].status = "signed" => docRow[d].archived = 0
          /\ docRow[d].status = "draft" => docRow[d].signed = 0 /\ docRow[d].archived = 0
    /\ \A d \in Requests, g \in Signers :
          /\ signRow[d][g].status = "signed" => signRow[d][g].at # 0
          /\ signRow[d][g].status \in {"pending", "none"} => signRow[d][g].at = 0

\* The status the last of r's entries about signer g asks for.
LastMark(r, g, status) ==
    \E k \in DOMAIN input[r].marks :
        /\ input[r].marks[k] = [signer |-> g, status |-> status]
        /\ \A l \in DOMAIN input[r].marks : l > k => input[r].marks[l].signer # g

\* The tables after a step show everything a request asked for.
Applied(r) ==
    IF Creates(r)
    THEN /\ docRow[r] # NoDoc
         /\ docRow[r].status = InitialStatus(input[r])
         /\ \A g \in Signers :
               (signRow[r][g].status = "pending") <=>
                   (\E k \in DOMAIN input[r].signers : input[r].signers[k] = g)
    ELSE /\ input[r].status # "keep" => docRow[input[r].doc].status = input[r].status
         /\ \A g \in Signers, status \in SignerStatuses :
               LastMark(r, g, status) => signRow[input[r].doc][g].status = status

\* The step that answers r; a handler answers that it succeeded, or may have.
Answers(r) == pc[r] # "done" /\ pc'[r] = "done"
Succeeds(r) == answer'[r] \in {"ok", "lost"}

\* A request is applied whole, in the step that answers it, or leaves no trace: a failing
\* signer status takes the new document status back with it (one transaction per request).
AllOrNothing ==
    [][/\ \A r \in Requests : Answers(r) /\ Succeeds(r) => Applied(r)'
       /\ tables' # tables => \E r \in Requests : Answers(r) /\ Succeeds(r)]_vars

\* r's response shows the signers with the statuses r has just given them.
ShowsUpdate(r) ==
    (answer[r] = "ok" /\ ~Creates(r)) =>
        \A g \in Signers, status \in SignerStatuses :
            LastMark(r, g, status) => seen[r][g] = status

\* The docs service answers an update with what the update wrote, although nothing of it
\* is committed when the answer is composed.
DocsShowsUpdate == \A r \in Requests : Site[r] = "docs" => ShowsUpdate(r)

\* Every request that passed validation is answered: no lock, deadlock between signers'
\* rows or full pool holds it for ever.
EveryRequestAnswered ==
    \A r \in Requests : pc[r] = "begin" ~> pc[r] = "done"
===============================================================================
