---------------------------- MODULE DocumentsProofs ----------------------------
(***************************************************************************)
(* Proofs about Documents, for any number of requests, sequences, signers  *)
(* and connections: types, the numbering of documents, that the program    *)
(* implements NumberRegister and DocumentLedger, what requests are         *)
(* answered and leave, which deadlocks there are, and where the gateway's  *)
(* pool and a sequence with another's prefix stop for good.                *)
(***************************************************************************)
EXTENDS Documents, TLAPS

\* What a handler under way knows of its body: it passed validation, and the step it
\* stands at belongs to the kind of request it is.
InputInv ==
    \A r \in Requests : pc[r] \notin {"idle", "done"} =>
        /\ \/ input[r] \in CreateInputs /\ ValidCreate(input[r])
           \/ input[r] \in UpdateInputs /\ ValidUpdate(input[r])
        /\ pc[r] \in {"number", "insert", "signers"} => Creates(r)
        /\ pc[r] \in {"insert", "signers"} => input[r].seq \in NumberSequences
        /\ pc[r] \in {"fields", "marks", "read"} => ~Creates(r)

USE RequestsServed, SequencesSeeded, NoDocIsNoRow, InputsAreInputs

\* The kinds of body are told apart by op.
LEMMA Kinds ==
    /\ \A i \in CreateInputs : i.op = "create"
    /\ \A i \in UpdateInputs : i.op = "update" /\ i.doc \in Requests
    /\ NoInput.op = "none"
BY DEF NoInput

\* The rows a statement writes are rows of the tables.
LEMMA StampedType ==
    ASSUME NEW row \in DocRow, NEW status \in Statuses \cup {"keep"}, NEW now \in Nat
    PROVE  /\ Stamped(row, status, now) \in DocRow
           /\ Stamped(row, status, now).seq = row.seq
           /\ Stamped(row, status, now).value = row.value
BY DEF Stamped, DocRow, Statuses

LEMMA OverlayType ==
    ASSUME NEW a \in [Signers -> SignerRow], NEW b \in [Signers -> SignerRow]
    PROVE  Overlay(a, b) \in [Signers -> SignerRow]
BY DEF Overlay

LEMMA NoSignersType == NoSigners \in [Signers -> SignerRow]
BY DEF NoSigners, NoSigner, SignerRow

LEMMA SignerStatusType ==
    ASSUME NEW a \in [Signers -> SignerRow]
    PROVE  SignerStatusOf(a) \in [Signers -> SignerStatuses \cup {"none"}]
BY DEF SignerStatusOf, SignerRow

LEMMA NewDocumentType ==
    ASSUME TypeOK, InputInv, NEW r \in Requests, pc[r] = "insert"
    PROVE  NewDocument(r) \in DocRow
BY Kinds DEF InputInv, Creates, NewDocument, DocRow, ValidCreate, TypeOK

\* Ending a transaction keeps types and what is known of the other handlers.
LEMMA FinishTypes ==
    ASSUME TypeOK, InputInv, NEW r \in Requests,
           NEW reply \in {"ok", "lost", "not_found", "duplicate", "failed"},
           Finish(r, reply), UNCHANGED <<clock, seen>>,
           seqRow' \in [NumberSequences -> Nat],
           docRow' \in [Requests -> DocRow \cup {NoDoc}],
           signRow' \in [Requests -> [Signers -> SignerRow]]
    PROVE  TypeOK' /\ InputInv'
<1>1. /\ clock' \in Nat
      /\ seen' \in [Requests -> [Signers -> SignerStatuses \cup {"none"}]]
  BY DEF TypeOK
<1>2. /\ pc' = [pc EXCEPT ![r] = "done"]
      /\ answer' = [answer EXCEPT ![r] = reply]
      /\ start' = [start EXCEPT ![r] = 0]
      /\ num' = [num EXCEPT ![r] = 0]
      /\ docW' = [docW EXCEPT ![r] = NoDoc]
      /\ mark' = [mark EXCEPT ![r] = 1]
      /\ input' = input
  BY DEF Finish
<1>3. signW' \in [Requests -> [Signers -> SignerRow]]
  <2>1. signW' = [signW EXCEPT ![r] = NoSigners]
    BY DEF Finish
  <2>. QED  BY <2>1, NoSignersType DEF TypeOK
<1>4. /\ pc' \in [Requests -> {"idle", "begin", "number", "insert", "signers", "fields",
                               "marks", "read", "commit", "done"}]
      /\ answer' \in [Requests -> {"none", "ok", "lost", "refused", "not_found",
                                   "duplicate", "failed"}]
      /\ input' \in [Requests -> CreateInputs \cup UpdateInputs \cup {NoInput}]
  BY <1>2 DEF TypeOK
<1>5. /\ start' \in [Requests -> Nat]
      /\ num' \in [Requests -> Nat]
      /\ docW' \in [Requests -> DocRow \cup {NoDoc}]
      /\ mark' \in [Requests -> Nat \ {0}]
  BY <1>2 DEF TypeOK
<1>6. TypeOK'
  BY <1>1, <1>3, <1>4, <1>5 DEF TypeOK
<1>7. InputInv'
  BY <1>2 DEF TypeOK, InputInv, Creates
<1>. QED  BY <1>6, <1>7

LEMMA RollbackTypes ==
    ASSUME TypeOK, InputInv, NEW r \in Requests,
           NEW reply \in {"ok", "lost", "not_found", "duplicate", "failed"},
           Rollback(r, reply)
    PROVE  TypeOK' /\ InputInv'
<1>1. UNCHANGED tables /\ UNCHANGED <<clock, seen>> /\ Finish(r, reply)
  BY DEF Rollback
<1>2. /\ seqRow' \in [NumberSequences -> Nat]
      /\ docRow' \in [Requests -> DocRow \cup {NoDoc}]
      /\ signRow' \in [Requests -> [Signers -> SignerRow]]
  BY <1>1 DEF tables, TypeOK
<1>. QED  BY <1>1, <1>2, FinishTypes

LEMMA CommitTypes ==
    ASSUME TypeOK, InputInv, NEW r \in Requests, NEW reply \in {"ok", "lost"},
           Commit(r, reply)
    PROVE  TypeOK' /\ InputInv'
<1>1. Target(r) \in Requests
  BY Kinds DEF Commit, InputInv, Target, Creates
<1>2. seqRow' \in [NumberSequences -> Nat]
  BY DEF Commit, TypeOK
<1>3. docRow' \in [Requests -> DocRow \cup {NoDoc}]
  BY <1>1 DEF Commit, TypeOK
<1>4. Overlay(signRow[Target(r)], signW[r]) \in [Signers -> SignerRow]
  BY <1>1, OverlayType DEF TypeOK
<1>5. signRow' \in [Requests -> [Signers -> SignerRow]]
  BY <1>1, <1>4 DEF Commit, TypeOK
<1>. QED  BY <1>2, <1>3, <1>5, FinishTypes DEF Commit

\* One step of one request keeps types.
LEMMA StepTypes ==
    ASSUME TypeOK, InputInv, NEW r \in Requests, Step(r)
    PROVE  TypeOK' /\ InputInv'
<1>1. CASE BeginTx(r)
  <2>1. TypeOK'
    BY <1>1 DEF BeginTx, TypeOK, tables
  <2>2. InputInv'
    BY <1>1, Kinds DEF BeginTx, TypeOK, InputInv, Creates
  <2>. QED  BY <2>1, <2>2
<1>2. CASE NextNumber(r)
  <2>1. CASE Rollback(r, "failed")
    BY <2>1, RollbackTypes
  <2>2. CASE ~Rollback(r, "failed")
    <3>1. /\ input[r].seq \in NumberSequences
          /\ pc[r] = "number"
          /\ num' = [num EXCEPT ![r] = seqRow[input[r].seq] + 1]
          /\ pc' = [pc EXCEPT ![r] = "insert"]
          /\ UNCHANGED <<tables, clock, input, start, docW, signW, mark, seen, answer>>
      BY <1>2, <2>2 DEF NextNumber
    <3>2. TypeOK'
      BY <3>1 DEF TypeOK, tables
    <3>3. InputInv'
      BY <3>1 DEF TypeOK, InputInv, Creates
    <3>. QED  BY <3>2, <3>3
  <2>. QED  BY <2>1, <2>2
<1>3. CASE InsertDocument(r)
  <2>1. CASE Rollback(r, "failed") \/ Rollback(r, "duplicate")
    BY <2>1, RollbackTypes
  <2>2. CASE ~(Rollback(r, "failed") \/ Rollback(r, "duplicate"))
    <3>1. /\ pc[r] = "insert"
          /\ docW' = [docW EXCEPT ![r] = NewDocument(r)]
          /\ pc' = [pc EXCEPT ![r] = "signers"]
          /\ UNCHANGED <<tables, clock, input, start, num, signW, mark, seen, answer>>
      BY <1>3, <2>2 DEF InsertDocument
    <3>2. NewDocument(r) \in DocRow
      BY <3>1, NewDocumentType
    <3>3. TypeOK'
      BY <3>1, <3>2 DEF TypeOK, tables
    <3>4. InputInv'
      BY <3>1 DEF TypeOK, InputInv, Creates
    <3>. QED  BY <3>3, <3>4
  <2>. QED  BY <2>1, <2>2
<1>4. CASE InsertDocumentSigners(r)
  <2>1. CASE Rollback(r, "failed")
    BY <2>1, RollbackTypes
  <2>2. CASE ~Rollback(r, "failed")
    <3> DEFINE rows == [g \in Signers |->
                            IF \E k \in DOMAIN input[r].signers : input[r].signers[k] = g
                            THEN [status |-> "pending", at |-> 0]
                            ELSE NoSigner]
    <3>1. /\ pc[r] = "signers"
          /\ signW' = [signW EXCEPT ![r] = rows]
          /\ seen' = [seen EXCEPT ![r] = SignerStatusOf(signW'[r])]
          /\ pc' = [pc EXCEPT ![r] = "commit"]
          /\ UNCHANGED <<tables, clock, input, start, num, docW, mark, answer>>
      BY <1>4, <2>2 DEF InsertDocumentSigners
    <3>2. rows \in [Signers -> SignerRow]
      BY DEF SignerRow, SignerStatuses, NoSigner
    <3> HIDE DEF rows
    <3>3. signW'[r] \in [Signers -> SignerRow]
      BY <3>1, <3>2 DEF TypeOK
    <3>4. SignerStatusOf(signW'[r]) \in [Signers -> SignerStatuses \cup {"none"}]
      BY <3>3, SignerStatusType
    <3>5. TypeOK'
      BY <3>1, <3>2, <3>4 DEF TypeOK, tables
    <3>6. InputInv'
      BY <3>1 DEF TypeOK, InputInv, Creates
    <3>. QED  BY <3>5, <3>6
  <2>. QED  BY <2>1, <2>2
<1>5. CASE UpdateDocumentFields(r)
  <2>1. CASE Rollback(r, "not_found")
    BY <2>1, RollbackTypes
  <2>2. CASE /\ pc' = [pc EXCEPT ![r] = "marks"]
             /\ UNCHANGED <<tables, clock, input, txVars, seen, answer>>
    <3>1. TypeOK'
      BY <2>2 DEF TypeOK, tables, txVars
    <3>2. InputInv'
      BY <1>5, <2>2 DEF UpdateDocumentFields, TypeOK, InputInv, Creates
    <3>. QED  BY <3>1, <3>2
  <2>3. CASE /\ docRow[input[r].doc] # NoDoc
             /\ docW' = [docW EXCEPT ![r] =
                    Stamped(docRow[input[r].doc], input[r].status, start[r])]
             /\ pc' = [pc EXCEPT ![r] = "marks"]
             /\ UNCHANGED <<tables, clock, input, start, num, signW, mark, seen, answer>>
    <3>1. pc[r] = "fields" /\ input[r] \in UpdateInputs /\ ValidUpdate(input[r])
      BY <1>5, Kinds DEF UpdateDocumentFields, InputInv, Creates
    <3>2. docRow[input[r].doc] \in DocRow
      BY <2>3, <3>1, Kinds DEF TypeOK
    <3>3. Stamped(docRow[input[r].doc], input[r].status, start[r]) \in DocRow
      BY <3>1, <3>2, StampedType DEF TypeOK, ValidUpdate
    <3>4. TypeOK'
      BY <2>3, <3>3 DEF TypeOK, tables
    <3>5. InputInv'
      BY <2>3, <3>1 DEF TypeOK, InputInv, Creates
    <3>. QED  BY <3>4, <3>5
  <2>. QED  BY <1>5, <2>1, <2>2, <2>3 DEF UpdateDocumentFields
<1>6. CASE UpdateSignerStatus(r)
  <2>1. CASE Rollback(r, "failed")
    BY <2>1, RollbackTypes
  <2>2. CASE ~Rollback(r, "failed")
    <3> DEFINE d == input[r].doc
               m == input[r].marks[mark[r]]
               stamp == CASE m.status = "signed"  -> start[r]
                          [] m.status = "pending" -> 0
                          [] OTHER -> Overlay(signRow[d], signW[r])[m.signer].at
    <3>1. /\ pc[r] = "marks"
          /\ mark[r] \in DOMAIN input[r].marks
          /\ m.signer \in Signers
          /\ signW' = [signW EXCEPT ![r][m.signer] = [status |-> m.status, at |-> stamp]]
          /\ mark' = [mark EXCEPT ![r] = @ + 1]
          /\ UNCHANGED <<tables, clock, pc, input, start, num, docW, seen, answer>>
      BY <1>6, <2>2 DEF UpdateSignerStatus
    <3>2. input[r] \in UpdateInputs /\ ValidUpdate(input[r])
      BY <3>1, Kinds DEF InputInv, Creates
    <3>3. m.status \in SignerStatuses /\ d \in Requests
      BY <3>1, <3>2, Kinds DEF ValidUpdate
    <3>4. Overlay(signRow[d], signW[r])[m.signer].at \in Nat
      <4>1. signRow[d] \in [Signers -> SignerRow] /\ signW[r] \in [Signers -> SignerRow]
        BY <3>3 DEF TypeOK
      <4>2. Overlay(signRow[d], signW[r]) \in [Signers -> SignerRow]
        BY <4>1, OverlayType
      <4> HIDE DEF m, d
      <4>3. Overlay(signRow[d], signW[r])[m.signer] \in SignerRow
        BY <3>1, <4>2
      <4>. QED  BY <4>3 DEF SignerRow
    <3>5. stamp \in Nat
      <4>1. start[r] \in Nat
        BY DEF TypeOK
      <4> HIDE DEF m, d
      <4>. QED  BY <3>4, <4>1
    <3> HIDE DEF stamp, m
    <3>6. [status |-> m.status, at |-> stamp] \in SignerRow
      BY <3>3, <3>5 DEF SignerRow
    <3>7. signW' \in [Requests -> [Signers -> SignerRow]]
      <4>1. [signW[r] EXCEPT ![m.signer] = [status |-> m.status, at |-> stamp]]
                \in [Signers -> SignerRow]
        BY <3>1, <3>6 DEF TypeOK
      <4>. QED  BY <3>1, <4>1 DEF TypeOK
    <3>8. TypeOK'
      BY <3>1, <3>7 DEF TypeOK, tables
    <3>9. InputInv'
      BY <3>1 DEF TypeOK, InputInv, Creates
    <3>. QED  BY <3>8, <3>9
  <2>. QED  BY <2>1, <2>2
<1>7. CASE SignersUpdated(r)
  <2>1. TypeOK'
    BY <1>7 DEF SignersUpdated, TypeOK, tables, txVars
  <2>2. InputInv'
    BY <1>7 DEF SignersUpdated, TypeOK, InputInv, Creates
  <2>. QED  BY <2>1, <2>2
<1>8. CASE GetDocumentTx(r)
  <2>1. CASE Rollback(r, "not_found")
    BY <2>1, RollbackTypes
  <2>2. CASE ~Rollback(r, "not_found")
    <3>1. /\ pc[r] = "read"
          /\ AttachSignersInTx(r) \/ AttachSignersFromPool(r)
          /\ pc' = [pc EXCEPT ![r] = "commit"]
          /\ UNCHANGED <<tables, clock, input, txVars, answer>>
      BY <1>8, <2>2 DEF GetDocumentTx
    <3>2. Target(r) \in Requests
      BY <3>1, Kinds DEF InputInv, Creates, Target
    <3>3. /\ Overlay(signRow[Target(r)], signW[r]) \in [Signers -> SignerRow]
          /\ signRow[Target(r)] \in [Signers -> SignerRow]
      BY <3>2, OverlayType DEF TypeOK
    <3>4. PICK rows \in [Signers -> SignerRow] :
                seen' = [seen EXCEPT ![r] = SignerStatusOf(rows)]
      BY <3>1, <3>3 DEF AttachSignersInTx, AttachSignersFromPool
    <3>5. SignerStatusOf(rows) \in [Signers -> SignerStatuses \cup {"none"}]
      BY SignerStatusType
    <3>6. seen' \in [Requests -> [Signers -> SignerStatuses \cup {"none"}]]
      BY <3>4, <3>5 DEF TypeOK
    <3>7. TypeOK'
      BY <3>1, <3>6 DEF TypeOK, tables, txVars
    <3>8. InputInv'
      BY <3>1 DEF TypeOK, InputInv, Creates
    <3>. QED  BY <3>7, <3>8
  <2>. QED  BY <2>1, <2>2
<1>9. CASE DeadlockVictim(r)
  BY <1>9, RollbackTypes DEF DeadlockVictim
<1>10. CASE Commit(r, "ok")
  BY <1>10, CommitTypes
<1>. QED  BY <1>1, <1>2, <1>3, <1>4, <1>5, <1>6, <1>7, <1>8, <1>9, <1>10 DEF Step

LEMMA InitTypes == Init => TypeOK /\ InputInv
BY NoSignersType, SignerStatusType DEF Init, TypeOK, InputInv

LEMMA NextTypes == TypeOK /\ InputInv /\ [Next]_vars => TypeOK' /\ InputInv'
<1> SUFFICES ASSUME TypeOK, InputInv, [Next]_vars
             PROVE  TypeOK' /\ InputInv'
  OBVIOUS
<1>1. ASSUME NEW r \in Requests, NEW i \in CreateInputs \cup UpdateInputs, Receive(r, i)
      PROVE  TypeOK' /\ InputInv'
  <2>1. TypeOK'
    BY <1>1 DEF Receive, TypeOK, tables, txVars
  <2>2. InputInv'
    BY <1>1, Kinds DEF Receive, TypeOK, InputInv, Creates
  <2>. QED  BY <2>1, <2>2
<1>2. ASSUME NEW r \in Requests, Step(r)
      PROVE  TypeOK' /\ InputInv'
  BY <1>2, StepTypes
<1>3. ASSUME NEW r \in Requests, Commit(r, "lost")
      PROVE  TypeOK' /\ InputInv'
  BY <1>3, CommitTypes
<1>4. ASSUME NEW r \in Requests, Disconnect(r)
      PROVE  TypeOK' /\ InputInv'
  BY <1>4, RollbackTypes DEF Disconnect
<1>5. CASE UNCHANGED vars
  BY <1>5 DEF vars, tables, txVars, TypeOK, InputInv, Creates
<1>. QED  BY <1>1, <1>2, <1>3, <1>4, <1>5 DEF Next

\* Types, for any number of requests, sequences and connections.
THEOREM TypeCorrect == Spec => [](TypeOK /\ InputInv)
BY InitTypes, NextTypes, PTL DEF Spec

-------------------------------------------------------------------------------
(* The numbering of documents. *)

\* A handler that took a number holds the one after the counter's, and it alone.
HeldNumbers ==
    /\ \A r \in Requests : num[r] # 0 =>
          /\ Creates(r)
          /\ pc[r] \in {"insert", "signers", "commit"}
          /\ input[r].seq \in NumberSequences
          /\ num[r] = seqRow[input[r].seq] + 1
    /\ \A r \in Requests :
          Creates(r) /\ pc[r] \in {"insert", "signers", "commit"} => num[r] # 0
    /\ \A q, r \in Requests :
          num[q] # 0 /\ num[r] # 0 /\ input[q].seq = input[r].seq => q = r

\* An uncommitted row bears the number its handler holds, or the one its document has.
UncommittedRows ==
    /\ \A r \in Requests : docW[r] # NoDoc => InTx(r)
    /\ \A r \in Requests : Creates(r) /\ docW[r] # NoDoc =>
          docW[r].seq = input[r].seq /\ docW[r].value = num[r]
    /\ \A r \in Requests : Creates(r) =>
          (docW[r] # NoDoc <=> pc[r] \in {"signers", "commit"})
    /\ \A r \in Requests : ~Creates(r) /\ docW[r] # NoDoc =>
          /\ docRow[input[r].doc] # NoDoc
          /\ docW[r].seq = docRow[input[r].doc].seq
          /\ docW[r].value = docRow[input[r].doc].value

\* A document is there once the handler that creates it is done.
CreatedWhenDone == \A r \in Requests : docRow[r] # NoDoc => Creates(r) /\ pc[r] = "done"

\* Counters only grow.
CounterGrows == \A s \in NumberSequences : FirstFree[s] <= seqRow[s]

NumberInv ==
    CounterGrows /\ HeldNumbers /\ UncommittedRows /\ CreatedWhenDone /\ GaplessNumbers

LEMMA InitNumbers == Init => NumberInv
<1> SUFFICES ASSUME Init PROVE NumberInv
  OBVIOUS
<1>1. /\ \A r \in Requests : num[r] = 0 /\ docW[r] = NoDoc /\ docRow[r] = NoDoc
      /\ \A r \in Requests : pc[r] = "idle"
      /\ seqRow = FirstFree
  BY DEF Init
<1>2. HeldNumbers
  BY <1>1 DEF HeldNumbers
<1>3. UncommittedRows /\ CreatedWhenDone
  BY <1>1 DEF UncommittedRows, CreatedWhenDone
<1>4. GaplessNumbers
  BY <1>1 DEF GaplessNumbers, Registered
<1>5. CounterGrows
  BY <1>1 DEF CounterGrows
<1>. QED  BY <1>2, <1>3, <1>4, <1>5 DEF NumberInv

\* A handler that moves on without touching numbers, documents or its body.
LEMMA MoveNumbers ==
    ASSUME TypeOK, NumberInv, NEW r \in Requests, NEW p,
           pc' = [pc EXCEPT ![r] = p],
           UNCHANGED <<seqRow, docRow, num, docW, input>>,
           \/ pc[r] = "begin" /\ p \in {"number", "fields"}
           \/ pc[r] = "signers" /\ p = "commit" /\ docW[r] # NoDoc
           \/ ~Creates(r) /\ InTx(r) /\ p \in {"marks", "read", "commit"}
    PROVE  NumberInv'
<1>1. \A q \in Requests : Creates(q)' <=> Creates(q)
  BY DEF Creates
<1>2. HeldNumbers'
  BY <1>1 DEF HeldNumbers, NumberInv, TypeOK, Creates, InTx
<1>3. UncommittedRows'
  BY <1>1 DEF UncommittedRows, NumberInv, TypeOK, Creates, InTx
<1>4. CreatedWhenDone'
  BY <1>1 DEF CreatedWhenDone, NumberInv, TypeOK, Creates, InTx
<1>5. GaplessNumbers' /\ CounterGrows'
  BY DEF GaplessNumbers, Registered, CounterGrows, NumberInv
<1>. QED  BY <1>2, <1>3, <1>4, <1>5 DEF NumberInv

\* A rolled back handler gives its number back: the counter never moved.
LEMMA RollbackNumbers ==
    ASSUME TypeOK, NumberInv, NEW r \in Requests, NEW reply, Rollback(r, reply)
    PROVE  NumberInv'
<1>1. /\ pc' = [pc EXCEPT ![r] = "done"]
      /\ num' = [num EXCEPT ![r] = 0]
      /\ docW' = [docW EXCEPT ![r] = NoDoc]
      /\ UNCHANGED <<seqRow, docRow, input>>
  BY DEF Rollback, Finish, tables
<1>2. HeldNumbers'
  BY <1>1 DEF HeldNumbers, NumberInv, TypeOK, Creates
<1>3. UncommittedRows'
  BY <1>1 DEF UncommittedRows, NumberInv, TypeOK, Creates, InTx
<1>4. CreatedWhenDone'
  BY <1>1 DEF CreatedWhenDone, NumberInv, TypeOK, Creates
<1>5. GaplessNumbers' /\ CounterGrows'
  BY <1>1 DEF GaplessNumbers, Registered, CounterGrows, NumberInv
<1>. QED  BY <1>2, <1>3, <1>4, <1>5 DEF NumberInv

\* What a commit does to the numbers: a create appends its document under the counter's
\* next value, an update leaves every number where it was.
LEMMA CommitEffect ==
    ASSUME TypeOK, InputInv, NumberInv, NEW r \in Requests, NEW reply, Commit(r, reply)
    PROVE  \/ /\ Creates(r) /\ docRow[r] = NoDoc
              /\ input[r].seq \in NumberSequences
              /\ docW[r] \in DocRow
              /\ docW[r].seq = input[r].seq
              /\ docW[r].value = seqRow[input[r].seq] + 1
              /\ docRow' = [docRow EXCEPT ![r] = docW[r]]
              /\ seqRow' = [seqRow EXCEPT ![input[r].seq] = docW[r].value]
           \/ /\ ~Creates(r)
              /\ seqRow' = seqRow
              /\ docRow' \in [Requests -> DocRow \cup {NoDoc}]
              /\ \A d \in Requests :
                    /\ docRow'[d] = NoDoc <=> docRow[d] = NoDoc
                    /\ docRow[d] # NoDoc => docRow'[d].seq = docRow[d].seq
                                          /\ docRow'[d].value = docRow[d].value
<1>1. CASE Creates(r)
  <2>1. pc[r] = "commit" /\ Target(r) = r
    BY <1>1 DEF Commit, Target
  <2>2. /\ docRow[r] = NoDoc
        /\ docW[r] \in DocRow
        /\ num[r] # 0
    BY <1>1, <2>1 DEF NumberInv, HeldNumbers, UncommittedRows, CreatedWhenDone, TypeOK
  <2>3. /\ input[r].seq \in NumberSequences
        /\ docW[r].seq = input[r].seq
        /\ docW[r].value = num[r]
        /\ num[r] = seqRow[input[r].seq] + 1
    BY <1>1, <2>2 DEF NumberInv, HeldNumbers, UncommittedRows
  <2>4. /\ docRow' = [docRow EXCEPT ![r] = docW[r]]
        /\ seqRow' = [seqRow EXCEPT ![input[r].seq] = num[r]]
    BY <1>1, <2>1, <2>2 DEF Commit
  <2>. QED  BY <1>1, <2>2, <2>3, <2>4
<1>2. CASE ~Creates(r)
  <2>1. Target(r) = input[r].doc /\ input[r].doc \in Requests
    BY <1>2, Kinds DEF Commit, Target, InputInv, Creates
  <2>2. /\ seqRow' = seqRow
        /\ docRow' = [docRow EXCEPT ![input[r].doc] =
                         IF docW[r] = NoDoc THEN @ ELSE docW[r]]
    BY <1>2, <2>1 DEF Commit
  <2>3. docW[r] # NoDoc => /\ docRow[input[r].doc] # NoDoc
                           /\ docW[r].seq = docRow[input[r].doc].seq
                           /\ docW[r].value = docRow[input[r].doc].value
    BY <1>2 DEF NumberInv, UncommittedRows
  <2>4. docRow' \in [Requests -> DocRow \cup {NoDoc}]
    BY <2>1, <2>2 DEF TypeOK
  <2>5. ASSUME NEW d \in Requests
        PROVE  /\ docRow'[d] = NoDoc <=> docRow[d] = NoDoc
               /\ docRow[d] # NoDoc => docRow'[d].seq = docRow[d].seq
                                     /\ docRow'[d].value = docRow[d].value
    BY <2>1, <2>2, <2>3 DEF TypeOK
  <2>. QED  BY <1>2, <2>2, <2>4, <2>5
<1>. QED  BY <1>1, <1>2

LEMMA CommitNumbers ==
    ASSUME TypeOK, InputInv, NumberInv, NEW r \in Requests, NEW reply, Commit(r, reply)
    PROVE  NumberInv'
<1>1. /\ pc[r] = "commit"
      /\ pc' = [pc EXCEPT ![r] = "done"]
      /\ num' = [num EXCEPT ![r] = 0]
      /\ docW' = [docW EXCEPT ![r] = NoDoc]
      /\ input' = input
  BY DEF Commit, Finish
<1>2. CASE /\ Creates(r) /\ docRow[r] = NoDoc
           /\ input[r].seq \in NumberSequences
           /\ docW[r] \in DocRow
           /\ docW[r].seq = input[r].seq
           /\ docW[r].value = seqRow[input[r].seq] + 1
           /\ docRow' = [docRow EXCEPT ![r] = docW[r]]
           /\ seqRow' = [seqRow EXCEPT ![input[r].seq] = docW[r].value]
  <2>1. num[r] # 0
    BY <1>1, <1>2 DEF NumberInv, HeldNumbers
  <2>2. HeldNumbers'
    BY <1>1, <1>2, <2>1 DEF HeldNumbers, NumberInv, TypeOK, Creates
  <2>3. UncommittedRows'
    <3>1. ASSUME NEW q \in Requests, ~Creates(q), docW'[q] # NoDoc
          PROVE  /\ docRow'[input[q].doc] # NoDoc
                 /\ docW'[q].seq = docRow'[input[q].doc].seq
                 /\ docW'[q].value = docRow'[input[q].doc].value
      <4>1. q # r /\ docW'[q] = docW[q]
        BY <1>1, <3>1 DEF TypeOK
      <4>2. docRow[input[q].doc] # NoDoc /\ input[q].doc # r
        BY <1>2, <3>1, <4>1 DEF NumberInv, UncommittedRows
      <4>3. docRow'[input[q].doc] = docRow[input[q].doc]
        BY <1>2, <4>2 DEF TypeOK
      <4>. QED  BY <3>1, <4>1, <4>2, <4>3 DEF NumberInv, UncommittedRows
    <3>. QED  BY <1>1, <3>1 DEF UncommittedRows, NumberInv, TypeOK, Creates, InTx
  <2>4. CreatedWhenDone'
    BY <1>1, <1>2 DEF CreatedWhenDone, NumberInv, TypeOK, Creates
  <2>5. GaplessNumbers'
    <3>0. PICK q \in NumberSequences : q = input[r].seq
      BY <1>2
    <3>1. ASSUME NEW s \in NumberSequences, s # q
          PROVE  Registered(s)' = Registered(s) /\ seqRow'[s] = seqRow[s]
      BY <1>2, <3>0, <3>1 DEF Registered, TypeOK
    <3>2. \A d \in Requests : d # r => docRow'[d] = docRow[d]
      BY <1>2 DEF TypeOK
    <3>3. docRow'[r] = docW[r] /\ docRow'[r] # NoDoc
      BY <1>2 DEF TypeOK
    <3>4. /\ Registered(q)' = Registered(q) \cup {r}
          /\ r \notin Registered(q)
      BY <1>2, <3>0, <3>2, <3>3 DEF Registered
    <3>5. /\ seqRow'[q] = seqRow[q] + 1
          /\ docRow'[r].value = seqRow[q] + 1
      BY <1>2, <3>0, <3>3 DEF TypeOK
    <3>6. \A s \in NumberSequences : \A d \in Registered(s) : d # r /\ d \in Requests
      BY <1>2 DEF Registered
    <3>7. /\ seqRow[q] \in Nat
          /\ FirstFree[q] \in Nat
      BY <1>2 DEF TypeOK
    <3>8. FirstFree[q] <= seqRow[q]
      BY <1>2 DEF NumberInv, CounterGrows
    <3>9. ASSUME NEW s \in NumberSequences
          PROVE  /\ \A d \in Registered(s)' : docRow'[d].value \in FirstFree[s] + 1 .. seqRow'[s]
                 /\ \A n \in FirstFree[s] + 1 .. seqRow'[s] :
                       \E d \in Registered(s)' : docRow'[d].value = n
                 /\ \A d, e \in Registered(s)' :
                       docRow'[d].value = docRow'[e].value => d = e
      <4>1. CASE s # q
        BY <3>1, <3>2, <3>6, <4>1 DEF NumberInv, GaplessNumbers
      <4>2. CASE s = q
        <5>1. ASSUME NEW d \in Registered(s)
              PROVE  docRow'[d] = docRow[d] /\ docRow[d].value \in FirstFree[s] + 1 .. seqRow[s]
          BY <3>2, <3>6 DEF NumberInv, GaplessNumbers
        <5>2. \A d \in Registered(s)' : docRow'[d].value \in FirstFree[s] + 1 .. seqRow'[s]
          BY <3>4, <3>5, <3>7, <3>8, <4>2, <5>1
        <5>3. ASSUME NEW n \in FirstFree[s] + 1 .. seqRow'[s]
              PROVE  \E d \in Registered(s)' : docRow'[d].value = n
          <6>1. CASE n = seqRow[s] + 1
            BY <3>4, <3>5, <4>2, <6>1
          <6>2. CASE n # seqRow[s] + 1
            <7>1. n \in FirstFree[s] + 1 .. seqRow[s]
              BY <3>5, <3>7, <4>2, <6>2
            <7>2. PICK d \in Registered(s) : docRow[d].value = n
              BY <7>1 DEF NumberInv, GaplessNumbers
            <7>. QED  BY <3>4, <4>2, <5>1, <7>2
          <6>. QED  BY <6>1, <6>2
        <5>4. ASSUME NEW d \in Registered(s)', NEW e \in Registered(s)',
                     docRow'[d].value = docRow'[e].value
              PROVE  d = e
          <6>1. ASSUME NEW f \in Registered(s)
                PROVE  docRow'[f].value # docRow'[r].value
            BY <3>5, <3>7, <4>2, <5>1
          <6>2. CASE d = r \/ e = r
            BY <3>4, <4>2, <5>4, <6>1, <6>2
          <6>3. CASE d # r /\ e # r
            BY <3>4, <4>2, <5>1, <5>4, <6>3 DEF NumberInv, GaplessNumbers
          <6>. QED  BY <6>2, <6>3
        <5>. QED  BY <5>2, <5>3, <5>4
      <4>. QED  BY <4>1, <4>2
    <3>. QED  BY <3>9 DEF GaplessNumbers
  <2>6. CounterGrows'
    BY <1>2 DEF CounterGrows, NumberInv, TypeOK
  <2>. QED  BY <2>2, <2>3, <2>4, <2>5, <2>6 DEF NumberInv
<1>3. CASE /\ ~Creates(r)
           /\ seqRow' = seqRow
           /\ docRow' \in [Requests -> DocRow \cup {NoDoc}]
           /\ \A d \in Requests :
                 /\ docRow'[d] = NoDoc <=> docRow[d] = NoDoc
                 /\ docRow[d] # NoDoc => docRow'[d].seq = docRow[d].seq
                                       /\ docRow'[d].value = docRow[d].value
  <2>1. HeldNumbers'
    BY <1>1, <1>3 DEF HeldNumbers, NumberInv, TypeOK, Creates
  <2>2. UncommittedRows'
    <3>1. ASSUME NEW q \in Requests, ~Creates(q), docW'[q] # NoDoc
          PROVE  /\ docRow'[input[q].doc] # NoDoc
                 /\ docW'[q].seq = docRow'[input[q].doc].seq
                 /\ docW'[q].value = docRow'[input[q].doc].value
      <4>1. q # r /\ docW'[q] = docW[q]
        BY <1>1, <3>1 DEF TypeOK
      <4>2. pc[q] \notin {"idle", "done"} /\ input[q].doc \in Requests
        BY <3>1, <4>1, Kinds DEF NumberInv, UncommittedRows, InTx, InputInv, Creates
      <4>. QED  BY <1>3, <3>1, <4>1, <4>2 DEF NumberInv, UncommittedRows
    <3>. QED  BY <1>1, <1>3, <3>1 DEF UncommittedRows, NumberInv, TypeOK, Creates, InTx
  <2>3. CreatedWhenDone'
    BY <1>1, <1>3 DEF CreatedWhenDone, NumberInv, TypeOK, Creates
  <2>4. \A s \in NumberSequences : Registered(s)' = Registered(s)
    BY <1>3 DEF Registered
  <2>5. GaplessNumbers'
    BY <1>3, <2>4 DEF GaplessNumbers, NumberInv, Registered
  <2>6. CounterGrows'
    BY <1>3 DEF CounterGrows, NumberInv
  <2>. QED  BY <2>1, <2>2, <2>3, <2>5, <2>6 DEF NumberInv
<1>. QED  BY <1>2, <1>3, CommitEffect

LEMMA StepNumbers ==
    ASSUME TypeOK, InputInv, NumberInv, NEW r \in Requests, Step(r)
    PROVE  NumberInv'
<1>1. CASE BeginTx(r)
  <2>1. /\ pc[r] = "begin"
        /\ pc' = [pc EXCEPT ![r] = IF Creates(r) THEN "number" ELSE "fields"]
        /\ UNCHANGED <<seqRow, docRow, num, docW, input>>
    BY <1>1 DEF BeginTx, tables
  <2>. QED  BY <2>1, MoveNumbers
<1>2. CASE NextNumber(r)
  <2>1. CASE Rollback(r, "failed")
    BY <2>1, RollbackNumbers
  <2>2. CASE ~Rollback(r, "failed")
    <3>1. /\ input[r].seq \in NumberSequences
          /\ pc[r] = "number"
          /\ \A q \in Requests : ~HoldsSequence(q, input[r].seq)
          /\ num' = [num EXCEPT ![r] = seqRow[input[r].seq] + 1]
          /\ pc' = [pc EXCEPT ![r] = "insert"]
          /\ UNCHANGED <<seqRow, docRow, docW, input>>
      BY <1>2, <2>2 DEF NextNumber, tables
    <3>2. Creates(r) /\ docW[r] = NoDoc
      BY <3>1 DEF InputInv, NumberInv, UncommittedRows, HeldNumbers
    <3>3. seqRow[input[r].seq] + 1 # 0
      BY <3>1 DEF TypeOK
    <3>4. HeldNumbers'
      BY <3>1, <3>2, <3>3 DEF HeldNumbers, HoldsSequence, NumberInv, TypeOK, Creates
    <3>5. UncommittedRows'
      BY <3>1, <3>2 DEF UncommittedRows, NumberInv, TypeOK, Creates, InTx
    <3>6. CreatedWhenDone'
      BY <3>1 DEF CreatedWhenDone, NumberInv, TypeOK, Creates
    <3>7. GaplessNumbers' /\ CounterGrows'
      BY <3>1 DEF GaplessNumbers, Registered, CounterGrows, NumberInv
    <3>. QED  BY <3>4, <3>5, <3>6, <3>7 DEF NumberInv
  <2>. QED  BY <2>1, <2>2
<1>3. CASE InsertDocument(r)
  <2>1. CASE Rollback(r, "failed") \/ Rollback(r, "duplicate")
    BY <2>1, RollbackNumbers
  <2>2. CASE ~(Rollback(r, "failed") \/ Rollback(r, "duplicate"))
    <3>1. /\ pc[r] = "insert"
          /\ docW' = [docW EXCEPT ![r] = NewDocument(r)]
          /\ pc' = [pc EXCEPT ![r] = "signers"]
          /\ UNCHANGED <<seqRow, docRow, num, input>>
      BY <1>3, <2>2 DEF InsertDocument, tables
    <3>2. Creates(r)
      BY <3>1 DEF InputInv
    <3>3. /\ NewDocument(r).seq = input[r].seq
          /\ NewDocument(r).value = num[r]
      BY DEF NewDocument
    <3>4. HeldNumbers'
      BY <3>1, <3>2 DEF HeldNumbers, NumberInv, TypeOK, Creates
    <3>5. UncommittedRows'
      <4>1. NewDocument(r) # NoDoc
        BY <3>1, NewDocumentType
      <4>. QED  BY <3>1, <3>2, <3>3, <4>1 DEF UncommittedRows, NumberInv, TypeOK, Creates, InTx
    <3>6. CreatedWhenDone'
      BY <3>1 DEF CreatedWhenDone, NumberInv, TypeOK, Creates
    <3>7. GaplessNumbers' /\ CounterGrows'
      BY <3>1 DEF GaplessNumbers, Registered, CounterGrows, NumberInv
    <3>. QED  BY <3>4, <3>5, <3>6, <3>7 DEF NumberInv
  <2>. QED  BY <2>1, <2>2
<1>4. CASE InsertDocumentSigners(r)
  <2>1. CASE Rollback(r, "failed")
    BY <2>1, RollbackNumbers
  <2>2. CASE ~Rollback(r, "failed")
    <3>1. /\ pc[r] = "signers"
          /\ pc' = [pc EXCEPT ![r] = "commit"]
          /\ UNCHANGED <<seqRow, docRow, num, docW, input>>
      BY <1>4, <2>2 DEF InsertDocumentSigners, tables
    <3>2. docW[r] # NoDoc
      BY <3>1 DEF InputInv, NumberInv, UncommittedRows
    <3>. QED  BY <3>1, <3>2, MoveNumbers
  <2>. QED  BY <2>1, <2>2
<1>5. CASE UpdateDocumentFields(r)
  <2>0. pc[r] = "fields" /\ ~Creates(r) /\ InTx(r)
    BY <1>5 DEF UpdateDocumentFields, InputInv, InTx
  <2>1. CASE Rollback(r, "not_found")
    BY <2>1, RollbackNumbers
  <2>2. CASE /\ pc' = [pc EXCEPT ![r] = "marks"]
             /\ UNCHANGED <<tables, clock, input, txVars, seen, answer>>
    BY <2>0, <2>2, MoveNumbers DEF tables, txVars
  <2>3. CASE /\ docRow[input[r].doc] # NoDoc
             /\ docW' = [docW EXCEPT ![r] =
                    Stamped(docRow[input[r].doc], input[r].status, start[r])]
             /\ pc' = [pc EXCEPT ![r] = "marks"]
             /\ UNCHANGED <<tables, clock, input, start, num, signW, mark, seen, answer>>
    <3> DEFINE row == Stamped(docRow[input[r].doc], input[r].status, start[r])
    <3>1. input[r] \in UpdateInputs /\ ValidUpdate(input[r])
      BY <2>0, Kinds DEF InputInv, Creates
    <3>2. docRow[input[r].doc] \in DocRow
      BY <2>3, <3>1, Kinds DEF TypeOK
    <3>3. /\ row \in DocRow
          /\ row.seq = docRow[input[r].doc].seq
          /\ row.value = docRow[input[r].doc].value
      <4>1. input[r].status \in Statuses \cup {"keep"} /\ start[r] \in Nat
        BY <3>1 DEF TypeOK, ValidUpdate
      <4>. QED  BY <3>2, <4>1, StampedType
    <3>4. /\ docW' = [docW EXCEPT ![r] = row]
          /\ pc' = [pc EXCEPT ![r] = "marks"]
          /\ UNCHANGED <<seqRow, docRow, num, input>>
      BY <2>3 DEF tables
    <3> HIDE DEF row
    <3>5. HeldNumbers'
      BY <2>0, <3>4 DEF HeldNumbers, NumberInv, TypeOK, Creates
    <3>6. UncommittedRows'
      BY <2>0, <2>3, <3>3, <3>4 DEF UncommittedRows, NumberInv, TypeOK, Creates, InTx
    <3>7. CreatedWhenDone'
      BY <2>0, <3>4 DEF CreatedWhenDone, NumberInv, TypeOK, Creates
    <3>8. GaplessNumbers' /\ CounterGrows'
      BY <3>4 DEF GaplessNumbers, Registered, CounterGrows, NumberInv
    <3>. QED  BY <3>5, <3>6, <3>7, <3>8 DEF NumberInv
  <2>. QED  BY <1>5, <2>1, <2>2, <2>3 DEF UpdateDocumentFields
<1>6. CASE UpdateSignerStatus(r)
  <2>1. CASE Rollback(r, "failed")
    BY <2>1, RollbackNumbers
  <2>2. CASE ~Rollback(r, "failed")
    <3>1. pc[r] = "marks" /\ UNCHANGED <<seqRow, docRow, num, docW, input, pc>>
      BY <1>6, <2>2 DEF UpdateSignerStatus, tables
    <3>2. pc' = [pc EXCEPT ![r] = "marks"]
      BY <3>1 DEF TypeOK
    <3>. QED  BY <3>1, <3>2, MoveNumbers DEF InputInv, InTx
  <2>. QED  BY <2>1, <2>2
<1>7. CASE SignersUpdated(r)
  BY <1>7, MoveNumbers DEF SignersUpdated, tables, txVars, InputInv, InTx
<1>8. CASE GetDocumentTx(r)
  <2>1. CASE Rollback(r, "not_found")
    BY <2>1, RollbackNumbers
  <2>2. CASE ~Rollback(r, "not_found")
    BY <1>8, <2>2, MoveNumbers DEF GetDocumentTx, tables, txVars, InputInv, InTx
  <2>. QED  BY <2>1, <2>2
<1>9. CASE DeadlockVictim(r)
  BY <1>9, RollbackNumbers DEF DeadlockVictim
<1>10. CASE Commit(r, "ok")
  BY <1>10, CommitNumbers
<1>. QED  BY <1>1, <1>2, <1>3, <1>4, <1>5, <1>6, <1>7, <1>8, <1>9, <1>10 DEF Step

\* A body that arrives: nothing is held yet, whatever it asks for.
LEMMA ReceiveNumbers ==
    ASSUME TypeOK, InputInv, NumberInv, NEW r \in Requests,
           NEW i \in CreateInputs \cup UpdateInputs, Receive(r, i)
    PROVE  NumberInv'
<1>1. /\ pc[r] = "idle"
      /\ input' = [input EXCEPT ![r] = i]
      /\ \E p \in {"begin", "done"} : pc' = [pc EXCEPT ![r] = p]
      /\ UNCHANGED <<seqRow, docRow, num, docW>>
  BY DEF Receive, tables, txVars
<1>2. num[r] = 0 /\ docW[r] = NoDoc /\ docRow[r] = NoDoc
  BY <1>1 DEF NumberInv, HeldNumbers, UncommittedRows, CreatedWhenDone, InTx
<1>3. HeldNumbers'
  BY <1>1, <1>2 DEF HeldNumbers, NumberInv, TypeOK, Creates
<1>4. UncommittedRows'
  BY <1>1, <1>2 DEF UncommittedRows, NumberInv, TypeOK, Creates, InTx
<1>5. CreatedWhenDone'
  BY <1>1, <1>2 DEF CreatedWhenDone, NumberInv, TypeOK, Creates
<1>6. GaplessNumbers' /\ CounterGrows'
  BY <1>1 DEF GaplessNumbers, Registered, CounterGrows, NumberInv
<1>. QED  BY <1>3, <1>4, <1>5, <1>6 DEF NumberInv

LEMMA NextNumbers == TypeOK /\ InputInv /\ NumberInv /\ [Next]_vars => NumberInv'
<1> SUFFICES ASSUME TypeOK, InputInv, NumberInv, [Next]_vars
             PROVE  NumberInv'
  OBVIOUS
<1>1. CASE UNCHANGED vars
  <2>1. UNCHANGED <<seqRow, docRow, num, docW, input, pc>>
    BY <1>1 DEF vars, tables, txVars
  <2>. QED  BY <2>1 DEF NumberInv, HeldNumbers, UncommittedRows, CreatedWhenDone,
                       CounterGrows, GaplessNumbers, Registered, Creates, InTx
<1>2. ASSUME NEW r \in Requests, Commit(r, "lost")
      PROVE  NumberInv'
  BY <1>2, CommitNumbers
<1>3. ASSUME NEW r \in Requests, Disconnect(r)
      PROVE  NumberInv'
  BY <1>3, RollbackNumbers DEF Disconnect
<1>. QED  BY <1>1, <1>2, <1>3, StepNumbers, ReceiveNumbers DEF Next

\* Documents of a sequence bear the values up to its counter, each once, whatever handlers
\* failed or interleaved: CreateDocument neither burns nor repeats a number.
THEOREM NumbersAreGapless == Spec => []GaplessNumbers
<1>1. Init => TypeOK /\ InputInv /\ NumberInv
  BY InitTypes, InitNumbers
<1>2. TypeOK /\ InputInv /\ NumberInv /\ [Next]_vars
          => (TypeOK /\ InputInv /\ NumberInv)'
  BY NextTypes, NextNumbers
<1>3. NumberInv => GaplessNumbers
  BY DEF NumberInv
<1>. QED  BY <1>1, <1>2, <1>3, PTL DEF Spec

-------------------------------------------------------------------------------
(* No number is refused, where every sequence has a prefix of its own. *)

LEMMA NextAnswers ==
    ASSUME \A s, t \in NumberSequences : Prefix[s] = Prefix[t] => s = t,
           TypeOK, InputInv, NumberInv, NoNumberRefused, [Next]_vars
    PROVE  NoNumberRefused'
<1>1. ASSUME NEW r \in Requests, NEW reply, reply # "duplicate",
             answer' = [answer EXCEPT ![r] = reply]
      PROVE  NoNumberRefused'
  BY <1>1 DEF NoNumberRefused, TypeOK
<1>2. CASE UNCHANGED answer
  BY <1>2 DEF NoNumberRefused
<1>3. ASSUME NEW r \in Requests, InsertDocument(r), Rollback(r, "duplicate")
      PROVE  FALSE
  <2>1. /\ pc[r] = "insert" /\ Creates(r) /\ input[r].seq \in NumberSequences
        /\ num[r] = seqRow[input[r].seq] + 1
    BY <1>3 DEF InsertDocument, InputInv, NumberInv, HeldNumbers
  <2>2. PICK d \in Requests :
            docRow[d] # NoDoc /\ Number(docRow[d]) = Number(NewDocument(r))
    <3>1. answer'[r] = "duplicate"
      BY <1>3 DEF Rollback, Finish, TypeOK
    <3>2. CASE ~\E d \in Requests :
                  docRow[d] # NoDoc /\ Number(docRow[d]) = Number(NewDocument(r))
      <4>1. Rollback(r, "failed") \/ UNCHANGED answer
        BY <1>3, <3>2 DEF InsertDocument
      <4>2. answer'[r] # "duplicate"
        BY <2>1, <4>1 DEF Rollback, Finish, TypeOK, NoNumberRefused
      <4>. QED  BY <3>1, <4>2
    <3>. QED  BY <3>2
  <2>3. docRow[d] \in DocRow
    BY <2>2 DEF TypeOK
  <2>4. /\ Prefix[docRow[d].seq] = Prefix[input[r].seq]
        /\ docRow[d].value = num[r]
    BY <2>2 DEF Number, NewDocument
  <2>5. docRow[d].seq = input[r].seq
    BY <2>1, <2>3, <2>4 DEF DocRow
  <2>6. docRow[d].value \in FirstFree[input[r].seq] + 1 .. seqRow[input[r].seq]
    BY <2>1, <2>2, <2>5 DEF NumberInv, GaplessNumbers, Registered
  <2>. QED  BY <2>1, <2>4, <2>6 DEF TypeOK
<1>4. ASSUME NEW r \in Requests, NEW reply, reply # "duplicate", Rollback(r, reply)
      PROVE  NoNumberRefused'
  BY <1>1, <1>4 DEF Rollback, Finish
<1>5. ASSUME NEW r \in Requests, NEW reply \in {"ok", "lost"}, Commit(r, reply)
      PROVE  NoNumberRefused'
  BY <1>1, <1>5 DEF Commit, Finish
<1>6. ASSUME NEW r \in Requests, Step(r)
      PROVE  NoNumberRefused'
  <2>1. CASE BeginTx(r) \/ SignersUpdated(r)
    BY <1>2, <2>1 DEF BeginTx, SignersUpdated
  <2>2. CASE NextNumber(r)
    BY <1>2, <1>4, <2>2 DEF NextNumber
  <2>3. CASE InsertDocument(r)
    BY <1>2, <1>3, <1>4, <2>3 DEF InsertDocument
  <2>4. CASE InsertDocumentSigners(r)
    BY <1>2, <1>4, <2>4 DEF InsertDocumentSigners
  <2>5. CASE UpdateDocumentFields(r)
    BY <1>2, <1>4, <2>5 DEF UpdateDocumentFields
  <2>6. CASE UpdateSignerStatus(r)
    BY <1>2, <1>4, <2>6 DEF UpdateSignerStatus
  <2>7. CASE GetDocumentTx(r)
    BY <1>2, <1>4, <2>7 DEF GetDocumentTx
  <2>8. CASE DeadlockVictim(r) \/ Commit(r, "ok")
    BY <1>4, <1>5, <2>8 DEF DeadlockVictim
  <2>. QED  BY <1>6, <2>1, <2>2, <2>3, <2>4, <2>5, <2>6, <2>7, <2>8 DEF Step
<1>7. ASSUME NEW r \in Requests, NEW i \in CreateInputs \cup UpdateInputs, Receive(r, i)
      PROVE  NoNumberRefused'
  BY <1>1, <1>2, <1>7 DEF Receive
<1>8. CASE UNCHANGED vars
  BY <1>2, <1>8 DEF vars
<1>. QED  BY <1>4, <1>5, <1>6, <1>7, <1>8 DEF Next, Disconnect

\* While no two sequences share a prefix, UNIQUE (number) never refuses a document.
THEOREM OwnPrefixesSuffice ==
    ASSUME \A s, t \in NumberSequences : Prefix[s] = Prefix[t] => s = t
    PROVE  Spec => []NoNumberRefused
<1>1. Init => TypeOK /\ InputInv /\ NumberInv /\ NoNumberRefused
  BY InitTypes, InitNumbers DEF Init, NoNumberRefused
<1>2. TypeOK /\ InputInv /\ NumberInv /\ NoNumberRefused /\ [Next]_vars
          => (TypeOK /\ InputInv /\ NumberInv /\ NoNumberRefused)'
  BY NextTypes, NextNumbers, NextAnswers
<1>. QED  BY <1>1, <1>2, PTL DEF Spec

-------------------------------------------------------------------------------
(* The program implements NumberRegister. *)

Register == {[doc |-> d, seq |-> docRow[d].seq, value |-> docRow[d].value] :
                 d \in {e \in Requests : docRow[e] # NoDoc}}

\* Only a commit touches counters and documents.
LEMMA OnlyCommits ==
    ASSUME [Next]_vars
    PROVE  \/ UNCHANGED <<seqRow, docRow>>
           \/ \E r \in Requests, reply \in {"ok", "lost"} : Commit(r, reply)
<1>1. ASSUME NEW r \in Requests, Step(r), ~Commit(r, "ok")
      PROVE  UNCHANGED <<seqRow, docRow>>
  BY <1>1 DEF Step, BeginTx, NextNumber, InsertDocument, InsertDocumentSigners,
              UpdateDocumentFields, UpdateSignerStatus, SignersUpdated, GetDocumentTx,
              DeadlockVictim, Rollback, tables
<1>2. ASSUME NEW r \in Requests, NEW i, Receive(r, i) \/ Disconnect(r)
      PROVE  UNCHANGED <<seqRow, docRow>>
  BY <1>2 DEF Receive, Disconnect, Rollback, tables
<1>3. CASE UNCHANGED vars
  BY <1>3 DEF vars, tables
<1>. QED  BY <1>1, <1>2, <1>3 DEF Next

\* The commit of a create issues the next number, that of an update stutters.
LEMMA CommitIssues ==
    ASSUME TypeOK, InputInv, NumberInv, NEW r \in Requests, NEW reply, Commit(r, reply)
    PROVE  \/ Register' = Register /\ seqRow' = seqRow
           \/ \E s \in NumberSequences :
                 /\ \A e \in Register : e.doc # r
                 /\ seqRow' = [seqRow EXCEPT ![s] = @ + 1]
                 /\ Register' = Register \cup {[doc |-> r, seq |-> s, value |-> seqRow[s] + 1]}
<1>1. CASE /\ Creates(r) /\ docRow[r] = NoDoc
           /\ input[r].seq \in NumberSequences
           /\ docW[r] \in DocRow
           /\ docW[r].seq = input[r].seq
           /\ docW[r].value = seqRow[input[r].seq] + 1
           /\ docRow' = [docRow EXCEPT ![r] = docW[r]]
           /\ seqRow' = [seqRow EXCEPT ![input[r].seq] = docW[r].value]
  <2>1. \A d \in Requests : d # r => docRow'[d] = docRow[d]
    BY <1>1 DEF TypeOK
  <2>2. docRow'[r] = docW[r] /\ docRow'[r] # NoDoc
    BY <1>1 DEF TypeOK
  <2>3. \A e \in Register : e.doc # r
    BY <1>1 DEF Register
  <2>4. Register' = Register \cup {[doc |-> r, seq |-> input[r].seq,
                                   value |-> seqRow[input[r].seq] + 1]}
    <3> DEFINE new == [doc |-> r, seq |-> docRow'[r].seq, value |-> docRow'[r].value]
    <3>1. ASSUME NEW e \in Register'
          PROVE  e \in Register \cup {new}
      BY <2>1 DEF Register
    <3>2. ASSUME NEW e \in Register
          PROVE  e \in Register'
      <4>1. PICK d \in Requests :
                /\ docRow[d] # NoDoc
                /\ e = [doc |-> d, seq |-> docRow[d].seq, value |-> docRow[d].value]
        BY DEF Register
      <4>2. d # r
        BY <1>1, <4>1
      <4>. QED  BY <2>1, <4>1, <4>2 DEF Register
    <3>3. new \in Register'
      BY <2>2 DEF Register
    <3>4. new = [doc |-> r, seq |-> input[r].seq, value |-> seqRow[input[r].seq] + 1]
      BY <1>1, <2>2
    <3>. QED  BY <3>1, <3>2, <3>3, <3>4
  <2>. QED  BY <1>1, <2>3, <2>4
<1>2. CASE /\ ~Creates(r)
           /\ seqRow' = seqRow
           /\ docRow' \in [Requests -> DocRow \cup {NoDoc}]
           /\ \A d \in Requests :
                 /\ docRow'[d] = NoDoc <=> docRow[d] = NoDoc
                 /\ docRow[d] # NoDoc => docRow'[d].seq = docRow[d].seq
                                       /\ docRow'[d].value = docRow[d].value
  <2>1. {e \in Requests : docRow'[e] # NoDoc} = {e \in Requests : docRow[e] # NoDoc}
    BY <1>2
  <2>2. Register' = Register
    BY <1>2, <2>1 DEF Register
  <2>. QED  BY <1>2, <2>2
<1>. QED  BY <1>1, <1>2, CommitEffect

\* Every behaviour of the program, with its failures, deadlocks and interleavings, is one
\* of the register that gives out the next number of a sequence in a single step.
THEOREM Refinement == Spec => ImplementsRegister
<1>1. Init => Numbers!Init
  BY DEF Init, Numbers!Init
<1>2. TypeOK /\ InputInv /\ NumberInv /\ [Next]_vars => [Numbers!Next]_(Numbers!vars)
  <2> SUFFICES ASSUME TypeOK, InputInv, NumberInv, [Next]_vars
               PROVE  [Numbers!Next]_(Numbers!vars)
    OBVIOUS
  <2>1. CASE UNCHANGED <<seqRow, docRow>>
    BY <2>1 DEF Numbers!vars
  <2>2. ASSUME NEW r \in Requests, NEW reply \in {"ok", "lost"}, Commit(r, reply)
        PROVE  [Numbers!Next]_(Numbers!vars)
    <3>1. CASE Register' = Register /\ seqRow' = seqRow
      BY <3>1 DEF Register, Numbers!vars
    <3>2. CASE \E s \in NumberSequences :
                 /\ \A e \in Register : e.doc # r
                 /\ seqRow' = [seqRow EXCEPT ![s] = @ + 1]
                 /\ Register' = Register \cup {[doc |-> r, seq |-> s, value |-> seqRow[s] + 1]}
      BY <3>2 DEF Register, Numbers!Next, Numbers!Issue
    <3>. QED  BY <2>2, <3>1, <3>2, CommitIssues
  <2>. QED  BY <2>1, <2>2, OnlyCommits
<1>3. Init => TypeOK /\ InputInv /\ NumberInv
  BY InitTypes, InitNumbers
<1>4. TypeOK /\ InputInv /\ NumberInv /\ [Next]_vars
          => (TypeOK /\ InputInv /\ NumberInv)'
  BY NextTypes, NextNumbers
<1>. QED  BY <1>1, <1>2, <1>3, <1>4, PTL DEF Spec, ImplementsRegister, Numbers!Spec

-------------------------------------------------------------------------------
(* What a request is answered with, and the timestamps it leaves. *)

\* The timestamps of a row fit its status (the two halves of StampsMatchStatus).
StampsFit(row) ==
    /\ row.status = "issued" => row.issued # 0 /\ row.signed = 0 /\ row.archived = 0
    /\ row.status = "signed" => row.archived = 0
    /\ row.status = "draft" => row.signed = 0 /\ row.archived = 0

SignerStampsFit(signers) ==
    \A g \in Signers :
        /\ signers[g].status = "signed" => signers[g].at # 0
        /\ signers[g].status \in {"pending", "none"} => signers[g].at = 0

\* Of the entries of r before the n-th, the last about a signer is in r's writes.
Marked(r, n) ==
    \A g \in Signers, k \in DOMAIN input[r].marks :
        (/\ k < n /\ input[r].marks[k].signer = g
         /\ \A l \in DOMAIN input[r].marks : k < l /\ l < n => input[r].marks[l].signer # g)
        => signW[r][g].status = input[r].marks[k].status

\* The signers r was given are the ones a response shows.
Shown(r) ==
    \A g \in Signers, status \in SignerStatuses : LastMark(r, g, status) => seen[r][g] = status

\* Signer g is listed in the body of a create.
Listed(r, g) == \E k \in DOMAIN input[r].signers : input[r].signers[k] = g

\* What a create has written, by the step it stands at, is what its body asks for.
CreateHeld(r) ==
    /\ pc[r] \in {"signers", "commit"} => docW[r].status = InitialStatus(input[r])
    /\ pc[r] = "commit" => \A g \in Signers :
          /\ Listed(r, g) => signW[r][g] = [status |-> "pending", at |-> 0]
          /\ ~Listed(r, g) => signW[r][g] = NoSigner

\* And so for an update: once its fields are written, and its entries up to mark.
UpdateHeld(r) ==
    /\ pc[r] \in {"marks", "read", "commit"} =>
          /\ Marked(r, mark[r])
          /\ input[r].status # "keep" => docW[r] # NoDoc /\ docW[r].status = input[r].status
    /\ pc[r] \in {"read", "commit"} => mark[r] \notin DOMAIN input[r].marks
    /\ pc[r] = "commit" =>
          /\ docRow[input[r].doc] # NoDoc
          /\ Site[r] = "docs" => Shown(r)

\* What r has written fits to be committed, and what it answered was so.
Held(r) ==
    /\ InTx(r) => start[r] # 0
    /\ docW[r] # NoDoc => StampsFit(docW[r])
    /\ SignerStampsFit(signW[r])
    /\ pc[r] \in {"idle", "begin", "fields"} => mark[r] = 1
    /\ answer[r] = "ok" => pc[r] = "done"
    /\ Creates(r) => CreateHeld(r)
    /\ ~Creates(r) => UpdateHeld(r)
    /\ Site[r] = "docs" => ShowsUpdate(r)

\* Committed rows: their timestamps fit, and signers are those of a document.
RowsFit ==
    \A d \in Requests :
        /\ docRow[d] # NoDoc => StampsFit(docRow[d])
        /\ SignerStampsFit(signRow[d])
        /\ docRow[d] = NoDoc => signRow[d] = NoSigners

UpdateInv == RowsFit /\ \A r \in Requests : Held(r)

\* A step of r is its own: nothing another handler holds changes.
Others(r) ==
    \A q \in Requests \ {r} :
        /\ pc'[q] = pc[q] /\ input'[q] = input[q] /\ start'[q] = start[q]
        /\ mark'[q] = mark[q] /\ docW'[q] = docW[q] /\ signW'[q] = signW[q]
        /\ seen'[q] = seen[q] /\ answer'[q] = answer[q]

DocumentsStay == \A d \in Requests : docRow[d] # NoDoc => docRow'[d] # NoDoc

LEMMA InitHeld == Init => UpdateInv
<1> SUFFICES ASSUME Init PROVE UpdateInv
  OBVIOUS
<1>1. /\ \A r \in Requests : /\ pc[r] = "idle" /\ docW[r] = NoDoc /\ mark[r] = 1
                             /\ signW[r] = NoSigners /\ answer[r] = "none"
                             /\ docRow[r] = NoDoc /\ signRow[r] = NoSigners
  BY DEF Init
<1>2. SignerStampsFit(NoSigners)
  BY DEF SignerStampsFit, NoSigners, NoSigner
<1>3. RowsFit
  BY <1>1, <1>2 DEF RowsFit
<1>4. ASSUME NEW r \in Requests PROVE Held(r)
  BY <1>1, <1>2 DEF Held, InTx, CreateHeld, UpdateHeld, ShowsUpdate
<1>. QED  BY <1>3, <1>4 DEF UpdateInv

LEMMA OthersHeld ==
    ASSUME InputInv, NEW r \in Requests, Others(r), DocumentsStay,
           NEW q \in Requests \ {r}, Held(q)
    PROVE  Held(q)'
<1>1. /\ pc'[q] = pc[q] /\ input'[q] = input[q] /\ start'[q] = start[q]
      /\ mark'[q] = mark[q] /\ docW'[q] = docW[q] /\ signW'[q] = signW[q]
      /\ seen'[q] = seen[q] /\ answer'[q] = answer[q]
  BY DEF Others
<1>2. (Creates(q)' <=> Creates(q)) /\ (InTx(q)' <=> InTx(q))
  BY <1>1 DEF Creates, InTx
<1>3. CreateHeld(q) => CreateHeld(q)'
  <2>1. \A g \in Signers : Listed(q, g)' <=> Listed(q, g)
    BY <1>1 DEF Listed
  <2>. QED  BY <1>1, <2>1 DEF CreateHeld, InitialStatus
<1>4. Marked(q, mark[q]) => Marked(q, mark[q])'
  BY <1>1 DEF Marked
<1>5. Shown(q) => Shown(q)'
  BY <1>1 DEF Shown, LastMark
<1>6. ~Creates(q) /\ pc[q] = "commit" => input[q].doc \in Requests
  BY Kinds DEF InputInv, Creates
<1>7. ~Creates(q) /\ UpdateHeld(q) => UpdateHeld(q)'
  BY <1>1, <1>4, <1>5, <1>6 DEF UpdateHeld, DocumentsStay
<1>8. SignerStampsFit(signW[q]) => SignerStampsFit(signW[q])'
  BY <1>1 DEF SignerStampsFit
<1>9. ShowsUpdate(q) => ShowsUpdate(q)'
  BY <1>1 DEF ShowsUpdate, LastMark, Creates
<1>10. StampsFit(docW[q]) => StampsFit(docW[q])'
  BY <1>1 DEF StampsFit
<1>. QED  BY <1>1, <1>2, <1>3, <1>7, <1>8, <1>9, <1>10 DEF Held

\* It is enough to look at the handler that steps and at the rows.
LEMMA OneHeld ==
    ASSUME InputInv, UpdateInv, NEW r \in Requests, Others(r), DocumentsStay, Held(r)', RowsFit'
    PROVE  UpdateInv'
BY OthersHeld DEF UpdateInv

LEMMA QuietHeld ==
    ASSUME InputInv, UpdateInv, NEW r \in Requests, Others(r), UNCHANGED tables, Held(r)'
    PROVE  UpdateInv'
<1>1. UNCHANGED docRow /\ UNCHANGED signRow
  BY DEF tables
<1>2. RowsFit'
  BY <1>1 DEF UpdateInv, RowsFit, StampsFit, SignerStampsFit
<1>. QED  BY <1>1, <1>2, OneHeld DEF DocumentsStay

\* A transaction that is over holds nothing.
LEMMA FinishHeld ==
    ASSUME TypeOK, NEW r \in Requests, NEW reply, Finish(r, reply), UNCHANGED seen,
           reply = "ok" /\ ~Creates(r) /\ Site[r] = "docs" => Shown(r)
    PROVE  Others(r) /\ Held(r)'
<1>1. /\ pc' = [pc EXCEPT ![r] = "done"] /\ answer' = [answer EXCEPT ![r] = reply]
      /\ start' = [start EXCEPT ![r] = 0] /\ docW' = [docW EXCEPT ![r] = NoDoc]
      /\ signW' = [signW EXCEPT ![r] = NoSigners] /\ mark' = [mark EXCEPT ![r] = 1]
      /\ input' = input /\ seen' = seen
  BY DEF Finish
<1>2. Others(r)
  BY <1>1 DEF Others, TypeOK
<1>3. /\ pc'[r] = "done" /\ answer'[r] = reply /\ docW'[r] = NoDoc /\ signW'[r] = NoSigners
      /\ input'[r] = input[r] /\ seen'[r] = seen[r]
  BY <1>1 DEF TypeOK
<1>4. SignerStampsFit(signW[r])'
  BY <1>3 DEF SignerStampsFit, NoSigners, NoSigner
<1>5. (Site[r] = "docs" => ShowsUpdate(r))'
  BY <1>3 DEF ShowsUpdate, Shown, LastMark, Creates
<1>. QED  BY <1>2, <1>3, <1>4, <1>5 DEF Held, InTx, CreateHeld, UpdateHeld

LEMMA RollbackHeld ==
    ASSUME TypeOK, InputInv, UpdateInv, NEW r \in Requests, NEW reply, reply # "ok",
           Rollback(r, reply)
    PROVE  UpdateInv'
BY FinishHeld, QuietHeld DEF Rollback

LEMMA ReceiveHeld ==
    ASSUME TypeOK, InputInv, NumberInv, UpdateInv, NEW r \in Requests,
           NEW i \in CreateInputs \cup UpdateInputs, Receive(r, i)
    PROVE  UpdateInv'
<1>1. /\ pc[r] = "idle"
      /\ input' = [input EXCEPT ![r] = i]
      /\ \/ pc' = [pc EXCEPT ![r] = "begin"] /\ UNCHANGED answer
         \/ pc' = [pc EXCEPT ![r] = "done"] /\ answer' = [answer EXCEPT ![r] = "refused"]
      /\ UNCHANGED <<tables, start, docW, signW, mark, seen>>
  BY DEF Receive, txVars
<1>2. Others(r)
  BY <1>1 DEF Others, TypeOK
<1>3. /\ docW[r] = NoDoc /\ mark[r] = 1 /\ answer[r] # "ok" /\ SignerStampsFit(signW[r])
  BY <1>1 DEF NumberInv, UncommittedRows, InTx, UpdateInv, Held
<1>4. /\ pc'[r] \in {"begin", "done"} /\ answer'[r] # "ok"
  BY <1>1, <1>3 DEF TypeOK
<1>5. SignerStampsFit(signW[r])'
  BY <1>1, <1>3 DEF SignerStampsFit
<1>6. Held(r)'
  BY <1>1, <1>3, <1>4, <1>5 DEF Held, InTx, CreateHeld, UpdateHeld, ShowsUpdate
<1>. QED  BY <1>1, <1>2, <1>6, QuietHeld

LEMMA BeginTxHeld ==
    ASSUME TypeOK, InputInv, NumberInv, UpdateInv, NEW r \in Requests, BeginTx(r)
    PROVE  UpdateInv'
<1>1. /\ pc[r] = "begin"
      /\ pc' = [pc EXCEPT ![r] = IF Creates(r) THEN "number" ELSE "fields"]
      /\ start' = [start EXCEPT ![r] = clock + 1]
      /\ UNCHANGED <<tables, input, docW, signW, mark, seen, answer>>
  BY DEF BeginTx
<1>2. Others(r)
  BY <1>1 DEF Others, TypeOK
<1>3. docW[r] = NoDoc /\ mark[r] = 1 /\ answer[r] # "ok" /\ SignerStampsFit(signW[r])
  BY <1>1 DEF NumberInv, UncommittedRows, InTx, UpdateInv, Held
<1>4. pc'[r] \in {"number", "fields"} /\ start'[r] # 0
  BY <1>1 DEF TypeOK
<1>5. SignerStampsFit(signW[r])'
  BY <1>1, <1>3 DEF SignerStampsFit
<1>6. Held(r)'
  BY <1>1, <1>3, <1>4, <1>5 DEF Held, InTx, CreateHeld, UpdateHeld, ShowsUpdate
<1>. QED  BY <1>1, <1>2, <1>6, QuietHeld

LEMMA NextNumberHeld ==
    ASSUME TypeOK, InputInv, NumberInv, UpdateInv, NEW r \in Requests, NextNumber(r)
    PROVE  UpdateInv'
<1>1. CASE Rollback(r, "failed")
  BY <1>1, RollbackHeld
<1>2. CASE ~Rollback(r, "failed")
  <2>1. /\ pc[r] = "number" /\ pc' = [pc EXCEPT ![r] = "insert"]
        /\ UNCHANGED <<tables, input, start, docW, signW, mark, seen, answer>>
    BY <1>2 DEF NextNumber
  <2>2. Others(r) /\ pc'[r] = "insert"
    BY <2>1 DEF Others, TypeOK
  <2>3. docW[r] = NoDoc /\ Creates(r)
    BY <2>1 DEF NumberInv, UncommittedRows, InputInv
  <2>4. Held(r)
    BY DEF UpdateInv
  <2>5. Held(r)'
    BY <2>1, <2>2, <2>3, <2>4
       DEF Held, InTx, CreateHeld, ShowsUpdate, Creates, SignerStampsFit
  <2>. QED  BY <2>1, <2>2, <2>5, QuietHeld
<1>. QED  BY <1>1, <1>2

LEMMA InsertDocumentHeld ==
    ASSUME TypeOK, InputInv, NumberInv, UpdateInv, NEW r \in Requests, InsertDocument(r)
    PROVE  UpdateInv'
<1>1. CASE Rollback(r, "failed") \/ Rollback(r, "duplicate")
  BY <1>1, RollbackHeld
<1>2. CASE ~(Rollback(r, "failed") \/ Rollback(r, "duplicate"))
  <2>1. /\ pc[r] = "insert" /\ pc' = [pc EXCEPT ![r] = "signers"]
        /\ docW' = [docW EXCEPT ![r] = NewDocument(r)]
        /\ UNCHANGED <<tables, input, start, signW, mark, seen, answer>>
    BY <1>2 DEF InsertDocument
  <2>2. Others(r) /\ pc'[r] = "signers" /\ docW'[r] = NewDocument(r)
    BY <2>1 DEF Others, TypeOK
  <2>3. Creates(r) /\ Held(r) /\ start[r] # 0
    BY <2>1 DEF InputInv, UpdateInv, Held, InTx
  <2>4. NewDocument(r).status = InitialStatus(input[r]) /\ StampsFit(NewDocument(r))
    BY <2>3 DEF NewDocument, StampsFit
  <2>5. StampsFit(docW[r])' /\ CreateHeld(r)'
    BY <2>1, <2>2, <2>4 DEF StampsFit, CreateHeld, InitialStatus
  <2>6. Held(r)'
    BY <2>1, <2>2, <2>3, <2>5 DEF Held, InTx, ShowsUpdate, Creates, SignerStampsFit
  <2>. QED  BY <2>1, <2>2, <2>6, QuietHeld
<1>. QED  BY <1>1, <1>2

LEMMA InsertDocumentSignersHeld ==
    ASSUME TypeOK, InputInv, NumberInv, UpdateInv, NEW r \in Requests,
           InsertDocumentSigners(r)
    PROVE  UpdateInv'
<1>1. CASE Rollback(r, "failed")
  BY <1>1, RollbackHeld
<1>2. CASE ~Rollback(r, "failed")
  <2> DEFINE new == [g \in Signers |->
                         IF \E k \in DOMAIN input[r].signers : input[r].signers[k] = g
                         THEN [status |-> "pending", at |-> 0]
                         ELSE NoSigner]
  <2>1. /\ pc[r] = "signers" /\ pc' = [pc EXCEPT ![r] = "commit"]
        /\ signW' = [signW EXCEPT ![r] = new]
        /\ seen' = [seen EXCEPT ![r] = SignerStatusOf(signW'[r])]
        /\ UNCHANGED <<tables, input, start, docW, mark, answer>>
    BY <1>2 DEF InsertDocumentSigners
  <2>2. Others(r) /\ pc'[r] = "commit" /\ signW'[r] = new
    BY <2>1 DEF Others, TypeOK
  <2>3. Creates(r) /\ Held(r)
    BY <2>1 DEF InputInv, UpdateInv
  <2>4. SignerStampsFit(signW[r])'
    BY <2>2 DEF SignerStampsFit, NoSigner
  <2>5. CreateHeld(r)'
    <3>1. \A g \in Signers : Listed(r, g)' <=> Listed(r, g)
      BY <2>1 DEF Listed
    <3>2. \A g \in Signers : /\ Listed(r, g) => new[g] = [status |-> "pending", at |-> 0]
                             /\ ~Listed(r, g) => new[g] = NoSigner
      BY DEF Listed
    <3>3. docW'[r].status = InitialStatus(input'[r])
      BY <2>1, <2>3 DEF Held, CreateHeld, InitialStatus
    <3> HIDE DEF new
    <3>. QED  BY <2>2, <3>1, <3>2, <3>3 DEF CreateHeld
  <2>6. Held(r)'
    BY <2>1, <2>2, <2>3, <2>4, <2>5 DEF Held, InTx, ShowsUpdate, Creates, StampsFit
  <2>. QED  BY <2>1, <2>2, <2>6, QuietHeld
<1>. QED  BY <1>1, <1>2

\* A new status leaves timestamps that fit it, where the old ones did.
LEMMA StampedFits ==
    ASSUME NEW row \in DocRow, StampsFit(row),
           NEW status \in Statuses \cup {"keep"}, NEW now \in Nat \ {0}
    PROVE  /\ StampsFit(Stamped(row, status, now))
           /\ status # "keep" => Stamped(row, status, now).status = status
BY DEF Stamped, StampsFit, DocRow, Statuses

LEMMA UpdateFieldsHeld ==
    ASSUME TypeOK, InputInv, NumberInv, UpdateInv, NEW r \in Requests,
           UpdateDocumentFields(r)
    PROVE  UpdateInv'
<1>1. CASE Rollback(r, "not_found")
  BY <1>1, RollbackHeld
<1>2. CASE ~Rollback(r, "not_found")
  <2> DEFINE d == input[r].doc
  <2>1. /\ pc[r] = "fields" /\ pc' = [pc EXCEPT ![r] = "marks"]
        /\ UNCHANGED <<tables, input, start, signW, mark, seen, answer>>
        /\ \/ input[r].status = "keep" /\ docW' = docW
           \/ /\ docRow[d] # NoDoc
              /\ docW' = [docW EXCEPT ![r] = Stamped(docRow[d], input[r].status, start[r])]
    BY <1>2 DEF UpdateDocumentFields, txVars
  <2>2. Others(r) /\ pc'[r] = "marks"
    BY <2>1 DEF Others, TypeOK
  <2>3. /\ ~Creates(r) /\ Held(r) /\ input[r] \in UpdateInputs /\ ValidUpdate(input[r])
        /\ d \in Requests
    BY <2>1, Kinds DEF InputInv, UpdateInv, Creates
  <2>4. mark[r] = 1 /\ start[r] # 0 /\ start[r] \in Nat
    BY <2>1, <2>3 DEF Held, InTx, TypeOK
  <2>5. Marked(r, mark[r])'
    <3>1. DOMAIN input[r].marks = 1 .. Len(input[r].marks) /\ Len(input[r].marks) \in Nat
      BY <2>3, MarksAreLists
    <3>. QED  BY <2>1, <2>4, <3>1 DEF Marked
  <2>6. /\ docW'[r] # NoDoc => StampsFit(docW'[r])
        /\ input[r].status # "keep" => docW'[r] # NoDoc /\ docW'[r].status = input[r].status
    <3>1. CASE input[r].status = "keep" /\ docW' = docW
      BY <2>3, <3>1 DEF Held
    <3>2. CASE /\ docRow[d] # NoDoc
               /\ docW' = [docW EXCEPT ![r] = Stamped(docRow[d], input[r].status, start[r])]
      <4> DEFINE new == Stamped(docRow[d], input[r].status, start[r])
      <4>1. docRow[d] \in DocRow /\ StampsFit(docRow[d])
        BY <2>3, <3>2 DEF TypeOK, UpdateInv, RowsFit
      <4>2. input[r].status \in Statuses \cup {"keep"}
        BY <2>3 DEF ValidUpdate
      <4>3. StampsFit(new) /\ (input[r].status # "keep" => new.status = input[r].status)
        BY <2>4, <4>1, <4>2, StampedFits
      <4>4. new # NoDoc
        BY <2>4, <4>1, <4>2, StampedType
      <4>5. docW'[r] = new
        BY <3>2 DEF TypeOK
      <4> HIDE DEF new
      <4>. QED  BY <4>3, <4>4, <4>5
    <3>. QED  BY <2>1, <3>1, <3>2
  <2>7. UpdateHeld(r)'
    BY <2>1, <2>2, <2>5, <2>6 DEF UpdateHeld
  <2>8. SignerStampsFit(signW[r])' /\ (docW[r] # NoDoc => StampsFit(docW[r]))'
    BY <2>1, <2>3, <2>6 DEF Held, SignerStampsFit, StampsFit
  <2>9. answer[r] # "ok"
    BY <2>1, <2>3 DEF Held
  <2>10. Held(r)'
    BY <2>1, <2>2, <2>3, <2>4, <2>7, <2>8, <2>9 DEF Held, InTx, ShowsUpdate, Creates
  <2>. QED  BY <2>1, <2>2, <2>10, QuietHeld
<1>. QED  BY <1>1, <1>2

LEMMA UpdateSignerHeld ==
    ASSUME TypeOK, InputInv, NumberInv, UpdateInv, NEW r \in Requests, UpdateSignerStatus(r)
    PROVE  UpdateInv'
<1>1. CASE Rollback(r, "failed")
  BY <1>1, RollbackHeld
<1>2. CASE ~Rollback(r, "failed")
  <2> DEFINE d == input[r].doc
             m == input[r].marks[mark[r]]
             stamp == CASE m.status = "signed"  -> start[r]
                        [] m.status = "pending" -> 0
                        [] OTHER -> Overlay(signRow[d], signW[r])[m.signer].at
  <2>1. /\ pc[r] = "marks" /\ mark[r] \in DOMAIN input[r].marks /\ m.signer \in Signers
        /\ signW' = [signW EXCEPT ![r][m.signer] = [status |-> m.status, at |-> stamp]]
        /\ mark' = [mark EXCEPT ![r] = @ + 1]
        /\ UNCHANGED <<tables, pc, input, start, docW, seen, answer>>
    BY <1>2 DEF UpdateSignerStatus
  <2>2. /\ ~Creates(r) /\ Held(r) /\ input[r] \in UpdateInputs /\ ValidUpdate(input[r])
    BY <2>1, Kinds DEF InputInv, UpdateInv, Creates
  <2>3. m.status \in SignerStatuses
    BY <2>1, <2>2 DEF ValidUpdate
  <2>4. start[r] # 0 /\ answer[r] # "ok"
    BY <2>1, <2>2 DEF Held, InTx
  <2>5. m.status = "signed" => stamp # 0
    BY <2>4
  <2>6. m.status = "pending" => stamp = 0
    OBVIOUS
  <2> HIDE DEF stamp
  <2>7. /\ Others(r) /\ mark'[r] = mark[r] + 1 /\ pc'[r] = "marks"
        /\ signW'[r] = [signW[r] EXCEPT ![m.signer] = [status |-> m.status, at |-> stamp]]
    BY <2>1 DEF Others, TypeOK
  <2>8. \A g \in Signers : signW'[r][g] = IF g = m.signer THEN [status |-> m.status, at |-> stamp]
                                                          ELSE signW[r][g]
    BY <2>1, <2>7 DEF TypeOK
  <2>9. SignerStampsFit(signW[r])'
    <3> HIDE DEF m
    <3>1. SignerStampsFit(signW[r])
      BY <2>2 DEF Held
    <3>. QED  BY <2>3, <2>5, <2>6, <2>8, <3>1 DEF SignerStampsFit, SignerStatuses
  <2>10. Marked(r, mark[r])'
    <3>1. Marked(r, mark[r])
      BY <2>1, <2>2 DEF Held, UpdateHeld
    <3>2. DOMAIN input[r].marks = 1 .. Len(input[r].marks) /\ Len(input[r].marks) \in Nat
      BY <2>2, MarksAreLists
    <3>3. mark[r] \in Nat
      BY DEF TypeOK
    <3> SUFFICES ASSUME NEW g \in Signers, NEW k \in DOMAIN input[r].marks,
                        k < mark[r] + 1, input[r].marks[k].signer = g,
                        \A l \in DOMAIN input[r].marks :
                           k < l /\ l < mark[r] + 1 => input[r].marks[l].signer # g
                 PROVE  signW'[r][g].status = input[r].marks[k].status
      BY <2>1, <2>7 DEF Marked
    <3>4. CASE k = mark[r]
      BY <2>1, <2>8, <3>4
    <3>5. CASE k # mark[r]
      <4>1. k < mark[r] /\ mark[r] < mark[r] + 1
        BY <3>2, <3>3, <3>5
      <4>2. g # m.signer
        BY <2>1, <4>1
      <4>3. \A l \in DOMAIN input[r].marks :
               k < l /\ l < mark[r] => input[r].marks[l].signer # g
        BY <3>2, <3>3
      <4>4. signW[r][g].status = input[r].marks[k].status
        BY <3>1, <4>1, <4>3 DEF Marked
      <4>. QED  BY <2>8, <4>2, <4>4
    <3>. QED  BY <3>4, <3>5
  <2>11. UpdateHeld(r)'
    BY <2>1, <2>2, <2>7, <2>10 DEF Held, UpdateHeld
  <2>12. Held(r)'
    BY <2>1, <2>2, <2>4, <2>7, <2>9, <2>11 DEF Held, InTx, ShowsUpdate, Creates, StampsFit
  <2>. QED  BY <2>1, <2>7, <2>12, QuietHeld
<1>. QED  BY <1>1, <1>2

LEMMA SignersUpdatedHeld ==
    ASSUME TypeOK, InputInv, NumberInv, UpdateInv, NEW r \in Requests, SignersUpdated(r)
    PROVE  UpdateInv'
<1>1. /\ pc[r] = "marks" /\ mark[r] \notin DOMAIN input[r].marks
      /\ pc' = [pc EXCEPT ![r] = "read"]
      /\ UNCHANGED <<tables, input, start, docW, signW, mark, seen, answer>>
  BY DEF SignersUpdated, txVars
<1>2. Others(r) /\ pc'[r] = "read"
  BY <1>1 DEF Others, TypeOK
<1>3. ~Creates(r) /\ Held(r)
  BY <1>1 DEF InputInv, UpdateInv
<1>4. UpdateHeld(r)'
  <2>1. Marked(r, mark[r])'
    BY <1>1, <1>3 DEF Held, UpdateHeld, Marked
  <2>. QED  BY <1>1, <1>2, <1>3, <2>1 DEF Held, UpdateHeld
<1>5. Held(r)'
  BY <1>1, <1>2, <1>3, <1>4 DEF Held, InTx, ShowsUpdate, Creates, StampsFit, SignerStampsFit
<1>. QED  BY <1>1, <1>2, <1>5, QuietHeld

\* Once every entry is written, the writes show the last one about each signer.
LEMMA MarkedMeansLast ==
    ASSUME TypeOK, NEW r \in Requests, input[r] \in UpdateInputs,
           mark[r] \notin DOMAIN input[r].marks, Marked(r, mark[r]),
           NEW g \in Signers, NEW status \in SignerStatuses, LastMark(r, g, status)
    PROVE  signW[r][g].status = status
<1>1. DOMAIN input[r].marks = 1 .. Len(input[r].marks) /\ Len(input[r].marks) \in Nat
  BY MarksAreLists
<1>2. PICK k \in DOMAIN input[r].marks :
         /\ input[r].marks[k] = [signer |-> g, status |-> status]
         /\ \A l \in DOMAIN input[r].marks : l > k => input[r].marks[l].signer # g
  BY DEF LastMark
<1>3. mark[r] \in Nat \ {0} /\ k < mark[r]
  BY <1>1, <1>2 DEF TypeOK
<1>4. input[r].marks[k].signer = g /\ input[r].marks[k].status = status
  BY <1>2
<1>5. \A l \in DOMAIN input[r].marks : k < l /\ l < mark[r] => input[r].marks[l].signer # g
  BY <1>1, <1>2
<1>. QED  BY <1>3, <1>4, <1>5 DEF Marked

LEMMA GetDocumentHeld ==
    ASSUME TypeOK, InputInv, NumberInv, UpdateInv, NEW r \in Requests, GetDocumentTx(r)
    PROVE  UpdateInv'
<1>1. CASE Rollback(r, "not_found")
  BY <1>1, RollbackHeld
<1>2. CASE ~Rollback(r, "not_found")
  <2>1. /\ pc[r] = "read" /\ pc' = [pc EXCEPT ![r] = "commit"]
        /\ docRow[input[r].doc] # NoDoc
        /\ AttachSignersInTx(r) \/ AttachSignersFromPool(r)
        /\ UNCHANGED <<tables, input, start, docW, signW, mark, answer>>
    BY <1>2 DEF GetDocumentTx, txVars
  <2>2. Others(r) /\ pc'[r] = "commit"
    BY <2>1 DEF Others, TypeOK, AttachSignersInTx, AttachSignersFromPool
  <2>3. ~Creates(r) /\ Held(r) /\ input[r] \in UpdateInputs
    BY <2>1, Kinds DEF InputInv, UpdateInv, Creates
  <2>4. /\ Marked(r, mark[r]) /\ mark[r] \notin DOMAIN input[r].marks
        /\ input[r].status # "keep" => docW[r] # NoDoc /\ docW[r].status = input[r].status
    BY <2>1, <2>3 DEF Held, UpdateHeld
  <2>5. ASSUME Site[r] = "docs" PROVE Shown(r)'
    <3>1. seen' = [seen EXCEPT ![r] = SignerStatusOf(Overlay(signRow[Target(r)], signW[r]))]
      BY <2>1, <2>5 DEF AttachSignersInTx, AttachSignersFromPool
    <3>2. \A g \in Signers : seen'[r][g] = Overlay(signRow[Target(r)], signW[r])[g].status
      BY <3>1 DEF TypeOK, SignerStatusOf
    <3>3. ASSUME NEW g \in Signers, NEW status \in SignerStatuses, LastMark(r, g, status)
          PROVE  seen'[r][g] = status
      <4>1. signW[r][g].status = status
        BY <2>3, <2>4, <3>3, MarkedMeansLast
      <4>2. signW[r][g] # NoSigner
        BY <4>1 DEF NoSigner, SignerStatuses
      <4>3. Overlay(signRow[Target(r)], signW[r])[g] = signW[r][g]
        BY <4>2 DEF Overlay
      <4>. QED  BY <3>2, <4>1, <4>3
    <3>. QED  BY <2>1, <3>3 DEF Shown, LastMark
  <2>6. UpdateHeld(r)'
    <3>1. Marked(r, mark[r])'
      BY <2>1, <2>4 DEF Marked
    <3>2. docRow' = docRow
      BY <2>1 DEF tables
    <3>. QED  BY <2>1, <2>2, <2>4, <2>5, <3>1, <3>2 DEF UpdateHeld
  <2>7. Held(r)'
    BY <2>1, <2>2, <2>3, <2>6 DEF Held, InTx, ShowsUpdate, Creates, StampsFit, SignerStampsFit
  <2>. QED  BY <2>1, <2>2, <2>7, QuietHeld
<1>. QED  BY <1>1, <1>2

\* What a commit makes of the tables.
LEMMA CommitWrites ==
    ASSUME TypeOK, InputInv, NumberInv, UpdateInv, NEW r \in Requests, NEW reply,
           Commit(r, reply)
    PROVE  /\ Target(r) \in Requests /\ Held(r) /\ pc[r] = "commit" /\ input' = input
           /\ \A d \in Requests \ {Target(r)} :
                 docRow'[d] = docRow[d] /\ signRow'[d] = signRow[d]
           /\ docRow'[Target(r)] # NoDoc
           /\ docRow'[Target(r)] = IF docW[r] = NoDoc THEN docRow[Target(r)] ELSE docW[r]
           /\ signRow'[Target(r)] = Overlay(signRow[Target(r)], signW[r])
<1>1. pc[r] = "commit" /\ Held(r) /\ input' = input
  BY DEF Commit, Finish, UpdateInv
<1>2. Target(r) \in Requests
  BY <1>1, Kinds DEF InputInv, Target, Creates
<1>3. \A d \in Requests \ {Target(r)} : docRow'[d] = docRow[d] /\ signRow'[d] = signRow[d]
  BY <1>2 DEF Commit, TypeOK
<1>4. /\ docRow'[Target(r)] = IF docW[r] = NoDoc THEN docRow[Target(r)] ELSE docW[r]
      /\ signRow'[Target(r)] = Overlay(signRow[Target(r)], signW[r])
  BY <1>2 DEF Commit, TypeOK
<1>5. docRow'[Target(r)] # NoDoc
  <2>1. CASE Creates(r)
    BY <1>1, <1>4, <2>1 DEF NumberInv, UncommittedRows
  <2>2. CASE ~Creates(r)
    BY <1>1, <1>4, <2>2 DEF Held, UpdateHeld, Target
  <2>. QED  BY <2>1, <2>2
<1>. QED  BY <1>1, <1>2, <1>3, <1>4, <1>5

LEMMA CommitHeld ==
    ASSUME TypeOK, InputInv, NumberInv, UpdateInv, NEW r \in Requests, NEW reply,
           Commit(r, reply)
    PROVE  UpdateInv'
<1> DEFINE t == Target(r)
<1>1. /\ t \in Requests /\ Held(r) /\ pc[r] = "commit"
      /\ \A d \in Requests \ {t} : docRow'[d] = docRow[d] /\ signRow'[d] = signRow[d]
      /\ docRow'[t] # NoDoc
      /\ docRow'[t] = IF docW[r] = NoDoc THEN docRow[t] ELSE docW[r]
      /\ signRow'[t] = Overlay(signRow[t], signW[r])
  BY CommitWrites
<1> HIDE DEF t
<1>2. Finish(r, reply) /\ UNCHANGED seen
  BY DEF Commit
<1>3. ~Creates(r) /\ Site[r] = "docs" => Shown(r)
  BY <1>1 DEF Held, UpdateHeld
<1>4. Others(r) /\ Held(r)'
  BY <1>2, <1>3, FinishHeld
<1>5. DocumentsStay
  BY <1>1 DEF DocumentsStay
<1>6. RowsFit'
  <2>1. RowsFit /\ SignerStampsFit(signW[r]) /\ (docW[r] # NoDoc => StampsFit(docW[r]))
    BY <1>1 DEF UpdateInv, Held
  <2>2. StampsFit(docRow'[t])
    BY <1>1, <2>1 DEF RowsFit
  <2>3. SignerStampsFit(signRow'[t])
    <3>1. SignerStampsFit(signRow[t])
      BY <1>1, <2>1 DEF RowsFit
    <3>2. \A g \in Signers : signRow'[t][g] \in {signRow[t][g], signW[r][g]}
      BY <1>1 DEF Overlay
    <3>. QED  BY <2>1, <3>1, <3>2 DEF SignerStampsFit
  <2>4. ASSUME NEW d \in Requests
        PROVE  /\ docRow'[d] # NoDoc => StampsFit(docRow'[d])
               /\ SignerStampsFit(signRow'[d])
               /\ docRow'[d] = NoDoc => signRow'[d] = NoSigners
    <3>1. CASE d = t
      BY <1>1, <2>2, <2>3, <3>1
    <3>2. CASE d # t
      <4>1. docRow'[d] = docRow[d] /\ signRow'[d] = signRow[d]
        BY <1>1, <3>2
      <4>. QED  BY <2>1, <4>1 DEF RowsFit
    <3>. QED  BY <3>1, <3>2
  <2>. QED  BY <2>4 DEF RowsFit, StampsFit, SignerStampsFit
<1>. QED  BY <1>4, <1>5, <1>6, OneHeld

LEMMA NextHeld == TypeOK /\ InputInv /\ NumberInv /\ UpdateInv /\ [Next]_vars => UpdateInv'
<1> SUFFICES ASSUME TypeOK, InputInv, NumberInv, UpdateInv, [Next]_vars
             PROVE  UpdateInv'
  OBVIOUS
<1>1. CASE UNCHANGED vars
  <2>1. UNCHANGED <<docRow, signRow, pc, input, start, mark, docW, signW, seen, answer>>
    BY <1>1 DEF vars, tables, txVars
  <2>2. ASSUME NEW r \in Requests PROVE Held(r)'
    <3>1. Held(r)
      BY DEF UpdateInv
    <3>2. /\ CreateHeld(r) => CreateHeld(r)'
          /\ Marked(r, mark[r]) => Marked(r, mark[r])'
          /\ Shown(r) => Shown(r)'
      <4>1. \A g \in Signers : Listed(r, g)' <=> Listed(r, g)
        BY <2>1 DEF Listed
      <4>2. CreateHeld(r) => CreateHeld(r)'
        BY <2>1, <4>1 DEF CreateHeld, InitialStatus
      <4>3. Marked(r, mark[r]) => Marked(r, mark[r])'
        BY <2>1 DEF Marked
      <4>4. Shown(r) => Shown(r)'
        BY <2>1 DEF Shown, LastMark
      <4>. QED  BY <4>2, <4>3, <4>4
    <3>3. UpdateHeld(r) => UpdateHeld(r)'
      BY <2>1, <3>2 DEF UpdateHeld
    <3>4. ShowsUpdate(r) => ShowsUpdate(r)'
      BY <2>1 DEF ShowsUpdate, LastMark, Creates
    <3>. QED  BY <2>1, <3>1, <3>2, <3>3, <3>4
              DEF Held, InTx, Creates, StampsFit, SignerStampsFit
  <2>3. RowsFit'
    BY <2>1 DEF UpdateInv, RowsFit, StampsFit, SignerStampsFit
  <2>. QED  BY <2>2, <2>3 DEF UpdateInv
<1>2. ASSUME NEW r \in Requests, Step(r)
      PROVE  UpdateInv'
  <2>1. ASSUME Rollback(r, "failed") PROVE UpdateInv'
    BY <2>1, RollbackHeld
  <2>. QED  BY <1>2, <2>1, BeginTxHeld, NextNumberHeld, InsertDocumentHeld,
               InsertDocumentSignersHeld, UpdateFieldsHeld, UpdateSignerHeld,
               SignersUpdatedHeld, GetDocumentHeld, CommitHeld DEF Step, DeadlockVictim
<1>3. ASSUME NEW r \in Requests, Disconnect(r)
      PROVE  UpdateInv'
  BY <1>3, RollbackHeld DEF Disconnect
<1>. QED  BY <1>1, <1>2, <1>3, ReceiveHeld, CommitHeld DEF Next

LEMMA HeldThroughout == Spec => [](TypeOK /\ InputInv /\ NumberInv /\ UpdateInv)
<1>1. Init => TypeOK /\ InputInv /\ NumberInv /\ UpdateInv
  BY InitTypes, InitNumbers, InitHeld
<1>2. TypeOK /\ InputInv /\ NumberInv /\ UpdateInv /\ [Next]_vars
          => (TypeOK /\ InputInv /\ NumberInv /\ UpdateInv)'
  BY NextTypes, NextNumbers, NextHeld
<1>. QED  BY <1>1, <1>2, PTL DEF Spec

\* Whatever updates of a document interleave, its timestamps and its signers' fit the
\* statuses they stand beside (UpdateDocument reads the row it stamps under the row's lock).
THEOREM StampsAlwaysMatch == Spec => []StampsMatchStatus
<1>1. UpdateInv => StampsMatchStatus
  BY DEF UpdateInv, RowsFit, StampsFit, SignerStampsFit, StampsMatchStatus
<1>. QED  BY <1>1, HeldThroughout, PTL

\* The docs service's answer to an update shows the signers as the update left them.
THEOREM DocsAnswersWithUpdate == Spec => []DocsShowsUpdate
<1>1. UpdateInv => DocsShowsUpdate
  BY DEF UpdateInv, Held, DocsShowsUpdate
<1>. QED  BY <1>1, HeldThroughout, PTL

\* A commit leaves in the tables all that its request asked for.
LEMMA CommitApplies ==
    ASSUME TypeOK, InputInv, NumberInv, UpdateInv, NEW r \in Requests, NEW reply,
           Commit(r, reply)
    PROVE  Applied(r)'
<1> DEFINE t == Target(r)
<1>1. /\ t \in Requests /\ Held(r) /\ pc[r] = "commit" /\ input' = input
      /\ docRow'[t] # NoDoc
      /\ docRow'[t] = IF docW[r] = NoDoc THEN docRow[t] ELSE docW[r]
      /\ signRow'[t] = Overlay(signRow[t], signW[r])
  BY CommitWrites
<1>2. \A g \in Signers : signRow'[t][g] = IF signW[r][g] = NoSigner THEN signRow[t][g]
                                                                    ELSE signW[r][g]
  BY <1>1 DEF Overlay
<1>3. CASE Creates(r)
  <2>1. t = r /\ docW[r] # NoDoc /\ docRow[r] = NoDoc
    BY <1>1, <1>3 DEF Target, NumberInv, UncommittedRows, CreatedWhenDone
  <2>2. docRow'[r].status = InitialStatus(input[r])
    BY <1>1, <1>3, <2>1 DEF Held, CreateHeld
  <2>3. signRow[r] = NoSigners
    BY <2>1 DEF UpdateInv, RowsFit
  <2>4. ASSUME NEW g \in Signers
        PROVE  signRow'[r][g].status = "pending" <=> Listed(r, g)
    <3>1. CASE Listed(r, g)
      <4>1. signW[r][g] = [status |-> "pending", at |-> 0]
        BY <1>1, <1>3, <3>1 DEF Held, CreateHeld
      <4>. QED  BY <1>2, <2>1, <3>1, <4>1 DEF NoSigner
    <3>2. CASE ~Listed(r, g)
      <4>1. signW[r][g] = NoSigner
        BY <1>1, <1>3, <3>2 DEF Held, CreateHeld
      <4>. QED  BY <1>2, <2>1, <2>3, <3>2, <4>1 DEF NoSigners, NoSigner
    <3>. QED  BY <3>1, <3>2
  <2>5. Creates(r)' /\ docRow'[r] # NoDoc /\ (docRow[r].status = InitialStatus(input[r]))'
    BY <1>1, <1>3, <2>1, <2>2 DEF Creates, InitialStatus
  <2>6. \A g \in Signers : Listed(r, g)' <=> Listed(r, g)
    BY <1>1 DEF Listed
  <2>7. \A g \in Signers : (signRow[r][g].status = "pending" <=> Listed(r, g))'
    BY <2>4, <2>6
  <2>. QED  BY <2>5, <2>7 DEF Applied, Listed
<1>4. CASE ~Creates(r)
  <2>1. t = input[r].doc /\ input[r] \in UpdateInputs
    BY <1>1, <1>4, Kinds DEF Target, InputInv, Creates
  <2>2. /\ Marked(r, mark[r]) /\ mark[r] \notin DOMAIN input[r].marks
        /\ input[r].status # "keep" => docW[r] # NoDoc /\ docW[r].status = input[r].status
    BY <1>1, <1>4 DEF Held, UpdateHeld
  <2>3. ASSUME NEW g \in Signers, NEW status \in SignerStatuses, LastMark(r, g, status)
        PROVE  signRow'[t][g].status = status
    <3>1. signW[r][g].status = status
      BY <2>1, <2>2, <2>3, MarkedMeansLast
    <3>2. signW[r][g] # NoSigner
      BY <3>1 DEF NoSigner, SignerStatuses
    <3>. QED  BY <1>2, <3>1, <3>2
  <2>4. input[r].status # "keep" => docRow'[t].status = input[r].status
    BY <1>1, <2>2
  <2> HIDE DEF t
  <2>. QED  BY <1>1, <1>4, <2>1, <2>3, <2>4 DEF Applied, Creates, LastMark
<1>. QED  BY <1>3, <1>4

\* Only a commit answers with success, and only a commit changes the tables.
LEMMA OnlyCommitsSucceed ==
    ASSUME TypeOK, [Next]_vars
    PROVE  \/ \E r \in Requests, reply \in {"ok", "lost"} : Commit(r, reply)
           \/ UNCHANGED tables /\ \A r \in Requests : ~(Answers(r) /\ Succeeds(r))
<1> DEFINE Fails == UNCHANGED tables /\ \A r \in Requests : ~(Answers(r) /\ Succeeds(r))
<1>1. ASSUME NEW r \in Requests, NEW reply, reply \notin {"ok", "lost"}, Rollback(r, reply)
      PROVE  Fails
  BY <1>1 DEF Rollback, Finish, Answers, Succeeds, TypeOK
<1>2. ASSUME NEW r \in Requests, NEW p, p # "done", pc' = [pc EXCEPT ![r] = p],
             UNCHANGED tables
      PROVE  Fails
  BY <1>2 DEF Answers, TypeOK
<1>3. ASSUME NEW r \in Requests, Step(r), ~Commit(r, "ok")
      PROVE  Fails
  <2>1. CASE BeginTx(r)
    BY <1>2, <2>1 DEF BeginTx
  <2>2. CASE NextNumber(r) \/ InsertDocument(r) \/ InsertDocumentSigners(r)
    BY <1>1, <1>2, <2>2 DEF NextNumber, InsertDocument, InsertDocumentSigners
  <2>3. CASE UpdateDocumentFields(r) \/ SignersUpdated(r) \/ GetDocumentTx(r)
    BY <1>1, <1>2, <2>3 DEF UpdateDocumentFields, SignersUpdated, GetDocumentTx
  <2>4. CASE UpdateSignerStatus(r)
    BY <1>1, <2>4 DEF UpdateSignerStatus, Answers, TypeOK
  <2>5. CASE DeadlockVictim(r)
    BY <1>1, <2>5 DEF DeadlockVictim
  <2>. QED  BY <1>3, <2>1, <2>2, <2>3, <2>4, <2>5 DEF Step
<1>4. ASSUME NEW r \in Requests, NEW i, Receive(r, i)
      PROVE  Fails
  BY <1>4 DEF Receive, Answers, Succeeds, TypeOK
<1>5. ASSUME NEW r \in Requests, Disconnect(r)
      PROVE  Fails
  BY <1>1, <1>5 DEF Disconnect
<1>6. ASSUME UNCHANGED vars
      PROVE  Fails
  BY <1>6 DEF vars, Answers
<1> HIDE DEF Fails
<1>7. Fails \/ \E r \in Requests, reply \in {"ok", "lost"} : Commit(r, reply)
  <2>1. CASE UNCHANGED vars
    BY <1>6, <2>1
  <2>2. ASSUME NEW r \in Requests,
               \/ \E i \in CreateInputs \cup UpdateInputs : Receive(r, i)
               \/ Step(r)
               \/ Commit(r, "lost")
               \/ Disconnect(r)
        PROVE  Fails \/ \E q \in Requests, reply \in {"ok", "lost"} : Commit(q, reply)
    <3>1. CASE Commit(r, "ok") \/ Commit(r, "lost")
      BY <3>1
    <3>2. CASE ~Commit(r, "ok") /\ ~Commit(r, "lost")
      BY <1>3, <1>4, <1>5, <2>2, <3>2
    <3>. QED  BY <3>1, <3>2
  <2>. QED  BY <2>1, <2>2 DEF Next
<1>. QED  BY <1>7 DEF Fails

\* One transaction per request: a request that is answered with success is applied whole in
\* that step, and no other step changes a table.
THEOREM AppliedWholeOrNot == Spec => AllOrNothing
<1>1. ASSUME TypeOK, InputInv, NumberInv, UpdateInv, [Next]_vars
      PROVE  /\ \A r \in Requests : Answers(r) /\ Succeeds(r) => Applied(r)'
             /\ tables' # tables => \E r \in Requests : Answers(r) /\ Succeeds(r)
  <2>1. CASE UNCHANGED tables /\ \A r \in Requests : ~(Answers(r) /\ Succeeds(r))
    BY <2>1
  <2>2. ASSUME NEW r \in Requests, NEW reply \in {"ok", "lost"}, Commit(r, reply)
        PROVE  /\ \A q \in Requests : Answers(q) /\ Succeeds(q) => Applied(q)'
               /\ Answers(r) /\ Succeeds(r)
    <3>1. /\ pc[r] = "commit" /\ pc' = [pc EXCEPT ![r] = "done"]
          /\ answer' = [answer EXCEPT ![r] = reply]
      BY <2>2 DEF Commit, Finish
    <3>2. Answers(r) /\ Succeeds(r) /\ \A q \in Requests \ {r} : ~Answers(q)
      <4>1. pc[r] # "done" /\ pc'[r] = "done" /\ answer'[r] \in {"ok", "lost"}
        BY <1>1, <2>2, <3>1 DEF TypeOK
      <4>2. \A q \in Requests \ {r} : pc'[q] = pc[q]
        BY <1>1, <3>1 DEF TypeOK
      <4>. QED  BY <4>1, <4>2 DEF Answers, Succeeds
    <3>3. Applied(r)'
      BY <1>1, <2>2, CommitApplies
    <3>. QED  BY <3>2, <3>3
  <2>. QED  BY <1>1, <2>1, <2>2, OnlyCommitsSucceed
<1>. QED  BY <1>1, HeldThroughout, PTL DEF Spec, AllOrNothing

-------------------------------------------------------------------------------
(* The program implements DocumentLedger. *)

\* Before it moves a request knows nothing, until it is done it is not answered, and a
\* transaction is as old as it says.
LedgerCalls ==
    \A r \in Requests :
        /\ pc[r] = "idle" => input[r] = NoInput
        /\ pc[r] # "done" => answer[r] = "none"
        /\ InTx(r) => start[r] \in 1 .. clock

\* The numbers of documents and of documents to be differ.
NumbersDiffer ==
    \A r \in Requests : Creates(r) /\ docW[r] # NoDoc =>
        /\ \A d \in Requests : docRow[d] # NoDoc => Number(docRow[d]) # Number(docW[r])
        /\ \A q \in Requests \ {r} :
              Creates(q) /\ docW[q] # NoDoc => Number(docW[q]) # Number(docW[r])

\* The row locks exclude one another.
LocksExclude ==
    \A q, r, d \in Requests : q # r =>
        /\ ~(HoldsDocument(q, d) /\ HoldsDocument(r, d))
        /\ \A g \in Signers : ~(HoldsSigner(q, d, g) /\ HoldsSigner(r, d, g))

\* What a create has written is what the ledger's would be.
NewRows(r) ==
    /\ pc[r] \in {"signers", "commit"} =>
          docW[r] = NewDocument(r) /\ input[r].template \in Templates
    /\ pc[r] = "commit" =>
          /\ \A k \in DOMAIN input[r].signers : input[r].signers[k] \in Signers
          /\ \A k, l \in DOMAIN input[r].signers :
                input[r].signers[k] = input[r].signers[l] => k = l

\* The entries of its list that r has been through.
Through(r) == {k \in DOMAIN input[r].marks : k < mark[r]}
Touches(r, g) == \E k \in Through(r) : input[r].marks[k].signer = g

\* What an update has written of a document is what the ledger makes of it as it now stands.
DocumentMoved(r) ==
    LET d == input[r].doc IN
    IF input[r].status = "keep" /\ ~input[r].title
    THEN docW[r] = NoDoc
    ELSE docW[r] # NoDoc /\ docW[r] = Ledger!Moved(docRow[d], input[r].status, start[r])

\* And so for the signers its list has named up to here.
SignersMoved(r) ==
    LET d == input[r].doc IN
    /\ \A k \in Through(r) :
          input[r].marks[k].signer \in Signers /\ signRow[d][input[r].marks[k].signer] # NoSigner
    /\ \A g \in Signers :
          /\ signW[r][g] # NoSigner <=> Touches(r, g)
          /\ Touches(r, g) =>
                signW[r][g] = Ledger!SignerAfter(signRow[d][g], input[r].marks, Through(r), g,
                                                 start[r])

MovedRows(r) ==
    /\ pc[r] \notin {"marks", "read", "commit"} => docW[r] = NoDoc /\ signW[r] = NoSigners
    /\ pc[r] \in {"marks", "read", "commit"} => DocumentMoved(r) /\ SignersMoved(r)

\* What a handler has written is what the ledger would write.
WrittenAsLedger(r) ==
    (Creates(r) => NewRows(r)) /\ (~Creates(r) => MovedRows(r))

LedgerInv ==
    LedgerCalls /\ NumbersDiffer /\ LocksExclude /\ \A r \in Requests : WrittenAsLedger(r)

\* The code's SET clause and the ledger's columns are the same function.
LEMMA StampedIsMoved ==
    ASSUME NEW row \in DocRow, NEW status \in Statuses \cup {"keep"}, NEW now \in Nat
    PROVE  /\ Stamped(row, status, now) = Ledger!Moved(row, status, now)
           /\ status = "keep" => Ledger!Moved(row, status, now) = row
BY DEF Stamped, Ledger!Moved, DocRow, Statuses

LEMMA LastIsLargest ==
    ASSUME NEW K \in SUBSET Nat, NEW n \in K, \A l \in K : l <= n
    PROVE  Ledger!Last(K) = n
<1>1. \E k \in K : \A l \in K : l <= k
  OBVIOUS
<1>2. Ledger!Last(K) \in K /\ \A l \in K : l <= Ledger!Last(K)
  BY <1>1, Zenon DEF Ledger!Last
<1>3. PICK m \in Nat : m = Ledger!Last(K)
  BY <1>2
<1>4. m <= n /\ n <= m
  BY <1>2, <1>3
<1>. QED  BY <1>3, <1>4

\* One more entry of a list: the signer it names takes its status, and the time it brings.
LEMMA SignerAfterEntry ==
    ASSUME NEW marks, NEW K, NEW n, n \in Nat, \A k \in K : k \in Nat /\ k < n,
           NEW g, NEW row, NEW now, marks[n].status \in SignerStatuses
    PROVE  /\ marks[n].signer # g =>
                 Ledger!SignerAfter(row, marks, K \cup {n}, g, now) =
                     Ledger!SignerAfter(row, marks, K, g, now)
           /\ marks[n].signer = g =>
                 Ledger!SignerAfter(row, marks, K \cup {n}, g, now) =
                     [status |-> marks[n].status,
                      at |-> CASE marks[n].status = "signed"  -> now
                               [] marks[n].status = "pending" -> 0
                               [] OTHER -> Ledger!SignerAfter(row, marks, K, g, now).at]
<1> DEFINE about(J) == {k \in J : marks[k].signer = g}
           dating(J) == {k \in about(J) : marks[k].status # "declined"}
           new == K \cup {n}
<1>1. CASE marks[n].signer # g
  <2>1. about(new) = about(K)
    BY <1>1
  <2>. QED  BY <1>1, <2>1 DEF Ledger!SignerAfter
<1>2. CASE marks[n].signer = g
  <2>0. new \subseteq Nat /\ n \in new /\ \A l \in new : l <= n
    OBVIOUS
  <2>1. n \in about(new) /\ about(new) \subseteq Nat /\ \A l \in about(new) : l <= n
    <3> HIDE DEF new
    <3>. QED  BY <1>2, <2>0
  <2>2. Ledger!Last(about(new)) = n
    BY <2>1, LastIsLargest
  <2>3. CASE marks[n].status = "declined"
    <3>1. dating(new) = dating(K)
      BY <1>2, <2>3
    <3>2. Ledger!SignerAfter(row, marks, K, g, now).at =
              IF dating(K) = {} THEN row.at
              ELSE IF marks[Ledger!Last(dating(K))].status = "signed" THEN now ELSE 0
      BY DEF Ledger!SignerAfter
    <3>3. Ledger!SignerAfter(row, marks, new, g, now) =
              [status |-> marks[n].status,
               at |-> IF dating(new) = {} THEN row.at
                      ELSE IF marks[Ledger!Last(dating(new))].status = "signed" THEN now ELSE 0]
      BY <2>1, <2>2 DEF Ledger!SignerAfter
    <3> HIDE DEF dating, about
    <3>. QED  BY <1>2, <2>3, <3>1, <3>2, <3>3
  <2>4. CASE marks[n].status # "declined"
    <3>1. n \in dating(new) /\ dating(new) \subseteq Nat /\ \A l \in dating(new) : l <= n
      BY <1>2, <2>1, <2>4
    <3>2. Ledger!Last(dating(new)) = n
      BY <3>1, LastIsLargest
    <3>3. Ledger!SignerAfter(row, marks, new, g, now) =
              [status |-> marks[n].status,
               at |-> IF marks[n].status = "signed" THEN now ELSE 0]
      BY <2>1, <2>2, <3>1, <3>2 DEF Ledger!SignerAfter
    <3>. QED  BY <1>2, <2>4, <3>3 DEF SignerStatuses
  <2>. QED  BY <2>3, <2>4
<1>. QED  BY <1>1, <1>2

LEMMA SignerUntouched ==
    ASSUME NEW marks, NEW K, NEW g, NEW row, NEW now, \A k \in K : marks[k].signer # g
    PROVE  Ledger!SignerAfter(row, marks, K, g, now) = row
BY DEF Ledger!SignerAfter

LEMMA InitLedger == Init => LedgerInv
<1> SUFFICES ASSUME Init PROVE LedgerInv
  OBVIOUS
<1>1. \A r \in Requests : /\ pc[r] = "idle" /\ docW[r] = NoDoc /\ signW[r] = NoSigners
                          /\ answer[r] = "none" /\ input[r] = NoInput
  BY DEF Init
<1>2. LedgerCalls
  BY <1>1 DEF LedgerCalls, InTx
<1>3. NumbersDiffer
  BY <1>1 DEF NumbersDiffer
<1>4. LocksExclude
  BY <1>1 DEF LocksExclude, HoldsDocument, HoldsSigner, NoSigners
<1>5. ASSUME NEW r \in Requests PROVE WrittenAsLedger(r)
  BY <1>1 DEF WrittenAsLedger, NewRows, MovedRows
<1>. QED  BY <1>2, <1>3, <1>4, <1>5 DEF LedgerInv

\* What a handler holds it keeps as it is, or gives up.
Keeps(q) ==
    /\ docW'[q] = NoDoc \/ (docW'[q] = docW[q] /\ input'[q] = input[q])
    /\ signW'[q] = NoSigners \/ (signW'[q] = signW[q] /\ input'[q] = input[q])

LEMMA LocksKept ==
    ASSUME LocksExclude, \A q \in Requests : Keeps(q) \/ Creates(q)'
    PROVE  LocksExclude'
<1>1. ASSUME NEW q \in Requests, NEW d, HoldsDocument(q, d)' PROVE HoldsDocument(q, d)
  BY <1>1 DEF Keeps, HoldsDocument, Creates
<1>2. ASSUME NEW q \in Requests, NEW d, NEW g, HoldsSigner(q, d, g)' PROVE HoldsSigner(q, d, g)
  BY <1>2 DEF Keeps, HoldsSigner, Creates, NoSigners
<1>. QED  BY <1>1, <1>2 DEF LocksExclude

LEMMA NumbersKept ==
    ASSUME NumbersDiffer, UNCHANGED docRow, \A q \in Requests : Keeps(q) \/ ~Creates(q)'
    PROVE  NumbersDiffer'
<1>1. ASSUME NEW q \in Requests, Creates(q)', docW'[q] # NoDoc
      PROVE  Creates(q) /\ docW[q] # NoDoc /\ docW'[q] = docW[q]
  BY <1>1 DEF Keeps, Creates
<1>. QED  BY <1>1 DEF NumbersDiffer, Number

LEMMA OthersKeep ==
    ASSUME NEW r \in Requests, Others(r), NEW q \in Requests \ {r}
    PROVE  Keeps(q)
BY DEF Others, Keeps

\* A handler's rows stay what the ledger would write while the committed rows they come from
\* stay.
LEMMA StaysWritten ==
    ASSUME NEW q \in Requests, WrittenAsLedger(q),
           /\ input'[q] = input[q] /\ start'[q] = start[q] /\ num'[q] = num[q]
           /\ mark'[q] = mark[q] /\ docW'[q] = docW[q] /\ signW'[q] = signW[q],
           \/ pc'[q] = pc[q]
           \/ ~Creates(q) /\ {pc[q], pc'[q]} \subseteq {"marks", "read", "commit"},
           ~Creates(q) /\ pc[q] \in {"marks", "read", "commit"} =>
               /\ docW[q] # NoDoc => docRow'[input[q].doc] = docRow[input[q].doc]
               /\ \A g \in Signers :
                     /\ signRow[input[q].doc][g] # NoSigner => signRow'[input[q].doc][g] # NoSigner
                     /\ signW[q][g] # NoSigner =>
                           signRow'[input[q].doc][g] = signRow[input[q].doc][g]
    PROVE  WrittenAsLedger(q)'
<1>1. /\ input'[q] = input[q] /\ start'[q] = start[q]
      /\ mark'[q] = mark[q] /\ docW'[q] = docW[q] /\ signW'[q] = signW[q]
  OBVIOUS
<1>2. Creates(q)' <=> Creates(q)
  BY <1>1 DEF Creates
<1>3. ASSUME Creates(q) PROVE NewRows(q)'
  <2>1. NewRows(q) /\ NewDocument(q)' = NewDocument(q)
    BY <1>1, <1>3 DEF WrittenAsLedger, NewDocument, InitialStatus
  <2>. QED  BY <1>1, <1>3, <2>1 DEF NewRows
<1>4. ASSUME ~Creates(q) PROVE MovedRows(q)'
  <2>1. MovedRows(q)
    BY <1>4 DEF WrittenAsLedger
  <2>2. CASE pc[q] \notin {"marks", "read", "commit"}
    BY <1>1, <2>1, <2>2 DEF MovedRows
  <2>3. CASE pc[q] \in {"marks", "read", "commit"}
    <3> DEFINE d == input[q].doc
    <3>1. DocumentMoved(q) /\ SignersMoved(q)
      BY <2>1, <2>3 DEF MovedRows
    <3>2. /\ docW[q] # NoDoc => docRow'[d] = docRow[d]
          /\ \A g \in Signers :
                /\ signRow[d][g] # NoSigner => signRow'[d][g] # NoSigner
                /\ signW[q][g] # NoSigner => signRow'[d][g] = signRow[d][g]
      BY <1>4, <2>3
    <3>3. Through(q)' = Through(q)
      BY <1>1 DEF Through
    <3>4. \A g : Touches(q, g)' <=> Touches(q, g)
      BY <1>1, <3>3 DEF Touches
    <3>5. DocumentMoved(q)'
      <4>1. CASE input[q].status = "keep" /\ ~input[q].title
        BY <1>1, <3>1, <4>1 DEF DocumentMoved
      <4>2. CASE ~(input[q].status = "keep" /\ ~input[q].title) /\ docW[q] # NoDoc
        BY <1>1, <3>1, <3>2, <4>2 DEF DocumentMoved
      <4>. QED  BY <3>1, <4>1, <4>2 DEF DocumentMoved
    <3>6. SignersMoved(q)'
      <4>1. \A k \in Through(q) :
               /\ input[q].marks[k].signer \in Signers
               /\ signRow'[d][input[q].marks[k].signer] # NoSigner
        BY <3>1, <3>2 DEF SignersMoved
      <4>2. ASSUME NEW g \in Signers
            PROVE  /\ signW[q][g] # NoSigner <=> Touches(q, g)
                   /\ Touches(q, g) =>
                         signW[q][g] = Ledger!SignerAfter(signRow'[d][g], input[q].marks,
                                                          Through(q), g, start[q])
        BY <3>1, <3>2 DEF SignersMoved
      <4>. QED  BY <1>1, <3>3, <3>4, <4>1, <4>2 DEF SignersMoved
    <3>. QED  BY <1>4, <2>3, <3>5, <3>6 DEF MovedRows
  <2>. QED  BY <2>2, <2>3
<1>. QED  BY <1>2, <1>3, <1>4 DEF WrittenAsLedger

LEMMA CallsStay ==
    ASSUME TypeOK, LedgerCalls, NEW r \in Requests, Others(r), clock' \in {clock, clock + 1},
           pc'[r] = "idle" => input'[r] = NoInput,
           pc'[r] # "done" => answer'[r] = "none",
           InTx(r)' => start'[r] \in 1 .. clock'
    PROVE  LedgerCalls'
<1>1. clock \in Nat /\ clock <= clock' /\ clock' \in Nat
  BY DEF TypeOK
<1>2. ASSUME NEW q \in Requests \ {r}
      PROVE  /\ pc'[q] = "idle" => input'[q] = NoInput
             /\ pc'[q] # "done" => answer'[q] = "none"
             /\ InTx(q)' => start'[q] \in 1 .. clock'
  BY <1>1 DEF Others, LedgerCalls, InTx, TypeOK
<1>. QED  BY <1>2 DEF LedgerCalls

\* It is enough to look at the handler that steps, where no table changes.
LEMMA QuietLedger ==
    ASSUME TypeOK, LedgerInv, NEW r \in Requests, Others(r), UNCHANGED tables,
           \A q \in Requests \ {r} : num'[q] = num[q],
           LedgerCalls', NumbersDiffer', LocksExclude', WrittenAsLedger(r)'
    PROVE  LedgerInv'
<1>1. UNCHANGED <<docRow, signRow>>
  BY DEF tables
<1>2. ASSUME NEW q \in Requests \ {r} PROVE WrittenAsLedger(q)'
  BY <1>1, StaysWritten DEF LedgerInv, Others
<1>. QED  BY <1>2 DEF LedgerInv

\* A step of r that writes nothing and moves on within its transaction, or gives up.
LEMMA KeepsLedger ==
    ASSUME TypeOK, LedgerInv, NEW r \in Requests, Others(r), UNCHANGED tables,
           \A q \in Requests \ {r} : num'[q] = num[q],
           LedgerCalls', Keeps(r), WrittenAsLedger(r)'
    PROVE  LedgerInv'
<1>1. \A q \in Requests : Keeps(q)
  BY OthersKeep
<1>2. NumbersDiffer' /\ LocksExclude'
  BY <1>1, LocksKept, NumbersKept DEF LedgerInv, tables
<1>. QED  BY <1>2, QuietLedger

LEMMA FinishLedger ==
    ASSUME TypeOK, LedgerCalls, NEW r \in Requests, NEW reply, Finish(r, reply),
           UNCHANGED <<clock, seen>>
    PROVE  /\ Others(r) /\ Keeps(r) /\ LedgerCalls' /\ WrittenAsLedger(r)'
           /\ \A q \in Requests \ {r} : num'[q] = num[q]
<1>1. /\ pc' = [pc EXCEPT ![r] = "done"] /\ answer' = [answer EXCEPT ![r] = reply]
      /\ start' = [start EXCEPT ![r] = 0] /\ docW' = [docW EXCEPT ![r] = NoDoc]
      /\ signW' = [signW EXCEPT ![r] = NoSigners] /\ mark' = [mark EXCEPT ![r] = 1]
      /\ num' = [num EXCEPT ![r] = 0] /\ input' = input /\ seen' = seen
  BY DEF Finish
<1>2. Others(r) /\ \A q \in Requests \ {r} : num'[q] = num[q]
  BY <1>1 DEF Others, TypeOK
<1>3. pc'[r] = "done" /\ docW'[r] = NoDoc /\ signW'[r] = NoSigners
  BY <1>1 DEF TypeOK
<1>4. LedgerCalls'
  BY <1>2, <1>3, CallsStay DEF InTx
<1>5. Keeps(r)
  BY <1>3 DEF Keeps
<1>6. NewRows(r)' /\ MovedRows(r)'
  BY <1>3 DEF NewRows, MovedRows
<1>. QED  BY <1>2, <1>4, <1>5, <1>6 DEF WrittenAsLedger

LEMMA RollbackLedger ==
    ASSUME TypeOK, LedgerInv, NEW r \in Requests, NEW reply, Rollback(r, reply)
    PROVE  LedgerInv'
BY FinishLedger, KeepsLedger DEF Rollback, LedgerInv

LEMMA ReceiveLedger ==
    ASSUME TypeOK, NumberInv, LedgerInv, NEW r \in Requests,
           NEW i \in CreateInputs \cup UpdateInputs, Receive(r, i)
    PROVE  LedgerInv'
<1>1. /\ pc[r] = "idle"
      /\ input' = [input EXCEPT ![r] = i]
      /\ \/ pc' = [pc EXCEPT ![r] = "begin"] /\ UNCHANGED answer
         \/ pc' = [pc EXCEPT ![r] = "done"] /\ answer' = [answer EXCEPT ![r] = "refused"]
      /\ UNCHANGED <<tables, clock, start, num, docW, signW, mark, seen>>
  BY DEF Receive, txVars
<1>2. Others(r) /\ pc'[r] \in {"begin", "done"}
  BY <1>1 DEF Others, TypeOK
<1>3. input[r] = NoInput /\ ~Creates(r) /\ answer[r] = "none"
  BY <1>1, Kinds DEF LedgerInv, LedgerCalls, Creates
<1>4. docW[r] = NoDoc /\ signW[r] = NoSigners
  BY <1>1, <1>3 DEF LedgerInv, WrittenAsLedger, MovedRows
<1>5. LedgerCalls'
  <2>1. pc'[r] # "done" => answer'[r] = "none"
    BY <1>1, <1>3 DEF TypeOK
  <2>. QED  BY <1>1, <1>2, <2>1, CallsStay DEF LedgerInv, InTx
<1>6. Keeps(r)
  BY <1>1, <1>4 DEF Keeps
<1>7. WrittenAsLedger(r)'
  BY <1>1, <1>2, <1>4 DEF WrittenAsLedger, NewRows, MovedRows
<1>. QED  BY <1>1, <1>2, <1>5, <1>6, <1>7, KeepsLedger

LEMMA BeginTxLedger ==
    ASSUME TypeOK, LedgerInv, NEW r \in Requests, BeginTx(r)
    PROVE  LedgerInv'
<1>1. /\ pc[r] = "begin"
      /\ pc' = [pc EXCEPT ![r] = IF Creates(r) THEN "number" ELSE "fields"]
      /\ clock' = clock + 1
      /\ start' = [start EXCEPT ![r] = clock + 1]
      /\ UNCHANGED <<tables, input, num, docW, signW, mark, seen, answer>>
  BY DEF BeginTx
<1>2. Others(r) /\ pc'[r] \in {"number", "fields"} /\ start'[r] = clock + 1
  BY <1>1 DEF Others, TypeOK
<1>3. LedgerCalls'
  <2>1. answer'[r] = "none" /\ start'[r] \in 1 .. clock'
    BY <1>1, <1>2 DEF LedgerInv, LedgerCalls, TypeOK
  <2>. QED  BY <1>1, <1>2, <2>1, CallsStay DEF LedgerInv
<1>4. ~Creates(r) => docW[r] = NoDoc /\ signW[r] = NoSigners
  BY <1>1 DEF LedgerInv, WrittenAsLedger, MovedRows
<1>5. Keeps(r)
  BY <1>1 DEF Keeps
<1>6. WrittenAsLedger(r)'
  BY <1>1, <1>2, <1>4 DEF WrittenAsLedger, NewRows, MovedRows, Creates
<1>. QED  BY <1>1, <1>2, <1>3, <1>5, <1>6, KeepsLedger

\* What a handler that moves on without answering leaves of its call.
LEMMA MovesOn ==
    ASSUME TypeOK, LedgerInv, NEW r \in Requests, InTx(r), NEW p, p \notin {"idle", "done"},
           pc' = [pc EXCEPT ![r] = p],
           UNCHANGED <<clock, input, start, answer>>,
           \A q \in Requests \ {r} :
               mark'[q] = mark[q] /\ docW'[q] = docW[q] /\ signW'[q] = signW[q] /\ seen'[q] = seen[q]
    PROVE  Others(r) /\ pc'[r] = p /\ LedgerCalls'
<1>1. Others(r) /\ pc'[r] = p
  BY DEF Others, TypeOK
<1>2. answer[r] = "none" /\ start[r] \in 1 .. clock
  BY DEF LedgerInv, LedgerCalls, InTx
<1>. QED  BY <1>1, <1>2, CallsStay DEF LedgerInv

LEMMA NextNumberLedger ==
    ASSUME TypeOK, InputInv, NumberInv, LedgerInv, NEW r \in Requests, NextNumber(r)
    PROVE  LedgerInv'
<1>1. CASE Rollback(r, "failed")
  BY <1>1, RollbackLedger
<1>2. CASE ~Rollback(r, "failed")
  <2>1. /\ pc[r] = "number" /\ pc' = [pc EXCEPT ![r] = "insert"]
        /\ num' = [num EXCEPT ![r] = seqRow[input[r].seq] + 1]
        /\ UNCHANGED <<tables, clock, input, start, docW, signW, mark, seen, answer>>
    BY <1>2 DEF NextNumber
  <2>2. Others(r) /\ pc'[r] = "insert" /\ LedgerCalls'
    BY <2>1, MovesOn DEF InTx
  <2>3. \A q \in Requests \ {r} : num'[q] = num[q]
    BY <2>1 DEF TypeOK
  <2>4. Creates(r)
    BY <2>1 DEF InputInv
  <2>5. Keeps(r) /\ WrittenAsLedger(r)'
    BY <2>1, <2>2, <2>4 DEF Keeps, WrittenAsLedger, NewRows, Creates
  <2>. QED  BY <2>1, <2>2, <2>3, <2>5, KeepsLedger
<1>. QED  BY <1>1, <1>2

LEMMA InsertDocumentLedger ==
    ASSUME TypeOK, InputInv, NumberInv, LedgerInv, NEW r \in Requests, InsertDocument(r)
    PROVE  LedgerInv'
<1>1. CASE Rollback(r, "failed") \/ Rollback(r, "duplicate")
  BY <1>1, RollbackLedger
<1>2. CASE ~(Rollback(r, "failed") \/ Rollback(r, "duplicate"))
  <2> DEFINE new == NewDocument(r)
  <2>1. /\ pc[r] = "insert" /\ pc' = [pc EXCEPT ![r] = "signers"]
        /\ docW' = [docW EXCEPT ![r] = new]
        /\ input[r].template \in Templates
        /\ \A q \in Requests : Creates(q) /\ docW[q] # NoDoc => Number(docW[q]) # Number(new)
        /\ \A d \in Requests : docRow[d] # NoDoc => Number(docRow[d]) # Number(new)
        /\ UNCHANGED <<tables, clock, input, start, num, signW, mark, seen, answer>>
    BY <1>2 DEF InsertDocument
  <2>2. Creates(r) /\ (\A q \in Requests : Creates(q)' <=> Creates(q)) /\ new' = new
    BY <2>1 DEF InputInv, Creates, NewDocument, InitialStatus
  <2> HIDE DEF new
  <2>3. \A q \in Requests \ {r} : docW'[q] = docW[q]
    BY <2>1 DEF TypeOK
  <2>4. Others(r) /\ pc'[r] = "signers" /\ LedgerCalls' /\ docW'[r] = new
    BY <2>1, <2>3, MovesOn DEF InTx, TypeOK
  <2>5. NumbersDiffer'
    BY <2>1, <2>2, <2>3, <2>4 DEF LedgerInv, NumbersDiffer, Number, tables
  <2>6. LocksExclude'
    <3>1. \A q \in Requests : Keeps(q) \/ Creates(q)'
      BY <2>2, <2>4, OthersKeep
    <3>. QED  BY <3>1, LocksKept DEF LedgerInv
  <2>7. WrittenAsLedger(r)'
    BY <2>1, <2>2, <2>4 DEF WrittenAsLedger, NewRows, new
  <2>. QED  BY <2>1, <2>4, <2>5, <2>6, <2>7, QuietLedger
<1>. QED  BY <1>1, <1>2

LEMMA InsertDocumentSignersLedger ==
    ASSUME TypeOK, InputInv, NumberInv, LedgerInv, NEW r \in Requests,
           InsertDocumentSigners(r)
    PROVE  LedgerInv'
<1>1. CASE Rollback(r, "failed")
  BY <1>1, RollbackLedger
<1>2. CASE ~Rollback(r, "failed")
  <2>1. /\ pc[r] = "signers" /\ pc' = [pc EXCEPT ![r] = "commit"]
        /\ \A k \in DOMAIN input[r].signers : input[r].signers[k] \in Signers
        /\ \A k, l \in DOMAIN input[r].signers :
              input[r].signers[k] = input[r].signers[l] => k = l
        /\ \E new : signW' = [signW EXCEPT ![r] = new]
        /\ \E new : seen' = [seen EXCEPT ![r] = new]
        /\ UNCHANGED <<tables, clock, input, start, num, docW, mark, answer>>
    BY <1>2 DEF InsertDocumentSigners
  <2>2. \A q \in Requests \ {r} : signW'[q] = signW[q] /\ seen'[q] = seen[q]
    BY <2>1 DEF TypeOK
  <2>3. Others(r) /\ pc'[r] = "commit" /\ LedgerCalls'
    BY <2>1, <2>2, MovesOn DEF InTx
  <2>4. Creates(r) /\ (\A q \in Requests : Creates(q)' <=> Creates(q))
    BY <2>1 DEF InputInv, Creates
  <2>5. NumbersDiffer'
    BY <2>1, <2>4 DEF LedgerInv, NumbersDiffer, Number, tables
  <2>6. LocksExclude'
    <3>1. \A q \in Requests : Keeps(q) \/ Creates(q)'
      BY <2>3, <2>4, OthersKeep
    <3>. QED  BY <3>1, LocksKept DEF LedgerInv
  <2>7. WrittenAsLedger(r)'
    <3>1. NewRows(r) /\ NewDocument(r)' = NewDocument(r)
      BY <2>1, <2>4 DEF LedgerInv, WrittenAsLedger, NewDocument, InitialStatus
    <3>. QED  BY <2>1, <2>4, <3>1 DEF WrittenAsLedger, NewRows
  <2>. QED  BY <2>1, <2>3, <2>5, <2>6, <2>7, QuietLedger
<1>. QED  BY <1>1, <1>2

LEMMA UpdateFieldsLedger ==
    ASSUME TypeOK, InputInv, NumberInv, UpdateInv, LedgerInv, NEW r \in Requests,
           UpdateDocumentFields(r)
    PROVE  LedgerInv'
<1>1. CASE Rollback(r, "not_found")
  BY <1>1, RollbackLedger
<1>2. CASE ~Rollback(r, "not_found")
  <2> DEFINE d == input[r].doc
             untouched == input[r].status = "keep" /\ ~input[r].title
             new == Stamped(docRow[d], input[r].status, start[r])
  <2>1. /\ pc[r] = "fields" /\ pc' = [pc EXCEPT ![r] = "marks"]
        /\ UNCHANGED <<tables, clock, input, start, num, signW, mark, seen, answer>>
        /\ \/ untouched /\ docW' = docW
           \/ /\ ~untouched /\ docRow[d] # NoDoc
              /\ \A q \in Requests : ~HoldsDocument(q, d)
              /\ docW' = [docW EXCEPT ![r] = new]
    BY <1>2 DEF UpdateDocumentFields, txVars
  <2>2. /\ ~Creates(r) /\ input[r] \in UpdateInputs /\ ValidUpdate(input[r]) /\ d \in Requests
        /\ \A q \in Requests : Creates(q)' <=> Creates(q)
    BY <2>1, Kinds DEF InputInv, Creates
  <2>3. \A q \in Requests \ {r} : docW'[q] = docW[q]
    BY <2>1 DEF TypeOK
  <2>4. Others(r) /\ pc'[r] = "marks" /\ LedgerCalls'
    BY <2>1, <2>3, MovesOn DEF InTx
  <2>5. mark[r] = 1 /\ docW[r] = NoDoc /\ signW[r] = NoSigners
    BY <2>1, <2>2 DEF UpdateInv, Held, LedgerInv, WrittenAsLedger, MovedRows
  <2>6. ~untouched => /\ docW'[r] = new /\ new # NoDoc
                      /\ new = Ledger!Moved(docRow[d], input[r].status, start[r])
    <3>1. input[r].status \in Statuses \cup {"keep"} /\ start[r] \in Nat
      BY <2>2 DEF ValidUpdate, TypeOK
    <3>2. ASSUME ~untouched PROVE docRow[d] \in DocRow /\ docW'[r] = new
      BY <2>1, <2>2, <3>2 DEF TypeOK
    <3> HIDE DEF untouched
    <3>3. ASSUME ~untouched PROVE new \in DocRow
      BY <3>1, <3>2, <3>3, StampedType
    <3>. QED  BY <3>1, <3>2, <3>3, StampedIsMoved
  <2> HIDE DEF new
  <2>7. NumbersDiffer'
    <3>1. \A q \in Requests : Keeps(q) \/ ~Creates(q)'
      BY <2>2, <2>4, OthersKeep
    <3>. QED  BY <2>1, <3>1, NumbersKept DEF LedgerInv, tables
  <2>8. LocksExclude'
    <3>1. ASSUME NEW q \in Requests, NEW e \in Requests, HoldsDocument(q, e)', q # r
          PROVE  HoldsDocument(q, e)
      BY <2>1, <2>3, <3>1 DEF HoldsDocument, Creates
    <3>2. \A q, e \in Requests, g \in Signers : HoldsSigner(q, e, g)' <=> HoldsSigner(q, e, g)
      BY <2>1 DEF HoldsSigner, Creates
    <3>3. ASSUME NEW e \in Requests, HoldsDocument(r, e)'
          PROVE  \A q \in Requests : ~HoldsDocument(q, e)
      BY <2>1, <2>5, <3>3 DEF HoldsDocument
    <3>. QED  BY <3>1, <3>2, <3>3 DEF LedgerInv, LocksExclude
  <2>9. WrittenAsLedger(r)'
    <3>1. DocumentMoved(r)'
      BY <2>1, <2>5, <2>6 DEF DocumentMoved, tables
    <3>2. Through(r)' = {}
      <4>1. DOMAIN input[r].marks = 1 .. Len(input[r].marks) /\ Len(input[r].marks) \in Nat
        BY <2>2, MarksAreLists
      <4>. QED  BY <2>1, <2>5, <4>1 DEF Through
    <3>3. SignersMoved(r)'
      BY <2>1, <2>5, <3>2 DEF SignersMoved, Touches, NoSigners
    <3>. QED  BY <2>2, <2>4, <3>1, <3>3 DEF WrittenAsLedger, MovedRows
  <2>. QED  BY <2>1, <2>4, <2>7, <2>8, <2>9, QuietLedger
<1>. QED  BY <1>1, <1>2

LEMMA UpdateSignerLedger ==
    ASSUME TypeOK, InputInv, NumberInv, UpdateInv, LedgerInv, NEW r \in Requests,
           UpdateSignerStatus(r)
    PROVE  LedgerInv'
<1>1. CASE Rollback(r, "failed")
  BY <1>1, RollbackLedger
<1>2. CASE ~Rollback(r, "failed")
  <2> DEFINE d == input[r].doc
             n == mark[r]
             m == input[r].marks[n]
             stamp == CASE m.status = "signed"  -> start[r]
                        [] m.status = "pending" -> 0
                        [] OTHER -> Overlay(signRow[d], signW[r])[m.signer].at
  <2>1. /\ pc[r] = "marks" /\ n \in DOMAIN input[r].marks /\ m.signer \in Signers
        /\ signRow[d][m.signer] # NoSigner
        /\ \A q \in Requests \ {r} : ~HoldsSigner(q, d, m.signer)
        /\ signW' = [signW EXCEPT ![r][m.signer] = [status |-> m.status, at |-> stamp]]
        /\ mark' = [mark EXCEPT ![r] = @ + 1]
        /\ UNCHANGED <<tables, clock, pc, input, start, num, docW, seen, answer>>
    BY <1>2 DEF UpdateSignerStatus
  <2>2. /\ ~Creates(r) /\ input[r] \in UpdateInputs /\ ValidUpdate(input[r]) /\ d \in Requests
        /\ \A q \in Requests : Creates(q)' <=> Creates(q)
    BY <2>1, Kinds DEF InputInv, Creates
  <2>3. /\ \A q \in Requests \ {r} : signW'[q] = signW[q] /\ mark'[q] = mark[q]
        /\ mark'[r] = n + 1 /\ n \in Nat
        /\ signW'[r][m.signer] = [status |-> m.status, at |-> stamp]
        /\ \A g \in Signers : g # m.signer => signW'[r][g] = signW[r][g]
    <3> HIDE DEF stamp, m
    <3>1. /\ signW' = [signW EXCEPT ![r][m.signer] = [status |-> m.status, at |-> stamp]]
          /\ mark' = [mark EXCEPT ![r] = @ + 1] /\ m.signer \in Signers
      BY <2>1
    <3>. QED  BY <3>1 DEF TypeOK
  <2>4. Others(r) /\ pc'[r] = "marks" /\ LedgerCalls'
    <3>1. pc' = [pc EXCEPT ![r] = "marks"]
      BY <2>1 DEF TypeOK
    <3>2. InTx(r) /\ UNCHANGED <<clock, input, start, docW, seen, answer>>
      BY <2>1 DEF InTx
    <3> HIDE DEF m, n, d, stamp
    <3>. QED  BY <2>3, <3>1, <3>2, MovesOn
  <2>5. DocumentMoved(r) /\ SignersMoved(r)
    BY <2>1, <2>2 DEF LedgerInv, WrittenAsLedger, MovedRows
  <2>6. /\ Through(r) \subseteq Nat /\ \A k \in Through(r) : k < n
        /\ Through(r)' = Through(r) \cup {n}
        /\ m.status \in SignerStatuses
    <3>1. DOMAIN input[r].marks = 1 .. Len(input[r].marks) /\ Len(input[r].marks) \in Nat
      BY <2>2, MarksAreLists
    <3>2. \A k \in DOMAIN input[r].marks : k \in Nat /\ (k < n + 1 <=> k < n \/ k = n)
      <4>0. n \in Nat
        BY <2>3
      <4>1. n \in Nat /\ DOMAIN input[r].marks \subseteq Nat
        <5> HIDE DEF n
        <5>. QED  BY <3>1, <4>0
      <4>2. \A k \in Nat : k < n + 1 <=> k < n \/ k = n
        BY <4>1
      <4>. QED  BY <4>1, <4>2
    <3>3. Through(r)' = {k \in DOMAIN input[r].marks : k < n + 1}
      BY <2>1, <2>3 DEF Through
    <3>. QED  BY <2>1, <2>2, <3>2, <3>3 DEF Through, ValidUpdate
  <2>7. NumbersDiffer'
    BY <2>1, <2>2 DEF LedgerInv, NumbersDiffer, Number, tables
  <2>8. LocksExclude'
    <3>1. ASSUME NEW q \in Requests, NEW e \in Requests, NEW g \in Signers, HoldsSigner(q, e, g)'
          PROVE  HoldsSigner(q, e, g) \/ (q = r /\ e = d /\ g = m.signer)
      <4> HIDE DEF m
      <4>. QED  BY <2>1, <2>3, <3>1 DEF HoldsSigner, Creates
    <3>2. \A q, e \in Requests : HoldsDocument(q, e)' <=> HoldsDocument(q, e)
      BY <2>1 DEF HoldsDocument, Creates
    <3> HIDE DEF m, d
    <3>. QED  BY <2>1, <3>1, <3>2 DEF LedgerInv, LocksExclude
  <2>9. WrittenAsLedger(r)'
    <3>1. DocumentMoved(r)'
      BY <2>1, <2>5 DEF DocumentMoved, tables
    <3>2. signRow' = signRow /\ start' = start /\ input' = input
      BY <2>1 DEF tables
    <3>3. ASSUME NEW g \in Signers
          PROVE  /\ signW'[r][g] # NoSigner <=> Touches(r, g)'
                 /\ Touches(r, g)' =>
                       signW'[r][g] = Ledger!SignerAfter(signRow[d][g], input[r].marks,
                                          Through(r) \cup {n}, g, start[r])
      <4>1. Touches(r, g)' <=> Touches(r, g) \/ m.signer = g
        BY <2>6, <3>2 DEF Touches
      <4> DEFINE old == Ledger!SignerAfter(signRow[d][g], input[r].marks, Through(r), g, start[r])
                 new == Ledger!SignerAfter(signRow[d][g], input[r].marks, Through(r) \cup {n}, g,
                                           start[r])
      <4>2. /\ m.signer # g => new = old
            /\ m.signer = g =>
                  new = [status |-> m.status,
                         at |-> CASE m.status = "signed"  -> start[r]
                                  [] m.status = "pending" -> 0
                                  [] OTHER -> old.at]
        <5>1. PICK K, marks, row, now, k :
                  K = Through(r) /\ marks = input[r].marks /\ row = signRow[d][g]
                  /\ now = start[r] /\ k = n
          OBVIOUS
        <5>2. k \in Nat /\ (\A j \in K : j \in Nat /\ j < k) /\ marks[k].status \in SignerStatuses
          BY <2>3, <2>6, <5>1
        <5>3. /\ marks[k].signer # g =>
                    Ledger!SignerAfter(row, marks, K \cup {k}, g, now)
                        = Ledger!SignerAfter(row, marks, K, g, now)
              /\ marks[k].signer = g =>
                    Ledger!SignerAfter(row, marks, K \cup {k}, g, now) =
                        [status |-> marks[k].status,
                         at |-> CASE marks[k].status = "signed"  -> now
                                  [] marks[k].status = "pending" -> 0
                                  [] OTHER -> Ledger!SignerAfter(row, marks, K, g, now).at]
          BY <5>2, SignerAfterEntry
        <5>. QED  BY <5>1, <5>3
      <4>3. CASE m.signer # g
        <5>1. signW'[r][g] = signW[r][g] /\ new = old
          BY <2>3, <4>2, <4>3
        <5>2. /\ signW[r][g] # NoSigner <=> Touches(r, g)
              /\ Touches(r, g) => signW[r][g] = old
          BY <2>5 DEF SignersMoved
        <5>. QED  BY <4>1, <4>3, <5>1, <5>2
      <4>4. CASE m.signer = g
        <5>1. Overlay(signRow[d], signW[r])[g] = old
          <6>1. Overlay(signRow[d], signW[r])[g] =
                    IF signW[r][g] = NoSigner THEN signRow[d][g] ELSE signW[r][g]
            BY DEF Overlay
          <6>2. CASE Touches(r, g)
            BY <2>5, <6>1, <6>2 DEF SignersMoved
          <6>3. CASE ~Touches(r, g)
            <7>1. old = signRow[d][g]
              BY <6>3, SignerUntouched DEF Touches
            <7>. QED  BY <2>5, <6>1, <6>3, <7>1 DEF SignersMoved
          <6>. QED  BY <6>2, <6>3
        <5>2. signW'[r][g] = new
          BY <2>3, <4>2, <4>4, <5>1
        <5>3. signW'[r][g].status \in SignerStatuses
          BY <2>3, <2>6, <4>4
        <5>4. signW'[r][g] # NoSigner
          BY <5>3 DEF NoSigner, SignerStatuses
        <5>. QED  BY <4>1, <4>4, <5>2, <5>4
      <4>. QED  BY <4>3, <4>4
    <3>4. \A k \in Through(r) \cup {n} :
             input[r].marks[k].signer \in Signers /\ signRow[d][input[r].marks[k].signer] # NoSigner
      BY <2>1, <2>5 DEF SignersMoved
    <3>5. SignersMoved(r)'
      BY <2>6, <3>2, <3>3, <3>4 DEF SignersMoved
    <3>. QED  BY <2>2, <2>4, <3>1, <3>5 DEF WrittenAsLedger, MovedRows
  <2>. QED  BY <2>1, <2>4, <2>7, <2>8, <2>9, QuietLedger
<1>. QED  BY <1>1, <1>2

\* The statements that only read.
LEMMA ReadsLedger ==
    ASSUME TypeOK, InputInv, LedgerInv, NEW r \in Requests, NEW p,
           \/ pc[r] = "marks" /\ p = "read"
           \/ pc[r] = "read" /\ p = "commit",
           pc' = [pc EXCEPT ![r] = p],
           \A q \in Requests \ {r} : seen'[q] = seen[q],
           UNCHANGED <<tables, clock, input, txVars, answer>>
    PROVE  LedgerInv'
<1>1. UNCHANGED <<docRow, signRow, start, num, docW, signW, mark>>
  BY DEF tables, txVars
<1>2. ~Creates(r) /\ InTx(r)
  BY DEF InputInv, InTx
<1>3. Others(r) /\ pc'[r] = p /\ LedgerCalls'
  BY <1>1, <1>2, MovesOn
<1>4. Keeps(r)
  BY <1>1 DEF Keeps
<1>5. WrittenAsLedger(r)'
  BY <1>1, <1>2, <1>3, StaysWritten DEF LedgerInv
<1>. QED  BY <1>1, <1>3, <1>4, <1>5, KeepsLedger

\* A commit of another handler takes nothing away that q's rows come from: q's locks hold it off.
LEMMA CommitSpares ==
    ASSUME TypeOK, InputInv, NumberInv, UpdateInv, LedgerInv, NEW r \in Requests, NEW reply,
           Commit(r, reply), NEW q \in Requests \ {r}, ~Creates(q),
           pc[q] \in {"marks", "read", "commit"}
    PROVE  /\ docW[q] # NoDoc => docRow'[input[q].doc] = docRow[input[q].doc]
           /\ \A g \in Signers :
                 /\ signRow[input[q].doc][g] # NoSigner => signRow'[input[q].doc][g] # NoSigner
                 /\ signW[q][g] # NoSigner =>
                       signRow'[input[q].doc][g] = signRow[input[q].doc][g]
<1> DEFINE t == Target(r)
           d == input[q].doc
<1>1. /\ t \in Requests
      /\ \A e \in Requests \ {t} : docRow'[e] = docRow[e] /\ signRow'[e] = signRow[e]
      /\ docRow'[t] = IF docW[r] = NoDoc THEN docRow[t] ELSE docW[r]
      /\ signRow'[t] = Overlay(signRow[t], signW[r])
  BY CommitWrites
<1>2. d \in Requests
  BY Kinds DEF InputInv, Creates
<1>3. \A g \in Signers : signRow'[t][g] = IF signW[r][g] = NoSigner THEN signRow[t][g]
                                                                    ELSE signW[r][g]
  BY <1>1 DEF Overlay
<1>4. CASE d # t
  BY <1>1, <1>2, <1>4
<1>5. CASE d = t /\ Creates(r)
  <2>1. docRow[d] = NoDoc
    BY <1>5, CommitEffect DEF Target
  <2>2. docW[q] = NoDoc
    BY <2>1 DEF NumberInv, UncommittedRows
  <2>3. signRow[d] = NoSigners
    BY <1>2, <2>1 DEF UpdateInv, RowsFit
  <2>4. ASSUME NEW g \in Signers PROVE signW[q][g] = NoSigner /\ signRow[d][g] = NoSigner
    <3>1. SignersMoved(q) /\ signRow[d][g] = NoSigner
      BY <2>3 DEF LedgerInv, WrittenAsLedger, MovedRows, NoSigners
    <3>. QED  BY <3>1 DEF SignersMoved, Touches
  <2>. QED  BY <2>2, <2>4
<1>6. CASE d = t /\ ~Creates(r)
  <2>1. t = input[r].doc
    BY <1>6 DEF Target
  <2>2. docW[q] # NoDoc => docW[r] = NoDoc
    BY <1>2, <1>6, <2>1 DEF LedgerInv, LocksExclude, HoldsDocument
  <2>3. \A g \in Signers : signW[q][g] # NoSigner => signW[r][g] = NoSigner
    BY <1>2, <1>6, <2>1 DEF LedgerInv, LocksExclude, HoldsSigner
  <2>. QED  BY <1>1, <1>3, <1>6, <2>2, <2>3
<1>. QED  BY <1>4, <1>5, <1>6

LEMMA CommitLedger ==
    ASSUME TypeOK, InputInv, NumberInv, UpdateInv, LedgerInv, NEW r \in Requests, NEW reply,
           Commit(r, reply)
    PROVE  LedgerInv'
<1>1. /\ Others(r) /\ Keeps(r) /\ LedgerCalls' /\ WrittenAsLedger(r)'
      /\ \A q \in Requests \ {r} : num'[q] = num[q]
  BY FinishLedger DEF Commit, LedgerInv
<1>2. \A q \in Requests : Keeps(q)
  BY <1>1, OthersKeep
<1>3. LocksExclude'
  BY <1>2, LocksKept DEF LedgerInv
<1>4. NumbersDiffer'
  <2>1. ASSUME NEW q \in Requests, Creates(q)', docW'[q] # NoDoc
        PROVE  q # r /\ Creates(q) /\ docW'[q] = docW[q] /\ docW[q] # NoDoc
    <3>1. q # r
      BY <2>1 DEF Commit, Finish, TypeOK
    <3>. QED  BY <1>2, <2>1, <3>1 DEF Keeps, Creates
  <2>2. ASSUME NEW d \in Requests, docRow'[d] # NoDoc
        PROVE  \/ docRow[d] # NoDoc /\ Number(docRow'[d]) = Number(docRow[d])
               \/ Creates(r) /\ docW[r] # NoDoc /\ docRow'[d] = docW[r]
    BY <2>2, CommitEffect DEF TypeOK, Number
  <2>. QED  BY <2>1, <2>2 DEF LedgerInv, NumbersDiffer, Number
<1>5. ASSUME NEW q \in Requests \ {r} PROVE WrittenAsLedger(q)'
  BY <1>1, CommitSpares, StaysWritten DEF Others, LedgerInv
<1>. QED  BY <1>1, <1>3, <1>4, <1>5 DEF LedgerInv

LEMMA NextLedger ==
    TypeOK /\ InputInv /\ NumberInv /\ UpdateInv /\ LedgerInv /\ [Next]_vars => LedgerInv'
<1> SUFFICES ASSUME TypeOK, InputInv, NumberInv, UpdateInv, LedgerInv, [Next]_vars
             PROVE  LedgerInv'
  OBVIOUS
<1>1. CASE UNCHANGED vars
  <2>1. /\ UNCHANGED <<tables, docRow, signRow, clock, pc, input, start, num, docW, signW, mark,
                       seen, answer>>
        /\ UNCHANGED tables
    BY <1>1 DEF vars, tables, txVars
  <2>2. \A q \in Requests : Keeps(q)
    BY <2>1 DEF Keeps
  <2>3. LedgerCalls'
    BY <2>1 DEF LedgerInv, LedgerCalls, InTx
  <2>4. NumbersDiffer' /\ LocksExclude'
    BY <2>1, <2>2, NumbersKept, LocksKept DEF LedgerInv
  <2>5. ASSUME NEW q \in Requests PROVE WrittenAsLedger(q)'
    BY <2>1, StaysWritten DEF LedgerInv
  <2>. QED  BY <2>3, <2>4, <2>5 DEF LedgerInv
<1>2. ASSUME NEW r \in Requests, Step(r)
      PROVE  LedgerInv'
  <2>1. CASE SignersUpdated(r)
    BY <2>1, ReadsLedger DEF SignersUpdated
  <2>2. CASE GetDocumentTx(r)
    <3>1. CASE Rollback(r, "not_found")
      BY <3>1, RollbackLedger
    <3>2. CASE ~Rollback(r, "not_found")
      <4>1. /\ pc[r] = "read" /\ pc' = [pc EXCEPT ![r] = "commit"]
            /\ \E rows : seen' = [seen EXCEPT ![r] = rows]
            /\ UNCHANGED <<tables, clock, input, txVars, answer>>
        BY <2>2, <3>2 DEF GetDocumentTx, AttachSignersInTx, AttachSignersFromPool
      <4>2. \A q \in Requests \ {r} : seen'[q] = seen[q]
        BY <4>1 DEF TypeOK
      <4>. QED  BY <4>1, <4>2, ReadsLedger
    <3>. QED  BY <3>1, <3>2
  <2>3. CASE DeadlockVictim(r)
    BY <2>3, RollbackLedger DEF DeadlockVictim
  <2>. QED  BY <1>2, <2>1, <2>2, <2>3, BeginTxLedger, NextNumberLedger, InsertDocumentLedger,
               InsertDocumentSignersLedger, UpdateFieldsLedger, UpdateSignerLedger, CommitLedger
            DEF Step
<1>3. ASSUME NEW r \in Requests, Disconnect(r)
      PROVE  LedgerInv'
  BY <1>3, RollbackLedger DEF Disconnect
<1>. QED  BY <1>1, <1>2, <1>3, ReceiveLedger, CommitLedger DEF Next

\* The commit of a create is the ledger's Create.
LEMMA CreateServed ==
    ASSUME TypeOK, InputInv, NumberInv, UpdateInv, LedgerInv, NEW r \in Requests, NEW reply,
           Commit(r, reply), Creates(r)
    PROVE  Ledger!Create(r)
<1> DEFINE s == input[r].seq
           listed == [g \in Signers |-> IF \E k \in DOMAIN input[r].signers : input[r].signers[k] = g
                                       THEN [status |-> "pending", at |-> 0]
                                       ELSE NoSigner]
<1>1. /\ pc[r] = "commit" /\ Target(r) = r /\ docRow[r] = NoDoc /\ s \in NumberSequences
      /\ docW[r] \in DocRow /\ docW[r].seq = s /\ docW[r].value = seqRow[s] + 1
      /\ docRow' = [docRow EXCEPT ![r] = docW[r]]
      /\ seqRow' = [seqRow EXCEPT ![s] = seqRow[s] + 1]
      /\ signRow' = [signRow EXCEPT ![r] = Overlay(@, signW[r])]
  BY CommitEffect DEF Target, Commit
<1>2. docW[r] = NewDocument(r) /\ NewRows(r) /\ docW[r] # NoDoc
  BY <1>1 DEF LedgerInv, WrittenAsLedger, NewRows
<1>3. docW[r] = [seq |-> s, value |-> seqRow[s] + 1, status |-> InitialStatus(input[r]),
                 issued |-> start[r], signed |-> 0, archived |-> 0]
  <2>1. NewDocument(r).value = num[r]
    BY DEF NewDocument
  <2>. QED  BY <1>1, <1>2, <2>1 DEF NewDocument
<1>4. start[r] \in 1 .. clock
  BY <1>1 DEF LedgerInv, LedgerCalls, InTx
<1>5. \A d \in Requests : ~Ledger!Bears(docRow[d], s, seqRow[s] + 1)
  BY <1>1, <1>2 DEF LedgerInv, NumbersDiffer, Number, Ledger!Bears
<1>6. Overlay(signRow[r], signW[r]) = listed
  <2>1. signRow[r] = NoSigners /\ Held(r)
    BY <1>1 DEF UpdateInv, RowsFit
  <2>2. \A g \in Signers : signW[r][g] = listed[g] /\ signRow[r][g] = NoSigner
    BY <1>1, <2>1 DEF Held, CreateHeld, Listed, NoSigners
  <2>. QED  BY <2>2 DEF Overlay
<1>7. input[r].op = "create" /\ InitialStatus(input[r]) =
          IF input[r].status = "" THEN "issued" ELSE input[r].status
  BY DEF Creates, InitialStatus
<1>8. docRow' = [docRow EXCEPT ![r] =
          [seq |-> s, value |-> seqRow[s] + 1,
           status |-> IF input[r].status = "" THEN "issued" ELSE input[r].status,
           issued |-> start[r], signed |-> 0, archived |-> 0]]
  BY <1>1, <1>3, <1>7
<1>9. signRow' = [signRow EXCEPT ![r] =
          [g \in Signers |-> IF \E k \in DOMAIN input[r].signers : input[r].signers[k] = g
                            THEN [status |-> "pending", at |-> 0]
                            ELSE Ledger!NoSigner]]
  BY <1>1, <1>6 DEF NoSigner, Ledger!NoSigner
<1>. QED  BY <1>1, <1>2, <1>4, <1>5, <1>7, <1>8, <1>9 DEF Ledger!Create, NewRows

\* The commit of an update is the ledger's Update.
LEMMA UpdateServed ==
    ASSUME TypeOK, InputInv, NumberInv, UpdateInv, LedgerInv, NEW r \in Requests, NEW reply,
           Commit(r, reply), ~Creates(r)
    PROVE  Ledger!Update(r)
<1> DEFINE d == input[r].doc
           marks == input[r].marks
           now == start[r]
           after == [g \in Signers |->
                         Ledger!SignerAfter(signRow[d][g], marks, DOMAIN marks, g, now)]
<1>1. /\ pc[r] = "commit" /\ Target(r) = d /\ d \in Requests
      /\ input[r] \in UpdateInputs /\ ValidUpdate(input[r]) /\ input[r].op = "update"
      /\ docRow' = [docRow EXCEPT ![d] = IF docW[r] = NoDoc THEN @ ELSE docW[r]]
      /\ signRow' = [signRow EXCEPT ![d] = Overlay(@, signW[r])]
      /\ seqRow' = seqRow
  BY Kinds DEF Commit, Target, InputInv, Creates
<1>2. docRow[d] # NoDoc /\ docRow[d] \in DocRow /\ mark[r] \notin DOMAIN marks
  BY <1>1 DEF UpdateInv, Held, UpdateHeld, TypeOK
<1>3. now \in 1 .. clock /\ now \in Nat
  BY <1>1 DEF LedgerInv, LedgerCalls, InTx, TypeOK
<1>4. DocumentMoved(r) /\ SignersMoved(r)
  BY <1>1 DEF LedgerInv, WrittenAsLedger, MovedRows
<1>5. Through(r) = DOMAIN marks
  <2>1. DOMAIN marks = 1 .. Len(marks) /\ Len(marks) \in Nat /\ mark[r] \in Nat \ {0}
    BY <1>1, MarksAreLists DEF TypeOK
  <2>2. \A k \in DOMAIN marks : k < mark[r]
    BY <1>2, <2>1
  <2>. QED  BY <2>2 DEF Through
<1>6. docRow' = [docRow EXCEPT ![d] = Ledger!Moved(@, input[r].status, now)]
  <2>1. input[r].status \in Statuses \cup {"keep"}
    BY <1>1 DEF ValidUpdate
  <2>2. (IF docW[r] = NoDoc THEN docRow[d] ELSE docW[r])
            = Ledger!Moved(docRow[d], input[r].status, now)
    BY <1>2, <1>3, <1>4, <2>1, StampedIsMoved DEF DocumentMoved
  <2>. QED  BY <1>1, <2>2
<1>7. Overlay(signRow[d], signW[r]) = after
  <2>1. ASSUME NEW g \in Signers
        PROVE  Overlay(signRow[d], signW[r])[g] = after[g]
    <3>1. Overlay(signRow[d], signW[r])[g] =
              IF signW[r][g] = NoSigner THEN signRow[d][g] ELSE signW[r][g]
      BY DEF Overlay
    <3>2. after[g] = Ledger!SignerAfter(signRow[d][g], marks, Through(r), g, now)
      BY <1>5
    <3>3. CASE Touches(r, g)
      BY <1>4, <3>1, <3>2, <3>3 DEF SignersMoved
    <3>4. CASE ~Touches(r, g)
      <4>1. Ledger!SignerAfter(signRow[d][g], marks, Through(r), g, now) = signRow[d][g]
        BY <3>4, SignerUntouched DEF Touches
      <4>. QED  BY <1>4, <3>1, <3>2, <3>4, <4>1 DEF SignersMoved
    <3>. QED  BY <3>3, <3>4
  <2>2. /\ Overlay(signRow[d], signW[r]) = [g \in Signers |-> Overlay(signRow[d], signW[r])[g]]
        /\ after = [g \in Signers |-> after[g]]
    BY DEF Overlay
  <2> HIDE DEF after
  <2>. QED  BY <2>1, <2>2
<1>8. signRow' = [signRow EXCEPT ![d] = after]
  BY <1>1, <1>7
<1>9. \A k \in DOMAIN marks :
          marks[k].signer \in Signers /\ signRow[d][marks[k].signer] # Ledger!NoSigner
  BY <1>4, <1>5 DEF SignersMoved, NoSigner, Ledger!NoSigner
<1>. QED  BY <1>1, <1>2, <1>3, <1>6, <1>8, <1>9 DEF Ledger!Update

LEMMA Served ==
    ASSUME TypeOK, InputInv, NumberInv, UpdateInv, LedgerInv, NEW r \in Requests,
           NEW reply \in {"ok", "lost"}, Commit(r, reply)
    PROVE  Ledger!Succeed(r)
<1>1. Ledger!Create(r) \/ Ledger!Update(r)
  BY CreateServed, UpdateServed
<1>2. answer[r] = "none"
  BY DEF Commit, LedgerInv, LedgerCalls
<1>3. answer' = [answer EXCEPT ![r] = reply] /\ UNCHANGED <<clock, input>>
  BY DEF Commit, Finish
<1>. QED  BY <1>1, <1>2, <1>3 DEF Ledger!Succeed, Ledger!Answer

\* A transaction that is rolled back is a failure of the ledger, or no step of it at all.
LEMMA RolledBack ==
    ASSUME TypeOK, InputInv, LedgerInv, NEW r \in Requests, InTx(r), NEW reply,
           Rollback(r, reply),
           \/ reply = "failed"
           \/ reply = "not_found" /\ ~Creates(r) /\ docRow[input[r].doc] = NoDoc
           \/ /\ reply = "duplicate" /\ Creates(r) /\ input[r].seq \in NumberSequences
              /\ \E d \in Requests : docRow[d] # NoDoc
                    /\ Number(docRow[d]) = <<Prefix[input[r].seq], seqRow[input[r].seq] + 1>>
    PROVE  Ledger!Fail(r)
<1>1. /\ answer[r] = "none" /\ input[r] \in CreateInputs \cup UpdateInputs
      /\ ~Creates(r) => input[r].op = "update"
  BY Kinds DEF LedgerInv, LedgerCalls, InTx, InputInv, Creates
<1>2. input[r] # Ledger!NoBody
  BY <1>1, Kinds DEF Ledger!NoBody, NoInput
<1>3. answer' = [answer EXCEPT ![r] = reply]
  BY DEF Rollback, Finish
<1>4. UNCHANGED <<seqRow, docRow, signRow, clock, input>>
  BY DEF Rollback, Finish, tables
<1>5. CASE reply = "failed" \/ reply = "not_found"
  BY <1>1, <1>2, <1>3, <1>4, <1>5 DEF Ledger!Fail, Ledger!Answer, Creates
<1>6. CASE reply = "duplicate"
  <2>1. Creates(r) /\ input[r].seq \in NumberSequences
    BY <1>6
  <2>2. PICK d \in Requests : docRow[d] # NoDoc
            /\ Number(docRow[d]) = <<Prefix[input[r].seq], seqRow[input[r].seq] + 1>>
    BY <1>6
  <2>3. Ledger!Bears(docRow[d], input[r].seq, seqRow[input[r].seq] + 1)
    BY <2>2 DEF Number, Ledger!Bears
  <2>. QED  BY <1>1, <1>2, <1>3, <1>4, <1>6, <2>1, <2>3 DEF Ledger!Fail, Ledger!Answer, Creates
<1>. QED  BY <1>5, <1>6

\* Every step of the program is a step of the ledger, or one it does not see.
LEMMA LedgerSteps ==
    ASSUME TypeOK, InputInv, NumberInv, UpdateInv, LedgerInv, [Next]_vars
    PROVE  [Ledger!Next]_(Ledger!vars)
<1> DEFINE Unseen == UNCHANGED <<seqRow, docRow, signRow, clock, input, answer>>
<1>1. ASSUME Unseen PROVE [Ledger!Next]_(Ledger!vars)
  BY <1>1 DEF Ledger!vars
<1>2. ASSUME NEW r \in Requests, Ledger!Succeed(r) \/ Ledger!Fail(r) \/ Ledger!Tick
      PROVE  [Ledger!Next]_(Ledger!vars)
  BY <1>2 DEF Ledger!Next
<1>3. ASSUME NEW r \in Requests, InTx(r), Rollback(r, "failed")
      PROVE  [Ledger!Next]_(Ledger!vars)
  BY <1>2, <1>3, RolledBack
<1>4. ASSUME NEW r \in Requests, NEW i \in CreateInputs \cup UpdateInputs, Receive(r, i)
      PROVE  [Ledger!Next]_(Ledger!vars)
  <2>1. /\ pc[r] = "idle" /\ input' = [input EXCEPT ![r] = i]
        /\ UNCHANGED <<seqRow, docRow, signRow, clock>>
    BY <1>4 DEF Receive, tables
  <2>2. input[r] = Ledger!NoBody
    BY <2>1 DEF LedgerInv, LedgerCalls, NoInput, Ledger!NoBody
  <2>3. (i.op = "create" /\ ValidCreate(i)) \/ (i.op = "update" /\ ValidUpdate(i))
            <=> Ledger!Sound(i)
    BY Kinds DEF ValidCreate, ValidUpdate, InitialStatus, Ledger!Sound, Statuses, SignerStatuses,
                 Ledger!Statuses, Ledger!SignerStatuses
  <2>4. answer' = [answer EXCEPT ![r] = IF Ledger!Sound(i) THEN @ ELSE "refused"]
    BY <1>4, <2>3 DEF Receive, TypeOK
  <2>. QED  BY <2>1, <2>2, <2>4 DEF Ledger!Ask, Ledger!Next
<1>5. ASSUME NEW r \in Requests, Step(r)
      PROVE  [Ledger!Next]_(Ledger!vars)
  <2>1. CASE BeginTx(r)
    BY <1>2, <2>1 DEF BeginTx, Ledger!Tick, tables
  <2>2. CASE NextNumber(r) \/ InsertDocumentSigners(r) \/ UpdateSignerStatus(r)
    <3>1. InTx(r) /\ (Rollback(r, "failed") \/ Unseen)
      BY <2>2 DEF NextNumber, InsertDocumentSigners, UpdateSignerStatus, InTx, tables
    <3>. QED  BY <1>1, <1>3, <3>1
  <2>3. CASE InsertDocument(r)
    <3>1. pc[r] = "insert" /\ InTx(r)
      BY <2>3 DEF InsertDocument, InTx
    <3>2. CASE \E d \in Requests : docRow[d] # NoDoc /\ Number(docRow[d]) = Number(NewDocument(r))
      <4>1. Rollback(r, "duplicate")
        BY <2>3, <3>2 DEF InsertDocument
      <4>2. Creates(r) /\ input[r].seq \in NumberSequences /\ num[r] = seqRow[input[r].seq] + 1
        BY <3>1 DEF InputInv, NumberInv, HeldNumbers
      <4>3. Number(NewDocument(r)) = <<Prefix[input[r].seq], seqRow[input[r].seq] + 1>>
        BY <4>2 DEF Number, NewDocument
      <4>. QED  BY <1>2, <3>1, <3>2, <4>1, <4>2, <4>3, RolledBack
    <3>3. CASE ~\E d \in Requests : docRow[d] # NoDoc /\ Number(docRow[d]) = Number(NewDocument(r))
      <4>1. Rollback(r, "failed") \/ Unseen
        BY <2>3, <3>3 DEF InsertDocument, tables
      <4>. QED  BY <1>1, <1>3, <3>1, <4>1
    <3>. QED  BY <3>2, <3>3
  <2>4. CASE UpdateDocumentFields(r) \/ GetDocumentTx(r)
    <3>1. InTx(r) /\ ~Creates(r)
      BY <2>4 DEF UpdateDocumentFields, GetDocumentTx, InputInv, InTx
    <3>2. Unseen \/ (docRow[input[r].doc] = NoDoc /\ Rollback(r, "not_found"))
      BY <2>4 DEF UpdateDocumentFields, GetDocumentTx, tables
    <3>. QED  BY <1>1, <1>2, <3>1, <3>2, RolledBack
  <2>5. CASE SignersUpdated(r)
    BY <1>1, <2>5 DEF SignersUpdated, tables
  <2>6. CASE DeadlockVictim(r)
    <3>1. Rollback(r, "failed")
      BY <2>6 DEF DeadlockVictim
    <3>2. InTx(r)
      <4>1. \E q : q \in Blockers(r)
        BY <2>6 DEF DeadlockVictim, WaitCycle
      <4>. QED  BY <4>1 DEF Blockers, InTx
    <3>. QED  BY <1>3, <3>1, <3>2
  <2>7. CASE Commit(r, "ok")
    BY <1>2, <2>7, Served
  <2>. QED  BY <1>5, <2>1, <2>2, <2>3, <2>4, <2>5, <2>6, <2>7 DEF Step
<1>6. ASSUME NEW r \in Requests, Commit(r, "lost") \/ Disconnect(r)
      PROVE  [Ledger!Next]_(Ledger!vars)
  BY <1>2, <1>3, <1>6, Served DEF Disconnect
<1>7. CASE UNCHANGED vars
  BY <1>1, <1>7 DEF vars, tables
<1>. QED  BY <1>4, <1>5, <1>6, <1>7 DEF Next

\* Whatever requests of both programs interleave, wait, deadlock, fail and are rolled back, the
\* tables and the replies are those of a ledger that serves one request at a time: each that
\* succeeds starts from the rows the last one left, and the others leave nothing.
THEOREM ServesLikeLedger == Spec => ImplementsLedger
<1>1. Init => Ledger!Init
  BY DEF Init, Ledger!Init, NoSigners, NoSigner, Ledger!NoSigner, NoInput, Ledger!NoBody
<1>2. Init => TypeOK /\ InputInv /\ NumberInv /\ UpdateInv /\ LedgerInv
  BY InitTypes, InitNumbers, InitHeld, InitLedger
<1>3. TypeOK /\ InputInv /\ NumberInv /\ UpdateInv /\ LedgerInv /\ [Next]_vars
          => (TypeOK /\ InputInv /\ NumberInv /\ UpdateInv /\ LedgerInv)'
  BY NextTypes, NextNumbers, NextHeld, NextLedger
<1>4. TypeOK /\ InputInv /\ NumberInv /\ UpdateInv /\ LedgerInv /\ [Next]_vars
          => [Ledger!Next]_(Ledger!vars)
  BY LedgerSteps
<1>. QED  BY <1>1, <1>2, <1>3, <1>4, PTL DEF Spec, ImplementsLedger, Ledger!Spec

-------------------------------------------------------------------------------
(* Deadlocks, and the gateway's pool. *)

\* The lock r's next statement waits for is q's: a row lock (Blockers), the sequence's FOR
\* UPDATE, or the key of an uncommitted insert.
WaitsFor(r, q) ==
    \/ q \in Blockers(r)
    \/ pc[r] = "number" /\ q # r /\ HoldsSequence(q, input[r].seq)
    \/ /\ pc[r] = "insert" /\ Creates(q) /\ docW[q] # NoDoc
       /\ Number(docW[q]) = Number(NewDocument(r))

\* Transactions that wait for one another, and no fewer of them do.
Ring(c) == c # {} /\ \A q \in c : \E p \in c : WaitsFor(q, p)
Deadlock(c) == Ring(c) /\ \A b \in SUBSET c : Ring(b) => b = c

\* A deadlock is one of updates alone, all of one document, each of which has already written
\* one signer and waits for another: creates never are in one, nor updates of a single signer.
\* So the rings of Blockers that DeadlockVictim looks for are all there are.
DeadlocksAmongLists ==
    \A c \in SUBSET Requests : Deadlock(c) =>
        /\ WaitCycle(c)
        /\ \A q \in c :
              /\ pc[q] = "marks" /\ mark[q] > 1 /\ signW[q] # NoSigners
              /\ \A p \in c : input[p].doc = input[q].doc

\* One that holds nothing another waits for is in no deadlock.
LEMMA DeadlockedHold ==
    ASSUME NEW c \in SUBSET Requests, Deadlock(c), NEW r \in c, \A q \in c : ~WaitsFor(q, r)
    PROVE  FALSE
<1> DEFINE b == c \ {r}
<1>1. \A q \in c : \E p \in b : WaitsFor(q, p)
  BY DEF Deadlock, Ring
<1>2. b # {}
  BY <1>1
<1>3. Ring(b)
  BY <1>1, <1>2 DEF Ring
<1>. QED  BY <1>3 DEF Deadlock

LEMMA WaitersAndHolders ==
    ASSUME TypeOK, InputInv, NumberInv, UpdateInv, LedgerInv,
           NEW r \in Requests, NEW q \in Requests, WaitsFor(r, q)
    PROVE  \/ pc[r] = "insert" /\ pc[q] \in {"signers", "commit"}
           \/ pc[r] = "number" /\ pc[q] \in {"insert", "signers", "commit"}
           \/ /\ pc[r] \in {"fields", "marks"} /\ pc[q] \in {"marks", "read", "commit"}
              /\ input[r].doc = input[q].doc /\ ~Creates(q)
              /\ pc[r] = "marks" => signW[q] # NoSigners
<1>1. CASE pc[r] = "number" /\ HoldsSequence(q, input[r].seq)
  BY <1>1 DEF HoldsSequence, NumberInv, HeldNumbers
<1>2. CASE pc[r] = "insert" /\ Creates(q) /\ docW[q] # NoDoc
  BY <1>2 DEF NumberInv, UncommittedRows
<1>3. CASE q \in Blockers(r)
  <2>1. /\ pc[r] \in {"fields", "marks"} /\ ~Creates(q) /\ input[q].doc = input[r].doc
        /\ docW[q] # NoDoc \/ \E g \in Signers : signW[q][g] # NoSigner
        /\ pc[r] = "marks" => \E g \in Signers : signW[q][g] # NoSigner
    BY <1>3 DEF Blockers, HoldsDocument, HoldsSigner
  <2>2. MovedRows(q)
    BY <2>1 DEF LedgerInv, WrittenAsLedger
  <2>. QED  BY <2>1, <2>2 DEF MovedRows, NoSigners
<1>. QED  BY <1>1, <1>2, <1>3 DEF WaitsFor

LEMMA DeadlocksFound ==
    ASSUME TypeOK, InputInv, NumberInv, UpdateInv, LedgerInv
    PROVE  DeadlocksAmongLists
<1> SUFFICES ASSUME NEW c \in SUBSET Requests, Deadlock(c), NEW q \in c
             PROVE  /\ WaitCycle(c)
                    /\ pc[q] = "marks" /\ mark[q] > 1 /\ signW[q] # NoSigners
                    /\ \A p \in c : input[p].doc = input[q].doc
  BY DEF DeadlocksAmongLists, Deadlock, Ring
<1>1. \A r \in c : pc[r] \in {"number", "insert", "fields", "marks"}
  BY WaitersAndHolders DEF Deadlock, Ring
<1>2. \A r \in c : pc[r] # "insert"
  BY <1>1, WaitersAndHolders DEF Deadlock, Ring
<1>3. \A r \in c : pc[r] # "number"
  BY <1>1, <1>2, WaitersAndHolders DEF Deadlock, Ring
<1>4. \A r \in c : pc[r] = "marks"
  <2>1. \A r, p \in c : WaitsFor(r, p) => pc[p] = "marks"
    BY <1>1, <1>2, <1>3, WaitersAndHolders
  <2>2. ASSUME NEW r \in c, pc[r] # "marks" PROVE FALSE
    BY <2>1, <2>2, DeadlockedHold
  <2>. QED  BY <2>2
<1>5. ASSUME NEW r \in c PROVE signW[r] # NoSigners
  <2>1. PICK p \in c : WaitsFor(p, r)
    BY DeadlockedHold
  <2>. QED  BY <1>4, <2>1, WaitersAndHolders
<1>6. mark[q] > 1
  <2>1. PICK g \in Signers : signW[q][g] # NoSigner
    <3>1. signW[q] \in [Signers -> SignerRow] /\ NoSigners \in [Signers -> SignerRow]
      BY NoSignersType DEF TypeOK
    <3>. QED  BY <1>5, <3>1 DEF NoSigners
  <2>2. ~Creates(q) /\ input[q] \in UpdateInputs /\ SignersMoved(q)
    BY <1>4, Kinds DEF InputInv, LedgerInv, WrittenAsLedger, MovedRows, Creates
  <2>3. PICK k \in Through(q) : TRUE
    BY <2>1, <2>2 DEF SignersMoved, Touches
  <2>4. DOMAIN input[q].marks = 1 .. Len(input[q].marks) /\ Len(input[q].marks) \in Nat
    BY <2>2, MarksAreLists
  <2>. QED  BY <2>3, <2>4 DEF Through, TypeOK
<1>7. \A p \in c : input[p].doc = input[q].doc
  <2> DEFINE b == {p \in c : input[p].doc = input[q].doc}
  <2>1. ASSUME NEW p \in b PROVE \E s \in b : WaitsFor(p, s)
    <3>1. PICK s \in c : WaitsFor(p, s)
      BY DEF Deadlock, Ring
    <3>2. input[p].doc = input[s].doc
      BY <1>4, <3>1, WaitersAndHolders
    <3>. QED  BY <3>1, <3>2
  <2>2. q \in b
    OBVIOUS
  <2>3. Ring(b)
    BY <2>1, <2>2 DEF Ring
  <2>4. b = c
    BY <2>3 DEF Deadlock
  <2>. QED  BY <2>4
<1>8. WaitCycle(c)
  BY <1>4 DEF Deadlock, Ring, WaitCycle, WaitsFor
<1>. QED  BY <1>4, <1>5, <1>6, <1>7, <1>8

LEMMA LedgerThroughout == Spec => [](TypeOK /\ InputInv /\ NumberInv /\ UpdateInv /\ LedgerInv)
<1>1. Init => TypeOK /\ InputInv /\ NumberInv /\ UpdateInv /\ LedgerInv
  BY InitTypes, InitNumbers, InitHeld, InitLedger
<1>2. TypeOK /\ InputInv /\ NumberInv /\ UpdateInv /\ LedgerInv /\ [Next]_vars
          => (TypeOK /\ InputInv /\ NumberInv /\ UpdateInv /\ LedgerInv)'
  BY NextTypes, NextNumbers, NextHeld, NextLedger
<1>. QED  BY <1>1, <1>2, PTL DEF Spec

\* Whatever is issued and updated at once, PostgreSQL only ever meets deadlocks among updates
\* that name two or more signers of one document: neither a create nor a plain update of a
\* document is made to fail by one.
THEOREM OnlyListsDeadlock == Spec => []DeadlocksAmongLists
BY LedgerThroughout, DeadlocksFound, PTL

\* Every connection of the gateway is out, each to an update that waits for one more.
PoolExhausted ==
    /\ ~FreeConn("gateway")
    /\ \A r \in Requests : Site[r] = "gateway" /\ InTx(r) =>
          pc[r] = "read" /\ docRow[input[r].doc] # NoDoc

\* Nothing but a lost connection frees a pool that waits for itself.
StaysExhausted ==
    [][PoolExhausted => PoolExhausted' \/ \E r \in Requests : Disconnect(r)]_vars

LEMMA ExhaustedStays ==
    ASSUME TypeOK, InputInv, NumberInv, UpdateInv, PoolExhausted, [Next]_vars,
           \A r \in Requests : ~Disconnect(r)
    PROVE  PoolExhausted'
<1> DEFINE out == {r \in Requests : Site[r] = "gateway" /\ InTx(r)}
<1>1. /\ ~(Cardinality(out) < MaxConns["gateway"])
      /\ \A r \in out : pc[r] = "read" /\ docRow[input[r].doc] # NoDoc
  BY DEF PoolExhausted, FreeConn
\* What it takes of a step: the gateway's transactions stand, and documents stay.
<1>2. ASSUME \A r \in Requests : Site[r] = "gateway" =>
                 /\ InTx(r)' <=> InTx(r)
                 /\ InTx(r) => pc'[r] = pc[r] /\ input'[r] = input[r],
             DocumentsStay
      PROVE  PoolExhausted'
  <2>1. out' = out
    BY <1>2
  <2>2. \A r \in out : input[r].doc \in Requests
    BY <1>1, Kinds DEF InputInv, Creates
  <2>3. \A r \in out : pc'[r] = "read" /\ docRow'[input'[r].doc] # NoDoc
    BY <1>1, <1>2, <2>2 DEF DocumentsStay
  <2>4. \A r \in Requests : (Site[r] = "gateway" /\ InTx(r))' => r \in out
    BY <2>1
  <2>. QED  BY <1>1, <2>1, <2>3, <2>4 DEF PoolExhausted, FreeConn
<1>3. DocumentsStay
  BY OnlyCommits, CommitWrites DEF DocumentsStay
<1>4. ASSUME NEW r \in Requests, Step(r) \/ Commit(r, "lost")
      PROVE  PoolExhausted'
  <2>1. (\E p : pc' = [pc EXCEPT ![r] = p]) \/ UNCHANGED pc
    BY <1>4 DEF Step, BeginTx, NextNumber, InsertDocument, InsertDocumentSigners,
                UpdateDocumentFields, UpdateSignerStatus, SignersUpdated, GetDocumentTx,
                DeadlockVictim, Commit, Rollback, Finish
  <2>2. UNCHANGED input
    BY <1>4 DEF Step, BeginTx, NextNumber, InsertDocument, InsertDocumentSigners,
                UpdateDocumentFields, UpdateSignerStatus, SignersUpdated, GetDocumentTx,
                DeadlockVictim, Commit, Rollback, Finish, txVars
  <2>3. Site[r] # "gateway"
    <3> SUFFICES ASSUME Site[r] = "gateway" PROVE FALSE
      OBVIOUS
    <3>1. ~BeginTx(r)
      BY <1>1 DEF BeginTx, FreeConn
    <3>2. InTx(r)
      <4>1. CASE DeadlockVictim(r)
        <5>1. \E q : q \in Blockers(r)
          BY <4>1 DEF DeadlockVictim, WaitCycle
        <5>. QED  BY <5>1 DEF Blockers, InTx
      <4>2. CASE ~DeadlockVictim(r)
        BY <1>4, <3>1, <4>2
           DEF Step, NextNumber, InsertDocument, InsertDocumentSigners, UpdateDocumentFields,
               UpdateSignerStatus, SignersUpdated, GetDocumentTx, Commit, InTx
      <4>. QED  BY <4>1, <4>2
    <3>3. pc[r] = "read" /\ docRow[input[r].doc] # NoDoc
      BY <1>1, <3>2
    <3>4. ~GetDocumentTx(r)
      BY <1>1, <3>3 DEF GetDocumentTx, AttachSignersInTx, AttachSignersFromPool, FreeConn
    <3>. QED  BY <1>4, <3>3, <3>4
              DEF Step, BeginTx, NextNumber, InsertDocument, InsertDocumentSigners,
                  UpdateDocumentFields, UpdateSignerStatus, SignersUpdated, DeadlockVictim,
                  WaitCycle, Blockers, Commit
  <2>4. \A q \in Requests \ {r} : pc'[q] = pc[q]
    BY <2>1 DEF TypeOK
  <2>. QED  BY <1>2, <1>3, <2>2, <2>3, <2>4 DEF InTx
<1>5. ASSUME NEW r \in Requests, NEW i, Receive(r, i)
      PROVE  PoolExhausted'
  <2>1. /\ pc[r] = "idle" /\ pc'[r] \in {"begin", "done"}
        /\ \A q \in Requests \ {r} : pc'[q] = pc[q] /\ input'[q] = input[q]
    BY <1>5 DEF Receive, TypeOK
  <2>. QED  BY <1>2, <1>3, <2>1 DEF InTx
<1>6. CASE UNCHANGED vars
  <2>1. UNCHANGED <<pc, input>>
    BY <1>6 DEF vars
  <2>. QED  BY <1>2, <1>3, <2>1 DEF InTx
<1>. QED  BY <1>4, <1>5, <1>6 DEF Next

\* For a pool of any size: once each of the gateway's connections is out to an update that needs
\* a second one to read its signers, no step of any request frees one of them; they stay out
\* until a connection breaks (the case the docs_gateway_pool run meets with two connections).
THEOREM FullPoolStaysFull == Spec => StaysExhausted
<1>1. TypeOK /\ InputInv /\ NumberInv /\ UpdateInv /\ [Next]_vars
          => [PoolExhausted => PoolExhausted' \/ \E r \in Requests : Disconnect(r)]_vars
  BY ExhaustedStays
<1>. QED  BY <1>1, HeldThroughout, PTL DEF Spec, StaysExhausted

-------------------------------------------------------------------------------
(* Two sequences with one prefix. *)

\* s is behind t in a range of values that both give out.
Lags(s, t) ==
    /\ s # t /\ Prefix[s] = Prefix[t]
    /\ FirstFree[t] <= seqRow[s] /\ seqRow[s] < seqRow[t]

\* Once behind, a sequence stays there: its counter never moves, and no document is created on it.
LaggardStops ==
    [][\A s, t \in NumberSequences : Lags(s, t) =>
          /\ Lags(s, t)' /\ seqRow'[s] = seqRow[s]
          /\ \A r \in Requests : Answers(r) /\ Succeeds(r) /\ Creates(r) => input[r].seq # s]_vars

\* The number that the sequence behind would give out next is taken.
LEMMA NextIsTaken ==
    ASSUME TypeOK, NumberInv, NEW s \in NumberSequences, NEW t \in NumberSequences, Lags(s, t)
    PROVE  \E d \in Requests : docRow[d] # NoDoc /\ Number(docRow[d]) = <<Prefix[s], seqRow[s] + 1>>
<1>1. seqRow[s] \in Nat /\ seqRow[t] \in Nat /\ FirstFree[t] \in Nat
  BY DEF TypeOK
<1>2. seqRow[s] + 1 \in FirstFree[t] + 1 .. seqRow[t]
  BY <1>1 DEF Lags
<1>3. PICK d \in Registered(t) : docRow[d].value = seqRow[s] + 1
  BY <1>2 DEF NumberInv, GaplessNumbers
<1>. QED  BY <1>3 DEF Registered, Number, Lags

LEMMA LaggardStays ==
    ASSUME TypeOK, InputInv, NumberInv, LedgerInv, [Next]_vars,
           NEW s \in NumberSequences, NEW t \in NumberSequences, Lags(s, t)
    PROVE  /\ Lags(s, t)' /\ seqRow'[s] = seqRow[s]
           /\ \A r \in Requests : Answers(r) /\ Succeeds(r) /\ Creates(r) => input[r].seq # s
<1>1. ASSUME NEW r \in Requests, NEW reply, Commit(r, reply), Creates(r)
      PROVE  /\ input[r].seq # s
             /\ seqRow'[s] = seqRow[s] /\ seqRow[t] <= seqRow'[t]
  <2>1. /\ input[r].seq \in NumberSequences /\ num[r] = seqRow[input[r].seq] + 1
        /\ docW[r] # NoDoc /\ docW[r].seq = input[r].seq /\ docW[r].value = num[r]
        /\ seqRow' = [seqRow EXCEPT ![input[r].seq] = num[r]]
    BY <1>1 DEF Commit, NumberInv, HeldNumbers, UncommittedRows
  <2>2. \A d \in Requests : docRow[d] # NoDoc =>
           Number(docRow[d]) # <<Prefix[input[r].seq], seqRow[input[r].seq] + 1>>
    BY <1>1, <2>1 DEF LedgerInv, NumbersDiffer, Number
  <2>3. input[r].seq # s
    BY <2>2, NextIsTaken
  <2>. QED  BY <2>1, <2>3 DEF TypeOK
<1>2. seqRow'[s] = seqRow[s] /\ seqRow[t] <= seqRow'[t]
  <2>1. CASE UNCHANGED seqRow
    BY <2>1 DEF TypeOK
  <2>2. CASE \E r \in Requests : ~Creates(r) /\ \E reply : Commit(r, reply)
    BY <2>1, <2>2 DEF Commit
  <2>. QED  BY <1>1, <2>1, <2>2, OnlyCommits
<1>3. Lags(s, t)'
  <2>1. seqRow[s] \in Nat /\ seqRow[t] \in Nat /\ seqRow'[t] \in Nat
    BY NextTypes DEF TypeOK
  <2>. QED  BY <1>2, <2>1 DEF Lags
<1>4. ASSUME NEW r \in Requests, Answers(r), Succeeds(r), Creates(r)
      PROVE  input[r].seq # s
  <2>1. PICK q \in Requests : \E reply : Commit(q, reply)
    BY <1>4, OnlyCommitsSucceed
  <2>2. q = r
    BY <1>4, <2>1 DEF Commit, Finish, Answers, TypeOK
  <2>. QED  BY <1>1, <1>4, <2>1, <2>2
<1>. QED  BY <1>2, <1>3, <1>4

\* UNIQUE (number) is over all documents: of two sequences with one prefix, the one behind never
\* creates a document again, whoever retries (the case the docs_seed_numbers run meets with the
\* sequences as they are seeded).
THEOREM SharedPrefixStops == Spec => LaggardStops
<1>1. TypeOK /\ InputInv /\ NumberInv /\ UpdateInv /\ LedgerInv /\ [Next]_vars
          => [\A s, t \in NumberSequences : Lags(s, t) =>
                 /\ Lags(s, t)' /\ seqRow'[s] = seqRow[s]
                 /\ \A r \in Requests :
                       Answers(r) /\ Succeeds(r) /\ Creates(r) => input[r].seq # s]_vars
  BY LaggardStays
<1>. QED  BY <1>1, LedgerThroughout, PTL DEF Spec, LaggardStops

===============================================================================
