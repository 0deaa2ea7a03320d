---------------------------- MODULE DocumentLedger ----------------------------
(***************************************************************************)
(* What a client of the docs domain may rely on: requests are answered one *)
(* at a time, each against all that was answered with success before it,   *)
(* and one that is not answered with success leaves no trace.  There are   *)
(* no transactions, locks or connections here, and no half-done request.   *)
(***************************************************************************)
EXTENDS Naturals

CONSTANTS
    Requests,         \* a request to create names its document after itself
    NumberSequences, Prefix, FirstFree,
    Templates, Signers,
    Bodies,           \* what clients send
    NoDoc

Statuses == {"draft", "issued", "signed", "archived"}
SignerStatuses == {"pending", "signed", "declined"}
NoSigner == [status |-> "none", at |-> 0]
NoBody == [op |-> "none"]

VARIABLES
    counter,   \* the value last given out by each sequence
    doc,       \* the documents, NoDoc where there is none yet
    signers,   \* the signers of each
    clock,     \* the time
    asked,     \* what each request asks
    reply      \* "none" until it is answered

vars == <<counter, doc, signers, clock, asked, reply>>

Init ==
    /\ counter = FirstFree
    /\ doc = [d \in Requests |-> NoDoc]
    /\ signers = [d \in Requests |-> [g \in Signers |-> NoSigner]]
    /\ clock = 0
    /\ asked = [r \in Requests |-> NoBody]
    /\ reply = [r \in Requests |-> "none"]

Sound(b) ==
    IF b.op = "create"
    THEN b.status \in Statuses \cup {""}
    ELSE /\ b.status \in Statuses \cup {"keep"}
         /\ \A k \in DOMAIN b.marks : b.marks[k].status \in SignerStatuses

Ask(r, b) ==
    /\ asked[r] = NoBody
    /\ asked' = [asked EXCEPT ![r] = b]
    /\ reply' = [reply EXCEPT ![r] = IF Sound(b) THEN @ ELSE "refused"]
    /\ UNCHANGED <<counter, doc, signers, clock>>

\* Somewhere a transaction begins.
Tick == clock' = clock + 1 /\ UNCHANGED <<counter, doc, signers, asked, reply>>

Answer(r, how) == reply[r] = "none" /\ reply' = [reply EXCEPT ![r] = how]

Bears(row, s, n) == row # NoDoc /\ Prefix[row.seq] = Prefix[s] /\ row.value = n

\* The document takes the next number of its sequence, which no other bears; every listed
\* signer is to sign.
Create(r) ==
    LET b == asked[r]
        s == b.seq
        next == counter[s] + 1
    IN  /\ b.op = "create" /\ doc[r] = NoDoc
        /\ s \in NumberSequences /\ b.template \in Templates
        /\ \A k \in DOMAIN b.signers : b.signers[k] \in Signers
        /\ \A k, l \in DOMAIN b.signers : b.signers[k] = b.signers[l] => k = l
        /\ \A d \in Requests : ~Bears(doc[d], s, next)
        /\ \E now \in 1 .. clock :
              doc' = [doc EXCEPT ![r] =
                  [seq |-> s, value |-> next, status |-> IF b.status = "" THEN "issued" ELSE b.status,
                   issued |-> now, signed |-> 0, archived |-> 0]]
        /\ counter' = [counter EXCEPT ![s] = next]
        /\ signers' = [signers EXCEPT ![r] =
               [g \in Signers |-> IF \E k \in DOMAIN b.signers : b.signers[k] = g
                                  THEN [status |-> "pending", at |-> 0]
                                  ELSE NoSigner]]

\* The columns of a document of a new status, one by one.
Moved(row, status, now) ==
    [row EXCEPT !.status = IF status = "keep" THEN @ ELSE status,
                !.issued = IF status = "draft" THEN 0
                           ELSE IF status = "issued" /\ @ = 0 THEN now ELSE @,
                !.signed = IF status = "signed" THEN now
                           ELSE IF status \in {"draft", "issued"} THEN 0 ELSE @,
                !.archived = IF status = "archived" THEN now
                             ELSE IF status = "keep" THEN @ ELSE 0]

Last(K) == CHOOSE k \in K : \A l \in K : l <= k

\* A signer of whom the entries K of a list speak: the last of them gives the status, the
\* last that does not decline the time.
SignerAfter(row, marks, K, g, now) ==
    LET about == {k \in K : marks[k].signer = g}
        dating == {k \in about : marks[k].status # "declined"}
    IN  IF about = {} THEN row
        ELSE [status |-> marks[Last(about)].status,
              at |-> IF dating = {} THEN row.at
                     ELSE IF marks[Last(dating)].status = "signed" THEN now ELSE 0]

\* The document as it stands is moved, and its signers as they stand; both at one time.
Update(r) ==
    LET b == asked[r]
        d == b.doc
    IN  /\ b.op = "update" /\ doc[d] # NoDoc
        /\ \A k \in DOMAIN b.marks :
              b.marks[k].signer \in Signers /\ signers[d][b.marks[k].signer] # NoSigner
        /\ \E now \in 1 .. clock :
              /\ doc' = [doc EXCEPT ![d] = Moved(@, b.status, now)]
              /\ signers' = [signers EXCEPT ![d] =
                     [g \in Signers |-> SignerAfter(@[g], b.marks, DOMAIN b.marks, g, now)]]
        /\ UNCHANGED counter

\* Success, or an error for the client of something that was done.
Succeed(r) ==
    /\ Create(r) \/ Update(r)
    /\ Answer(r, "ok") \/ Answer(r, "lost")
    /\ UNCHANGED <<clock, asked>>

Fail(r) ==
    /\ asked[r] # NoBody
    /\ \/ Answer(r, "failed")
       \/ /\ asked[r].op = "update" /\ doc[asked[r].doc] = NoDoc
          /\ Answer(r, "not_found")
       \/ /\ asked[r].op = "create" /\ asked[r].seq \in NumberSequences
          /\ \E d \in Requests : Bears(doc[d], asked[r].seq, counter[asked[r].seq] + 1)
          /\ Answer(r, "duplicate")
    /\ UNCHANGED <<counter, doc, signers, clock, asked>>

Next ==
    \/ Tick
    \/ \E r \in Requests : (\E b \in Bodies : Ask(r, b)) \/ Succeed(r) \/ Fail(r)

Spec == Init /\ [][Next]_vars
===============================================================================
