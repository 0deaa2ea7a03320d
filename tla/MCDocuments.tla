------------------------------ MODULE MCDocuments ------------------------------
(***************************************************************************)
(* Small instances of Documents: who sends what, and to which program.     *)
(***************************************************************************)
EXTENDS Documents, TLC

CONSTANTS r1, r2, r3, ivan, anna, nobody, contract, offer, act, unseeded

Create(seq, template, status, signers) ==
    [op |-> "create", seq |-> seq, template |-> template, status |-> status,
     signers |-> signers]

Update(doc, status, title, marks) ==
    [op |-> "update", doc |-> doc, status |-> status, title |-> title, marks |-> marks]

Mark(g, status) == [signer |-> g, status |-> status]

-------------------------------------------------------------------------------
(* Both programs, over two sequences whose prefixes differ. *)

DocsMeetGateway == (r1 :> "docs") @@ (r2 :> "docs") @@ (r3 :> "gateway")
TwoConns == ("docs" :> 2) @@ ("gateway" :> 2)

OwnPrefixes == (offer :> "O-") @@ (act :> "A-")
FreshCounters == (offer :> 0) @@ (act :> 7)

\* Every way an insert can fail.
MCCreates ==
    {Create(offer, contract, "", <<>>),
     Create(act, contract, "signed", <<ivan, anna>>),
     Create(offer, contract, "issued", <<ivan, ivan>>),
     Create(offer, nobody, "issued", <<>>), Create(act, contract, "issued", <<nobody>>),
     Create(unseeded, contract, "issued", <<>>), Create(act, contract, "lost", <<>>)}

\* One document, and every way to update it.
OneCreate == {Create(offer, contract, "issued", <<ivan, anna>>)}

MCUpdates ==
    {Update(r1, "signed", FALSE, <<Mark(ivan, "signed"), Mark(anna, "signed")>>),
     Update(r1, "keep", FALSE, <<Mark(anna, "declined"), Mark(ivan, "pending")>>),
     Update(r1, "archived", FALSE, <<>>), Update(r1, "draft", FALSE, <<>>),
     Update(r1, "issued", TRUE, <<Mark(anna, "signed"), Mark(nobody, "signed")>>),
     Update(r1, "keep", TRUE, <<Mark(ivan, "signed"), Mark(ivan, "pending")>>),
     Update(r1, "keep", FALSE, <<Mark(ivan, "lost")>>),
     Update(r2, "keep", FALSE, <<>>), Update(r2, "signed", FALSE, <<>>)}

EveryCreate == MCCreates \cup OneCreate

\* Requests that all create, or that create one document and update it.
Arrived == {input[r] : r \in Requests} \ {NoInput}
Workload == Arrived \subseteq MCCreates \/ Arrived \subseteq OneCreate \cup MCUpdates

MCNext == Next /\ Workload'

MCSpec == Init /\ [][MCNext]_vars /\ Fairness

-------------------------------------------------------------------------------
(* The sequences the deployment seeds (deploy/init/postgres/seed/60_docs.sql): id and code
   alone, so that prefix and current_value take the column defaults '' and 0. *)

SeededPrefixes == (offer :> "") @@ (act :> "")
SeededCounters == (offer :> 0) @@ (act :> 0)

SeedCreates ==
    {Create(offer, contract, "issued", <<>>), Create(act, contract, "issued", <<>>)}

-------------------------------------------------------------------------------
(* One signature on a fresh document, or two at once, through the gateway. *)

MixedSites == (r1 :> "docs") @@ (r2 :> "gateway") @@ (r3 :> "gateway")

OneMark == {Update(r1, "signed", FALSE, <<Mark(ivan, "signed")>>),
            Update(r1, "keep", FALSE, <<Mark(anna, "signed")>>)}
===============================================================================
