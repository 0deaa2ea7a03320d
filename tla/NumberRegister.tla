---------------------------- MODULE NumberRegister ----------------------------
(***************************************************************************)
(* What the docs domain promises about document numbers, with no database, *)
(* transactions or requests in sight: each number sequence is a counter,   *)
(* and putting a document in the register takes the next value of one      *)
(* sequence for it, once and for ever.                                     *)
(***************************************************************************)
EXTENDS Naturals

CONSTANTS
    Documents,         \* identities of the documents that may be registered
    NumberSequences,   \* the sequences
    FirstFree          \* [NumberSequences -> Nat], the counters at the start

VARIABLES
    last,      \* [NumberSequences -> Nat], the value last given out
    register   \* the set of registered [doc, seq, value]

vars == <<last, register>>

Init ==
    /\ last = FirstFree
    /\ register = {}

\* A document enters the register once, under the next value of its sequence.
Issue(d, s) ==
    /\ \A e \in register : e.doc # d
    /\ last' = [last EXCEPT ![s] = @ + 1]
    /\ register' = register \cup {[doc |-> d, seq |-> s, value |-> last[s] + 1]}

Next == \E d \in Documents, s \in NumberSequences : Issue(d, s)

Spec == Init /\ [][Next]_vars
===============================================================================
