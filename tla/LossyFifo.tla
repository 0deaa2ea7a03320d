------------------------------- MODULE LossyFifo -------------------------------
(***************************************************************************)
(* What a subscriber of the event queue can count on: no message comes     *)
(* twice, some may never come, and they come in the order they were sent   *)
(* but for those that slipped: each of these may come late, after messages *)
(* that were sent after it.                                                *)
(***************************************************************************)
EXTENDS Naturals, Sequences

CONSTANT Messages

VARIABLES
    sent,       \* the messages sent, in order
    passed,     \* the numbers of those that are behind the subscriber
    slipped,    \* the numbers of those that lost their place in the order
    delivered   \* the messages it was given, in order

vars == <<sent, passed, slipped, delivered>>

Init ==
    /\ sent = <<>>
    /\ passed = {}
    /\ slipped = {}
    /\ delivered = <<>>

Send(m) ==
    /\ sent' = Append(sent, m)
    /\ UNCHANGED <<passed, slipped, delivered>>

\* Every message before k has passed or slipped.
InTurn(k) ==
    /\ k \in DOMAIN sent \ (passed \cup slipped)
    /\ \A l \in DOMAIN sent : l < k => l \in passed \cup slipped

Late(k) == k \in DOMAIN sent \cap (slipped \ passed)

Slip(k) ==
    /\ InTurn(k)
    /\ slipped' = slipped \cup {k}
    /\ UNCHANGED <<sent, passed, delivered>>

Deliver(k) ==
    /\ InTurn(k) \/ Late(k)
    /\ passed' = passed \cup {k}
    /\ delivered' = Append(delivered, sent[k])
    /\ UNCHANGED <<sent, slipped>>

Lose(k) ==
    /\ InTurn(k) \/ Late(k)
    /\ passed' = passed \cup {k}
    /\ UNCHANGED <<sent, slipped, delivered>>

Next ==
    \/ \E m \in Messages : Send(m)
    \/ \E k \in DOMAIN sent : Slip(k) \/ Deliver(k) \/ Lose(k)

Spec == Init /\ [][Next]_vars
===============================================================================
