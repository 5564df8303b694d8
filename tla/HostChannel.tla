----------------------------- MODULE HostChannel -----------------------------
(***************************************************************************)
(* What the live-live service promises the two hosts, whatever happens     *)
(* between the edges: a packet of the sending host reaches the receiving   *)
(* host at most once, after it was sent.  Packets may be lost, and may     *)
(* overtake each other.                                                    *)
(***************************************************************************)
EXTENDS Naturals

CONSTANT Packets

VARIABLES
    submitted,      \* how many packets the sending host has handed over
    got             \* how often the receiving host got each of them

Init ==
    /\ submitted = 0
    /\ got = [id \in Packets |-> 0]

Submit ==
    /\ submitted' = submitted + 1
    /\ UNCHANGED got

Deliver(id) ==
    /\ id <= submitted
    /\ got[id] = 0
    /\ got' = [got EXCEPT ![id] = 1]
    /\ UNCHANGED submitted

Next == Submit \/ \E id \in Packets : Deliver(id)

Spec == Init /\ [][Next]_<<submitted, got>>
==============================================================================
