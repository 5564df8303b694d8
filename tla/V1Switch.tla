------------------------------ MODULE V1Switch ------------------------------
(***************************************************************************)
(* What a switch owes its P4 program, whatever happens in between: of a    *)
(* packet the ingress marks nothing leaves; a packet with a multicast      *)
(* group leaves once for every member, with the member's rid; any other    *)
(* leaves once, with rid 0.  What is sent to a port that is not there is   *)
(* dropped.                                                                *)
(***************************************************************************)
EXTENDS Integers, Sequences

CONSTANTS
    Ports,      \* ports with something connected
    Groups,     \* multicast group to the sequence of its members [port, rid]
    Verdicts    \* what the ingress of the program may decide, [action, ...]

VARIABLES
    stage,      \* "idle", "deciding" or "sending"
    verdict,    \* what the program decides for the packet
    pending,    \* [port, rid] still to be sent
    sent        \* [port, rid] sent for the packet

vars == <<stage, verdict, pending, sent>>

\* What a verdict lets leave; a program that decides nothing means port 0.
Outcomes(v) ==
    CASE v.action = "mark_to_drop" -> {<< >>}
      [] v.action = "multicast" -> {Groups[v.group]}
      [] v.action = "forward" -> {<<[port |-> p, rid |-> 0]>> : p \in v.ports}
      [] v.action = "NoAction" -> {<<[port |-> 0, rid |-> 0]>>}

Init ==
    /\ stage = "idle"
    /\ verdict \in Verdicts
    /\ pending = << >>
    /\ sent = << >>

Receive ==
    /\ stage = "idle"
    /\ stage' = "deciding"
    /\ verdict' \in Verdicts
    /\ sent' = << >>
    /\ UNCHANGED pending

Decide ==
    /\ stage = "deciding"
    /\ stage' = "sending"
    /\ pending' \in Outcomes(verdict)
    /\ UNCHANGED <<verdict, sent>>

Send ==
    /\ stage = "sending"
    /\ pending # << >>
    /\ pending' = Tail(pending)
    /\ sent' = IF Head(pending).port \in Ports
               THEN Append(sent, Head(pending))
               ELSE sent
    /\ UNCHANGED <<stage, verdict>>

Finish ==
    /\ stage = "sending"
    /\ pending = << >>
    /\ stage' = "idle"
    /\ UNCHANGED <<verdict, pending, sent>>

Next == Receive \/ Decide \/ Send \/ Finish

SafeSpec == Init /\ [][Next]_vars

\* A packet that is received is dealt with.
Spec == SafeSpec /\ WF_vars(Decide \/ Send \/ Finish)
=============================================================================
