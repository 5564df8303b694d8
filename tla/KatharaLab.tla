----------------------------- MODULE KatharaLab -----------------------------
(***************************************************************************)
(* The tables of the lab folder and its links: host a, edge e1, the two    *)
(* paths c1 - c3 and c2 - c4, edge e2, host b.                             *)
(***************************************************************************)
EXTENDS Integers

CONSTANTS NoSegment, Nowhere

\* What is connected to a port.  The ports of a switch count from 1.
Links(node, port) ==
    CASE node = "e1" /\ port = 1 -> "a"
      [] node = "e1" /\ port = 2 -> "c1"
      [] node = "e1" /\ port = 3 -> "c2"
      [] node = "c1" /\ port = 1 -> "e1"
      [] node = "c1" /\ port = 2 -> "c3"
      [] node = "c2" /\ port = 1 -> "e1"
      [] node = "c2" /\ port = 2 -> "c4"
      [] node = "c3" /\ port = 1 -> "c1"
      [] node = "c3" /\ port = 2 -> "e2"
      [] node = "c4" /\ port = 1 -> "c2"
      [] node = "c4" /\ port = 2 -> "e2"
      [] node = "e2" /\ port = 1 -> "c3"
      [] node = "e2" /\ port = 2 -> "c4"
      [] node = "e2" /\ port = 3 -> "b"
      [] OTHER -> Nowhere

\* mc_node_create: the ports of the multicast group of an edge.
GroupPorts(e) == IF e = "e1" THEN {2, 3} ELSE {1, 2}

\* srv6_forward: the segment an edge adds to packets leaving on a port.
Srv6Forward(e, port) ==
    CASE e = "e1" /\ port = 2 -> "c3::e2"
      [] e = "e1" /\ port = 3 -> "c4::e2"
      [] e = "e2" /\ port = 1 -> "c1::e1"
      [] e = "e2" /\ port = 2 -> "c2::e1"
      [] OTHER -> NoSegment

\* check_live_live_enabled: the entry of the host's prefix.  The default is
\* that of the program, the lab's names an action the program does not have.
CheckLiveLiveEnabled(e, src) ==
    IF (e = "e1" /\ src = "2001::a") \/ (e = "e2" /\ src = "2002::b")
    THEN [action |-> "live_live_mcast", ports |-> GroupPorts(e)]
    ELSE [action |-> "ipv6_encap_forward_random", ports |-> {0}]

\* srv6_live_live_forward: the function segment of the other edge.
Srv6LiveLiveForward(e) == IF e = "e1" THEN "e2::55" ELSE "e1::55"

\* srv6_function: the edges hold one entry, for function 0x55.
Srv6Function == {"e1::55", "e2::55"}

\* ipv6_forward: the port an edge sends packets of its own host to; packets
\* for another destination keep egress port 0.
Ipv6Forward(e, dst) ==
    CASE e = "e1" /\ dst = "2001::a" -> 1
      [] e = "e2" /\ dst = "2002::b" -> 3
      [] OTHER -> 0

\* srv6_table of the transit nodes: action and port, or no entry.
Srv6Table(c, dst) ==
    CASE c = "c1" /\ dst = "c3::e2" -> [action |-> "srv6_noop", port |-> 2]
      [] c = "c1" /\ dst = "c1::e1" -> [action |-> "srv6_seg_ep", port |-> 1]
      [] c = "c2" /\ dst = "c4::e2" -> [action |-> "srv6_noop", port |-> 2]
      [] c = "c2" /\ dst = "c2::e1" -> [action |-> "srv6_seg_ep", port |-> 1]
      [] c = "c3" /\ dst = "c3::e2" -> [action |-> "srv6_seg_ep", port |-> 2]
      [] c = "c3" /\ dst = "c1::e1" -> [action |-> "srv6_noop", port |-> 1]
      [] c = "c4" /\ dst = "c4::e2" -> [action |-> "srv6_seg_ep", port |-> 2]
      [] c = "c4" /\ dst = "c2::e1" -> [action |-> "srv6_noop", port |-> 1]
      [] OTHER -> [action |-> "NoAction", port |-> 0]
=============================================================================
