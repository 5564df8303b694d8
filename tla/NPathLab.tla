------------------------------ MODULE NPathLab ------------------------------
(***************************************************************************)
(* The tables of the two edge switches and of the transit switch of each   *)
(* of n paths, as experiments/experiment_n_path.py writes them for the     *)
(* emulated switches and live-live-n-path.cc for the simulated ones.  On   *)
(* e1 port 1 leads to host a and the paths follow; on e2 the paths come    *)
(* first and the port after them leads to host b.                          *)
(***************************************************************************)
EXTENDS Integers, Sequences

CONSTANTS
    Simulated,      \* whether the tables are those of the simulation
    NoSegment, Nowhere

TestTypes == {"live-live", "random", "single", "no-deduplicate"}

\* The first port of an edge that leads to a path.
FirstPath(edge) == IF edge = "e1" THEN 2 ELSE 1

\* The interfaces simple_switch is started with.
PortOfHost(edge, n) == IF edge = "e1" THEN 1 ELSE n + 1
PathPorts(edge, n) == FirstPath(edge) .. FirstPath(edge) + n - 1

\* mc_node_create 1 <ports>: the group of live_live_mcast.
GroupPorts(edge, n) == FirstPath(edge) .. FirstPath(edge) + n - 1

\* rand_lo and rand_hi of ipv6_encap_forward_random.  The random of v1model
\* returns any value from rand_lo to rand_hi, both included.
EmulatedRandomPorts(edge, n) == FirstPath(edge) .. FirstPath(edge) + n
SimulatedRandomPorts(edge, n) == FirstPath(edge) .. FirstPath(edge) + n - 1

RandomPorts(edge, n) ==
    IF Simulated
    THEN SimulatedRandomPorts(edge, n)
    ELSE EmulatedRandomPorts(edge, n)

LiveLiveEntry(edge, n) ==
    [action |-> "live_live_mcast", ports |-> GroupPorts(edge, n)]

RandomEntry(edge, n) ==
    [action |-> "ipv6_encap_forward_random", ports |-> RandomPorts(edge, n)]

PortEntry(port) == [action |-> "ipv6_encap_forward_port", ports |-> {port}]

\* The transit switches, one to a path; the experiments go up to six.
Transits == <<"c1", "c2", "c3", "c4", "c5", "c6">>

\* What is connected to a port.
Links(node, port, n) ==
    CASE node \in {"e1", "e2"} /\ port \in PathPorts(node, n) ->
             Transits[(port - FirstPath(node)) + 1]
      [] node = "e1" /\ port = PortOfHost("e1", n) -> "a"
      [] node = "e2" /\ port = PortOfHost("e2", n) -> "b"
      [] (\E i \in 1 .. n : node = Transits[i]) /\ port = 1 -> "e1"
      [] (\E i \in 1 .. n : node = Transits[i]) /\ port = 2 -> "e2"
      [] OTHER -> Nowhere

\* The entry check_live_live_enabled holds for the prefix of the edge's host.
SteeringEntry(edge, type, n) ==
    CASE type \in {"live-live", "no-deduplicate"} -> LiveLiveEntry(edge, n)
      [] type = "random" -> RandomEntry(edge, n)
      [] type = "single" -> PortEntry(FirstPath(edge))

\* Whether srv6_function of the edges holds srv6_ll_deduplicate.
HasDeduplicate(type) == type = "live-live"

\* The two live-live types change the default, which applies to sources with
\* no prefix of their own, to a random path; in the others it is port 0.
DefaultEntry(edge, type, n) ==
    IF type \in {"live-live", "no-deduplicate"}
    THEN RandomEntry(edge, n)
    ELSE [action |-> "ipv6_encap_forward_random", ports |-> {0}]

CheckLiveLiveEnabled(edge, src, type, n) ==
    IF (edge = "e1" /\ src = "2001::a") \/ (edge = "e2" /\ src = "2002::b")
    THEN SteeringEntry(edge, type, n)
    ELSE DefaultEntry(edge, type, n)

\* srv6_forward: only the types without copies address the far edge.
Srv6Forward(edge, port, type, n) ==
    IF \/ type = "random" /\ port \in GroupPorts(edge, n)
       \/ type = "single" /\ port = FirstPath(edge)
    THEN IF edge = "e1" THEN "e2::2" ELSE "e1::2"
    ELSE NoSegment

\* srv6_live_live_forward, and the functions srv6_function knows.
Srv6LiveLiveForward(edge) == IF edge = "e1" THEN "e2::55" ELSE "e1::55"
Srv6Function(type) == IF HasDeduplicate(type) THEN {"e1::55", "e2::55"} ELSE {}

\* ipv6_forward, for the edge's own host; otherwise the port stays 0.
Ipv6Forward(edge, dst, n) ==
    IF (edge = "e1" /\ dst = "2001::a") \/ (edge = "e2" /\ dst = "2002::b")
    THEN PortOfHost(edge, n)
    ELSE 0

\* srv6_table of every transit switch: the emulated ones get the entries their
\* test type needs, the simulated ones all four.
HasEntries(types, type) == Simulated \/ type \in types

Srv6Table(dst, type) ==
    CASE HasEntries({"live-live", "no-deduplicate"}, type) /\ dst = "2002::b" ->
             [action |-> "srv6_noop", port |-> 2]
      [] HasEntries({"live-live", "no-deduplicate"}, type) /\ dst = "2001::a" ->
             [action |-> "srv6_noop", port |-> 1]
      [] HasEntries({"random", "single"}, type) /\ dst = "e2::2" ->
             [action |-> "srv6_seg_ep", port |-> 2]
      [] HasEntries({"random", "single"}, type) /\ dst = "e1::2" ->
             [action |-> "srv6_seg_ep", port |-> 1]
      [] OTHER -> [action |-> "NoAction", port |-> 0]
=============================================================================
