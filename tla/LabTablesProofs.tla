-------------------------- MODULE LabTablesProofs --------------------------
(***************************************************************************)
(* The tables of the lab folder and of the n-path experiment, for every    *)
(* test type and up to six paths, are what the theorems of                 *)
(* LabNetworkProofs ask for; so these hold for the labs, whatever the      *)
(* hosts send.                                                             *)
(***************************************************************************)
EXTENDS LabNetworkProofs

CONSTANTS
    TestType,           \* the type of the n-path experiment
    NumPaths,           \* its number of paths
    Simulated           \* whether its tables are those of the simulation

K == INSTANCE KatharaLab
N == INSTANCE NPathLab

\* A packet from the address of its host to that of the other one.
FromA(h) == h.host = "a" /\ h.src = "2001::a" /\ h.dst = "2002::b"
FromB(h) == h.host = "b" /\ h.src = "2002::b" /\ h.dst = "2001::a"

Nodes == {"e1", "e2", "a", "b", "c1", "c2", "c3", "c4", "c5", "c6"}

Segments == {"c1::e1", "c2::e1", "c3::e2", "c4::e2", "e1::2", "e2::2",
             "e1::55", "e2::55"}

LEMMA HopsDiffer ==
    ASSUME NEW at, NEW dst, NEW left, NEW x, NEW y, NEW z,
           Hop(at, dst, left) = Hop(x, y, z)
    PROVE  at = x /\ dst = y /\ left = z
BY DEF Hop
-----------------------------------------------------------------------------
\* The lab of the lab folder.
KatharaTables ==
    /\ \A node, port : Peer(node, port) = K!Links(node, port)
    /\ \A e, src : Steering(e, src) = K!CheckLiveLiveEnabled(e, src)
    /\ \A e, port : DestSegment(e, port) = K!Srv6Forward(e, port)
    /\ \A e : FunctionOf(e) = K!Srv6LiveLiveForward(e)
    /\ \A e, dst : HostPort(e, dst) = K!Ipv6Forward(e, dst)
    /\ \A c, dst : TransitEntry(c, dst) = K!Srv6Table(c, dst)
    /\ Functions = K!Srv6Function
    /\ \A h \in HostPackets : FromA(h) \/ FromB(h)
    /\ Nowhere \notin Nodes /\ NoSegment \notin Segments

LEMMA KatharaEdges ==
    ASSUME KatharaTables, NEW h \in HostPackets
    PROVE  /\ FromA(h) => /\ NearEdge(h) = "e1" /\ FarEdge(h) = "e2"
                          /\ Entry(h).ports = {2, 3} /\ Live(h)
                          /\ Function(h) = "e2::55"
                          /\ Segment(h, 2) = "c3::e2"
                          /\ Segment(h, 3) = "c4::e2"
           /\ FromB(h) => /\ NearEdge(h) = "e2" /\ FarEdge(h) = "e1"
                          /\ Entry(h).ports = {1, 2} /\ Live(h)
                          /\ Function(h) = "e1::55"
                          /\ Segment(h, 1) = "c1::e1"
                          /\ Segment(h, 2) = "c2::e1"
           /\ FromA(h) \/ FromB(h)
<1>1. FromA(h) \/ FromB(h)
  BY DEF KatharaTables
<1>2. FromA(h) => NearEdge(h) = "e1" /\ FarEdge(h) = "e2"
  BY DEF FromA, NearEdge, FarEdge, EdgeOf
<1>3. FromB(h) => NearEdge(h) = "e2" /\ FarEdge(h) = "e1"
  BY DEF FromB, NearEdge, FarEdge, EdgeOf
<1>4. FromA(h) => Entry(h) = [action |-> "live_live_mcast", ports |-> {2, 3}]
  BY <1>2 DEF FromA, Entry, KatharaTables, K!CheckLiveLiveEnabled,
              K!GroupPorts
<1>5. FromB(h) => Entry(h) = [action |-> "live_live_mcast", ports |-> {1, 2}]
  BY <1>3 DEF FromB, Entry, KatharaTables, K!CheckLiveLiveEnabled,
              K!GroupPorts
<1>6. FromA(h) => /\ Function(h) = "e2::55"
                  /\ Segment(h, 2) = "c3::e2" /\ Segment(h, 3) = "c4::e2"
  BY <1>2 DEF Function, Segment, KatharaTables, K!Srv6LiveLiveForward,
              K!Srv6Forward
<1>7. FromB(h) => /\ Function(h) = "e1::55"
                  /\ Segment(h, 1) = "c1::e1" /\ Segment(h, 2) = "c2::e1"
  BY <1>3 DEF Function, Segment, KatharaTables, K!Srv6LiveLiveForward,
              K!Srv6Forward
<1> QED  BY <1>1, <1>2, <1>3, <1>4, <1>5, <1>6, <1>7 DEF Live

LEMMA KatharaLinks ==
    ASSUME KatharaTables
    PROVE  /\ \A e \in Edges : Peer(e, 0) = Nowhere
           /\ Peer("e1", 1) = "a" /\ Peer("e2", 3) = "b"
           /\ Peer("e1", 2) = "c1" /\ Peer("e1", 3) = "c2"
           /\ Peer("e2", 1) = "c3" /\ Peer("e2", 2) = "c4"
           /\ Peer("c1", 1) = "e1" /\ Peer("c1", 2) = "c3"
           /\ Peer("c2", 1) = "e1" /\ Peer("c2", 2) = "c4"
           /\ Peer("c3", 1) = "c1" /\ Peer("c3", 2) = "e2"
           /\ Peer("c4", 1) = "c2" /\ Peer("c4", 2) = "e2"
           /\ \A c, p : c \notin Edges \cup Hosts => Peer(c, p) \notin Hosts
           /\ Nowhere \notin Nodes
<1>1. \A node, port : Peer(node, port) = K!Links(node, port)
  BY DEF KatharaTables
<1>2. Nowhere \notin Nodes
  BY DEF KatharaTables
<1>3. \A e \in Edges : Peer(e, 0) = Nowhere
  BY <1>1 DEF Edges, K!Links
<1>4. /\ Peer("e1", 1) = "a" /\ Peer("e2", 3) = "b"
      /\ Peer("e1", 2) = "c1" /\ Peer("e1", 3) = "c2"
      /\ Peer("e2", 1) = "c3" /\ Peer("e2", 2) = "c4"
  BY <1>1 DEF K!Links
<1>5. /\ Peer("c1", 1) = "e1" /\ Peer("c1", 2) = "c3"
      /\ Peer("c2", 1) = "e1" /\ Peer("c2", 2) = "c4"
  BY <1>1 DEF K!Links
<1>6. /\ Peer("c3", 1) = "c1" /\ Peer("c3", 2) = "e2"
      /\ Peer("c4", 1) = "c2" /\ Peer("c4", 2) = "e2"
  BY <1>1 DEF K!Links
<1>7. \A c, p : c \notin Edges \cup Hosts => Peer(c, p) \notin Hosts
  BY <1>1, <1>2 DEF Edges, Hosts, Nodes, K!Links
<1> QED  BY <1>2, <1>3, <1>4, <1>5, <1>6, <1>7

LEMMA KatharaDelivers ==
    ASSUME KatharaTables
    PROVE  /\ Peer("e1", HostPort("e1", "2002::b")) = Nowhere
           /\ Peer("e2", HostPort("e2", "2002::b")) = "b"
           /\ Peer("e1", HostPort("e1", "2001::a")) = "a"
           /\ Peer("e2", HostPort("e2", "2001::a")) = Nowhere
<1>1. /\ HostPort("e1", "2002::b") = 0 /\ HostPort("e2", "2002::b") = 3
      /\ HostPort("e1", "2001::a") = 1 /\ HostPort("e2", "2001::a") = 0
  BY DEF KatharaTables, K!Ipv6Forward
<1> QED  BY <1>1, KatharaLinks DEF Edges

LEMMA KatharaIsWired == ASSUME KatharaTables PROVE LabIsWired
<1>1. ASSUME NEW h \in HostPackets, NEW p \in WiredPorts(h)
      PROVE  /\ Peer(NearEdge(h), p) \notin Hosts
             /\ Segment(h, p) \notin Functions
  <2>1. p \in Entry(h).ports
    BY DEF WiredPorts
  <2>2. Functions = {"e1::55", "e2::55"}
    BY DEF KatharaTables, K!Srv6Function
  <2> QED  BY <2>1, <2>2, KatharaEdges, KatharaLinks DEF Hosts
<1>2. ASSUME NEW h \in HostPackets, NEW e \in Edges
      PROVE  \/ Peer(e, HostPort(e, h.dst)) = Nowhere
             \/ Peer(e, HostPort(e, h.dst)) \in Hosts \ {h.host}
  BY KatharaEdges, KatharaDelivers DEF FromA, FromB, Edges, Hosts
<1>3. ASSUME NEW h \in HostPackets, NEW c
      PROVE  TransitEntry(c, h.dst).action # "srv6_seg_ep"
  <2>1. h.dst \in {"2001::a", "2002::b"}
    BY KatharaEdges DEF FromA, FromB
  <2>2. TransitEntry(c, h.dst) = [action |-> "NoAction", port |-> 0]
    BY <2>1 DEF KatharaTables, K!Srv6Table
  <2> QED  BY <2>2
<1> QED  BY <1>1, <1>2, <1>3, KatharaLinks DEF LabIsWired

\* The hops between the edges, on both paths in both directions.
KatharaHops ==
    [h \in HostPackets |->
        IF h.host = "a"
        THEN {Hop("c1", "c3::e2", 1), Hop("c3", "c3::e2", 1),
              Hop("c2", "c4::e2", 1), Hop("c4", "c4::e2", 1),
              Hop("e2", "e2::55", 0)}
        ELSE {Hop("c3", "c1::e1", 1), Hop("c1", "c1::e1", 1),
              Hop("c4", "c2::e1", 1), Hop("c2", "c2::e1", 1),
              Hop("e1", "e1::55", 0)}]

LEMMA KatharaTransits ==
    ASSUME KatharaTables
    PROVE  LET noop(port) == [action |-> "srv6_noop", port |-> port]
               seg_ep(port) == [action |-> "srv6_seg_ep", port |-> port]
           IN  /\ TransitEntry("c1", "c3::e2") = noop(2)
               /\ TransitEntry("c3", "c3::e2") = seg_ep(2)
               /\ TransitEntry("c2", "c4::e2") = noop(2)
               /\ TransitEntry("c4", "c4::e2") = seg_ep(2)
               /\ TransitEntry("c3", "c1::e1") = noop(1)
               /\ TransitEntry("c1", "c1::e1") = seg_ep(1)
               /\ TransitEntry("c4", "c2::e1") = noop(1)
               /\ TransitEntry("c2", "c2::e1") = seg_ep(1)
BY DEF KatharaTables, K!Srv6Table

LEMMA KatharaLeads ==
    ASSUME KatharaTables
    PROVE  TablesLead(KatharaHops) /\ TablesReach(KatharaHops)
<1>1. ASSUME NEW h \in HostPackets, NEW p \in Entry(h).ports
      PROVE  /\ Peer(NearEdge(h), p) # Nowhere
             /\ FirstHop(h, p) \in KatharaHops[h]
  <2>1. NoSegment \notin Segments
    BY DEF KatharaTables
  <2>2. Segment(h, p) \in Segments
    BY KatharaEdges DEF Segments
  <2>3. FirstHop(h, p) = Hop(Peer(NearEdge(h), p), Segment(h, p), 1)
    BY <2>1, <2>2, KatharaEdges DEF FirstHop
  <2>4. Peer(NearEdge(h), p) # Nowhere
    BY KatharaEdges, KatharaLinks DEF Nodes
  <2>5. CASE FromA(h)
    BY <2>3, <2>4, <2>5, KatharaEdges, KatharaLinks DEF FromA, KatharaHops
  <2>6. CASE FromB(h)
    BY <2>3, <2>4, <2>6, KatharaEdges, KatharaLinks DEF FromB, KatharaHops
  <2> QED  BY <2>5, <2>6, KatharaEdges
<1>2. ASSUME NEW h \in HostPackets, NEW at, NEW dst, NEW left,
             Hop(at, dst, left) \in KatharaHops[h]
      PROVE  IF at \in Edges
             THEN left = 0 /\ Peer(at, HostPort(at, h.dst)) # Nowhere
             ELSE /\ NextHop(h, at, dst, left) \in KatharaHops[h]
                  /\ Peer(at, TransitEntry(at, dst).port) # Nowhere
  <2>1. CASE FromA(h)
    <3>1. KatharaHops[h] =
             {Hop("c1", "c3::e2", 1), Hop("c3", "c3::e2", 1),
              Hop("c2", "c4::e2", 1), Hop("c4", "c4::e2", 1),
              Hop("e2", "e2::55", 0)}
      BY <2>1 DEF FromA, KatharaHops
    <3>2. \/ at = "c1" /\ dst = "c3::e2" /\ left = 1
          \/ at = "c3" /\ dst = "c3::e2" /\ left = 1
          \/ at = "c2" /\ dst = "c4::e2" /\ left = 1
          \/ at = "c4" /\ dst = "c4::e2" /\ left = 1
          \/ at = "e2" /\ dst = "e2::55" /\ left = 0
      BY <1>2, <3>1, HopsDiffer
    <3>3. Function(h) = "e2::55"
      BY <2>1, KatharaEdges
    <3>4. CASE at = "e2"
      BY <2>1, <3>2, <3>4, KatharaDelivers, KatharaLinks
         DEF FromA, Edges, Nodes
    <3>5. CASE at # "e2"
      <4>1. at \notin Edges
        BY <3>2, <3>5 DEF Edges
      <4>2. Peer(at, TransitEntry(at, dst).port) # Nowhere
        BY <3>2, <3>5, KatharaTransits, KatharaLinks DEF Nodes
      <4>3. NextHop(h, at, dst, left) \in KatharaHops[h]
        BY <3>1, <3>2, <3>3, <3>5, KatharaTransits, KatharaLinks DEF NextHop
      <4> QED  BY <4>1, <4>2, <4>3
    <3> QED  BY <3>4, <3>5
  <2>2. CASE FromB(h)
    <3>1. KatharaHops[h] =
             {Hop("c3", "c1::e1", 1), Hop("c1", "c1::e1", 1),
              Hop("c4", "c2::e1", 1), Hop("c2", "c2::e1", 1),
              Hop("e1", "e1::55", 0)}
      BY <2>2 DEF FromB, KatharaHops
    <3>2. \/ at = "c3" /\ dst = "c1::e1" /\ left = 1
          \/ at = "c1" /\ dst = "c1::e1" /\ left = 1
          \/ at = "c4" /\ dst = "c2::e1" /\ left = 1
          \/ at = "c2" /\ dst = "c2::e1" /\ left = 1
          \/ at = "e1" /\ dst = "e1::55" /\ left = 0
      BY <1>2, <3>1, HopsDiffer
    <3>3. Function(h) = "e1::55"
      BY <2>2, KatharaEdges
    <3>4. CASE at = "e1"
      BY <2>2, <3>2, <3>4, KatharaDelivers, KatharaLinks
         DEF FromB, Edges, Nodes
    <3>5. CASE at # "e1"
      <4>1. at \notin Edges
        BY <3>2, <3>5 DEF Edges
      <4>2. Peer(at, TransitEntry(at, dst).port) # Nowhere
        BY <3>2, <3>5, KatharaTransits, KatharaLinks DEF Nodes
      <4>3. NextHop(h, at, dst, left) \in KatharaHops[h]
        BY <3>1, <3>2, <3>3, <3>5, KatharaTransits, KatharaLinks DEF NextHop
      <4> QED  BY <4>1, <4>2, <4>3
    <3> QED  BY <3>4, <3>5
  <2> QED  BY <2>1, <2>2, KatharaEdges
<1>3. TablesLead(KatharaHops)
  BY <1>1, <1>2 DEF TablesLead, WiredPorts
<1>4. TablesReach(KatharaHops)
  BY <1>1, <1>2 DEF TablesReach
<1> QED  BY <1>3, <1>4

\* In the lab of the lab folder a host gets what the other one sent, unchanged
\* and once; every header the edges push is one the transit switches and the
\* far edge understand, and no switch sends a packet to nobody.
THEOREM KatharaLabIsCorrect ==
    ASSUME KatharaTables
    PROVE  Spec => /\ []TypeOK /\ []LengthIsHonest /\ []ArrivesIntact
                   /\ []CountersMatchList /\ []DestinationIsActive
                   /\ []FunctionMeetsTlv /\ []NothingStranded /\ []ArrivesOnce
<1>1. LabIsWired
  BY KatharaIsWired
<1>2. /\ TablesLead(KatharaHops) /\ TablesReach(KatharaHops)
  BY KatharaLeads
<1>3. ASSUME NEW h \in HostPackets, NEW p \in WiredPorts(h)
      PROVE  /\ Segment(h, p) # NoSegment
             /\ Segment(h, p) \notin {FunctionOf(e) : e \in Edges}
  <2>1. p \in Entry(h).ports /\ NoSegment \notin Segments
    BY DEF WiredPorts, KatharaTables
  <2>2. Segment(h, p) \in {"c1::e1", "c2::e1", "c3::e2", "c4::e2"}
    BY <2>1, KatharaEdges
  <2>3. \A e \in Edges : FunctionOf(e) \in {"e1::55", "e2::55"}
    BY DEF KatharaTables, K!Srv6LiveLiveForward
  <2> QED  BY <2>1, <2>2, <2>3 DEF Segments
<1>4. \A h \in HostPackets : HasSegments(h)
  BY <1>3 DEF HasSegments
<1>5. CopiesAreChecked
  <2>1. ASSUME NEW h \in HostPackets
        PROVE  Function(h) \in Functions
    BY KatharaEdges DEF KatharaTables, K!Srv6Function
  <2>2. ASSUME NEW h \in HostPackets, NEW e \in Edges,
               Peer(e, HostPort(e, h.dst)) # Nowhere
        PROVE  e = FarEdge(h)
    BY <2>2, KatharaEdges, KatharaDelivers DEF FromA, FromB, Edges
  <2> QED  BY <2>1, <2>2 DEF CopiesAreChecked
<1>6. Spec => []TypeOK
  BY <1>1, LabTypeCorrect
<1>7. Spec => []LengthIsHonest
  BY <1>1, LengthIsKept
<1>8. Spec => []ArrivesIntact
  BY <1>1, PacketsArriveIntact
<1>9. Spec => []CountersMatchList
  BY <1>1, <1>4, CountersAreRight
<1>10. Spec => []DestinationIsActive
  BY <1>1, <1>3, DestinationsAreSegments
<1>11. Spec => []FunctionMeetsTlv
  BY <1>1, <1>2, <1>3, FunctionsMeetTheirTlv
<1>12. Spec => []NothingStranded
  BY <1>1, <1>2, NothingIsStranded
<1>13. Spec => []ArrivesOnce
  BY <1>1, <1>5, PacketsArriveOnce
<1> QED  BY <1>6, <1>7, <1>8, <1>9, <1>10, <1>11, <1>12, <1>13, PTL
-----------------------------------------------------------------------------
\* The n-path experiment.  Besides the hosts' own packets there are packets
\* from addresses for which the edges only have their default entry.
Stranger(h) ==
    /\ h.src \notin {"2001::a", "2002::b"}
    /\ \/ h.host = "a" /\ h.dst = "2002::b"
       \/ h.host = "b" /\ h.dst = "2001::a"

LiveTypes == {"live-live", "no-deduplicate"}

NPathTables ==
    /\ NumPaths \in 1 .. 6 /\ TestType \in N!TestTypes /\ Simulated \in BOOLEAN
    /\ \A node, port : Peer(node, port) = N!Links(node, port, NumPaths)
    /\ \A e, src : Steering(e, src)
                     = N!CheckLiveLiveEnabled(e, src, TestType, NumPaths)
    /\ \A e, port : DestSegment(e, port)
                      = N!Srv6Forward(e, port, TestType, NumPaths)
    /\ \A e : FunctionOf(e) = N!Srv6LiveLiveForward(e)
    /\ \A e, dst : HostPort(e, dst) = N!Ipv6Forward(e, dst, NumPaths)
    /\ \A c, dst : TransitEntry(c, dst) = N!Srv6Table(dst, TestType)
    /\ Functions = N!Srv6Function(TestType)
    /\ \A h \in HostPackets : FromA(h) \/ FromB(h) \/ Stranger(h)
    /\ Nowhere \notin Nodes /\ NoSegment \notin Segments

\* The random ports of the emulated edges reach one port too far.  On e1 there
\* is nothing behind it, on e2 it is host b: the theorems are about tables and
\* traffic for which e2 does not take it.
RandomStaysOnPaths ==
    \/ Simulated
    \/ TestType # "random" /\ \A h \in HostPackets : h.host = "b" => FromB(h)

LEMMA NPathConstants ==
    ASSUME NPathTables
    PROVE  /\ NumPaths \in Nat /\ NumPaths >= 1 /\ NumPaths <= 6
           /\ \A i \in 1 .. NumPaths :
                 N!Transits[i] \in {"c1", "c2", "c3", "c4", "c5", "c6"}
           /\ \A e \in Edges : N!PathPorts(e, NumPaths)
                                 = N!GroupPorts(e, NumPaths)
           /\ N!GroupPorts("e1", NumPaths) = 2 .. NumPaths + 1
           /\ N!GroupPorts("e2", NumPaths) = 1 .. NumPaths
<1>1. NumPaths \in Nat /\ NumPaths >= 1 /\ NumPaths <= 6
  BY DEF NPathTables
<1>2. \A i \in 1 .. 6 :
         N!Transits[i] \in {"c1", "c2", "c3", "c4", "c5", "c6"}
  BY DEF N!Transits
<1>3. \A e \in Edges : N!PathPorts(e, NumPaths) = N!GroupPorts(e, NumPaths)
  BY DEF N!PathPorts, N!GroupPorts
<1>4. N!FirstPath("e1") = 2 /\ N!FirstPath("e2") = 1
  BY DEF N!FirstPath
<1>5. 2 + NumPaths - 1 = NumPaths + 1 /\ 1 + NumPaths - 1 = NumPaths
  BY <1>1
<1> QED  BY <1>1, <1>2, <1>3, <1>4, <1>5 DEF N!GroupPorts

LEMMA NPathLinks ==
    ASSUME NPathTables
    PROVE  /\ \A e \in Edges : /\ Peer(e, 0) = Nowhere
                               /\ \A p \in N!GroupPorts(e, NumPaths) :
                                     \E i \in 1 .. NumPaths :
                                         Peer(e, p) = N!Transits[i]
           /\ Peer("e1", 1) = "a" /\ Peer("e2", NumPaths + 1) = "b"
           /\ \A i \in 1 .. NumPaths : /\ Peer(N!Transits[i], 1) = "e1"
                                       /\ Peer(N!Transits[i], 2) = "e2"
           /\ \A c, p : c \notin Edges \cup Hosts => Peer(c, p) \notin Hosts
           /\ \A e \in Edges : \A p :
                 Peer(e, p) # Nowhere =>
                     \/ p \in N!GroupPorts(e, NumPaths)
                     \/ e = "e1" /\ p = 1
                     \/ e = "e2" /\ p = NumPaths + 1
           /\ Nowhere \notin Nodes
<1> DEFINE n == NumPaths
           inner == {"c1", "c2", "c3", "c4", "c5", "c6"}
<1>1. \A node, port : Peer(node, port) = N!Links(node, port, n)
  BY DEF NPathTables
<1>2. Nowhere \notin Nodes
  BY DEF NPathTables
<1>3. ASSUME NEW e \in Edges
      PROVE  /\ Peer(e, 0) = Nowhere
             /\ \A p \in N!GroupPorts(e, n) :
                   Peer(e, p) = N!Transits[(p - N!FirstPath(e)) + 1]
             /\ \A p : Peer(e, p) # Nowhere =>
                   \/ p \in N!GroupPorts(e, n)
                   \/ e = "e1" /\ p = 1
                   \/ e = "e2" /\ p = n + 1
  BY <1>1, NPathConstants DEF Edges, N!Links, N!PortOfHost
<1>4. ASSUME NEW e \in Edges, NEW p \in N!GroupPorts(e, n)
      PROVE  \E i \in 1 .. n : Peer(e, p) = N!Transits[i]
  <2>1. (p - N!FirstPath(e)) + 1 \in 1 .. n
    BY <1>4, NPathConstants DEF Edges, N!FirstPath
  <2> QED  BY <1>3, <2>1
<1>5. Peer("e1", 1) = "a" /\ Peer("e2", n + 1) = "b"
  BY <1>1, NPathConstants DEF Edges, N!Links, N!PortOfHost
<1>6. \A i \in 1 .. n : N!Transits[i] \notin Edges \cup Hosts
  BY NPathConstants DEF Edges, Hosts
<1>7. ASSUME NEW i \in 1 .. n
      PROVE  /\ Peer(N!Transits[i], 1) = "e1"
             /\ Peer(N!Transits[i], 2) = "e2"
  BY <1>1, <1>6 DEF Edges, N!Links
<1>8. \A c, p : c \notin Edges \cup Hosts => Peer(c, p) \notin Hosts
  BY <1>1, <1>2 DEF Edges, Hosts, Nodes, N!Links
<1> QED  BY <1>2, <1>3, <1>4, <1>5, <1>7, <1>8

\* Only the edge of the destination has a way to it, and never back.
LEMMA NPathDelivers ==
    ASSUME NPathTables, NEW h \in HostPackets, NEW e \in Edges
    PROVE  /\ e = FarEdge(h) => Peer(e, HostPort(e, h.dst)) \in Hosts \ {h.host}
           /\ e # FarEdge(h) => Peer(e, HostPort(e, h.dst)) = Nowhere
<1>1. \/ h.host = "a" /\ h.dst = "2002::b" /\ FarEdge(h) = "e2"
      \/ h.host = "b" /\ h.dst = "2001::a" /\ FarEdge(h) = "e1"
  BY DEF NPathTables, FromA, FromB, Stranger, FarEdge, NearEdge, EdgeOf
<1>2. /\ HostPort("e1", "2001::a") = 1 /\ HostPort("e2", "2001::a") = 0
      /\ HostPort("e1", "2002::b") = 0
      /\ HostPort("e2", "2002::b") = NumPaths + 1
  BY DEF NPathTables, N!Ipv6Forward, N!PortOfHost
<1> QED  BY <1>1, <1>2, NPathLinks DEF Edges, Hosts

\* The edges give a stranger's packet no number, and nothing to follow.
LEMMA StrangersGetNothing ==
    ASSUME NPathTables, NEW h \in HostPackets, Stranger(h)
    PROVE  /\ ~ Live(h)
           /\ Entry(h).ports = IF TestType \in LiveTypes
                               THEN N!RandomPorts(NearEdge(h), NumPaths)
                               ELSE {0}
           /\ \A p \in WiredPorts(h) : Segment(h, p) = NoSegment
<1>1. Entry(h) = N!DefaultEntry(NearEdge(h), TestType, NumPaths)
  BY DEF Entry, Stranger, NPathTables, N!CheckLiveLiveEnabled
<1>2. CASE TestType \in LiveTypes
  <2>1. Entry(h) = [action |-> "ipv6_encap_forward_random",
                    ports |-> N!RandomPorts(NearEdge(h), NumPaths)]
    BY <1>1, <1>2 DEF LiveTypes, N!DefaultEntry, N!RandomEntry
  <2>2. \A p : Segment(h, p) = NoSegment
    BY <1>2 DEF Segment, NPathTables, LiveTypes, N!Srv6Forward
  <2> QED  BY <1>2, <2>1, <2>2 DEF Live
<1>3. CASE TestType \notin LiveTypes
  <2>1. Entry(h) = [action |-> "ipv6_encap_forward_random", ports |-> {0}]
    BY <1>1, <1>3 DEF LiveTypes, N!DefaultEntry
  <2>2. WiredPorts(h) = {}
    BY <2>1, NPathLinks, RawFields DEF WiredPorts
  <2> QED  BY <1>3, <2>1, <2>2 DEF Live
<1> QED  BY <1>2, <1>3

\* What the edges do with the hosts' own packets.
LEMMA OwnPackets ==
    ASSUME NPathTables, NEW h \in HostPackets, FromA(h) \/ FromB(h)
    PROVE  /\ Live(h) <=> TestType \in LiveTypes
           /\ Entry(h).ports =
                CASE TestType \in LiveTypes ->
                         N!GroupPorts(NearEdge(h), NumPaths)
                  [] TestType = "random" ->
                         N!RandomPorts(NearEdge(h), NumPaths)
                  [] TestType = "single" -> {N!FirstPath(NearEdge(h))}
<1>1. Entry(h) = N!SteeringEntry(NearEdge(h), TestType, NumPaths)
  BY DEF Entry, FromA, FromB, NearEdge, EdgeOf, NPathTables,
         N!CheckLiveLiveEnabled
<1>2. TestType \in {"live-live", "random", "single", "no-deduplicate"}
  BY DEF NPathTables, N!TestTypes
<1>3. CASE TestType \in LiveTypes
  <2>1. Entry(h) = [action |-> "live_live_mcast",
                    ports |-> N!GroupPorts(NearEdge(h), NumPaths)]
    BY <1>1, <1>3 DEF LiveTypes, N!SteeringEntry, N!LiveLiveEntry
  <2> QED  BY <1>3, <2>1 DEF Live, LiveTypes
<1>4. CASE TestType = "random"
  <2>1. Entry(h) = [action |-> "ipv6_encap_forward_random",
                    ports |-> N!RandomPorts(NearEdge(h), NumPaths)]
    BY <1>1, <1>4 DEF N!SteeringEntry, N!RandomEntry
  <2> QED  BY <1>4, <2>1 DEF Live, LiveTypes
<1>5. CASE TestType = "single"
  <2>1. Entry(h) = [action |-> "ipv6_encap_forward_port",
                    ports |-> {N!FirstPath(NearEdge(h))}]
    BY <1>1, <1>5 DEF N!SteeringEntry, N!PortEntry
  <2> QED  BY <1>5, <2>1 DEF Live, LiveTypes
<1> QED  BY <1>2, <1>3, <1>4, <1>5 DEF LiveTypes

\* No edge steers a packet back to its own host.
LEMMA PortsLeadToPaths ==
    ASSUME NPathTables, RandomStaysOnPaths, NEW h \in HostPackets
    PROVE  /\ WiredPorts(h) \subseteq N!GroupPorts(NearEdge(h), NumPaths)
           /\ FromA(h) \/ FromB(h) =>
                 Entry(h).ports \subseteq N!GroupPorts(NearEdge(h), NumPaths)
<1> DEFINE n == NumPaths
           e == NearEdge(h)
<1>1. e \in Edges /\ WiredPorts(h) \subseteq Entry(h).ports
  BY RawFields DEF WiredPorts
<1>2. Simulated => N!RandomPorts(e, n) = N!GroupPorts(e, n)
  BY DEF N!RandomPorts, N!SimulatedRandomPorts, N!GroupPorts
<1>3. CASE FromA(h) \/ FromB(h)
  <2>1. TestType \in {"live-live", "random", "single", "no-deduplicate"}
    BY DEF NPathTables, N!TestTypes
  <2>2. CASE TestType \in LiveTypes
    BY <1>1, <1>3, <2>2, OwnPackets DEF LiveTypes
  <2>3. CASE TestType = "random"
    BY <1>1, <1>2, <1>3, <2>3, OwnPackets DEF LiveTypes, RandomStaysOnPaths
  <2>4. CASE TestType = "single"
    <3>1. Entry(h).ports = {N!FirstPath(e)}
      BY <1>3, <2>4, OwnPackets DEF LiveTypes
    <3>2. N!FirstPath(e) \in N!GroupPorts(e, n)
      BY <1>1, NPathConstants DEF Edges, N!FirstPath
    <3> QED  BY <1>1, <3>1, <3>2
  <2> QED  BY <2>1, <2>2, <2>3, <2>4 DEF LiveTypes
<1>4. CASE Stranger(h)
  <2>1. ~ FromA(h) /\ ~ FromB(h)
    BY <1>4 DEF FromA, FromB, Stranger
  <2>2. CASE TestType \notin LiveTypes
    <3>1. WiredPorts(h) = {}
      BY <1>1, <1>4, <2>2, StrangersGetNothing, NPathLinks DEF WiredPorts
    <3> QED  BY <2>1, <3>1
  <2>3. CASE TestType \in LiveTypes /\ Simulated
    BY <1>1, <1>2, <1>4, <2>1, <2>3, StrangersGetNothing
  <2>4. CASE TestType \in LiveTypes /\ ~ Simulated
    <3>1. h.host = "a" /\ e = "e1"
      BY <1>4, <2>1, <2>4
         DEF RandomStaysOnPaths, Stranger, NearEdge, EdgeOf
    <3>2. Entry(h).ports = 2 .. 2 + n
      BY <1>4, <2>4, <3>1, StrangersGetNothing
         DEF N!RandomPorts, N!EmulatedRandomPorts, N!FirstPath
    <3>3. ASSUME NEW p \in WiredPorts(h) PROVE p \in N!GroupPorts(e, n)
      <4>1. p \in 2 .. 2 + n /\ Peer("e1", p) # Nowhere
        BY <3>1, <3>2 DEF WiredPorts
      <4>2. p # 1
        BY <4>1, NPathConstants
      <4> QED  BY <3>1, <4>1, <4>2, NPathLinks DEF Edges
    <3> QED  BY <2>1, <3>3
  <2> QED  BY <2>2, <2>3, <2>4
<1> QED  BY <1>3, <1>4 DEF NPathTables

LEMMA NPathSegments ==
    ASSUME NPathTables, NEW h \in HostPackets, NEW p
    PROVE  /\ Segment(h, p) \in {NoSegment, "e1::2", "e2::2"}
           /\ TestType \in LiveTypes => Segment(h, p) = NoSegment
           /\ \A e \in Edges : FunctionOf(e) \in {"e1::55", "e2::55"}
           /\ Functions \subseteq {"e1::55", "e2::55"}
           /\ TestType = "live-live" => Functions = {"e1::55", "e2::55"}
           /\ NoSegment \notin {"e1::2", "e2::2", "e1::55", "e2::55"}
<1>1. /\ Segment(h, p) \in {NoSegment, "e1::2", "e2::2"}
      /\ TestType \in LiveTypes => Segment(h, p) = NoSegment
  BY DEF Segment, NPathTables, LiveTypes, N!Srv6Forward
<1>2. \A e \in Edges : FunctionOf(e) \in {"e1::55", "e2::55"}
  BY DEF NPathTables, N!Srv6LiveLiveForward
<1>3. /\ Functions \subseteq {"e1::55", "e2::55"}
      /\ TestType = "live-live" => Functions = {"e1::55", "e2::55"}
  BY DEF NPathTables, N!Srv6Function, N!HasDeduplicate
<1>4. NoSegment \notin {"e1::2", "e2::2", "e1::55", "e2::55"}
  BY DEF NPathTables, Segments
<1> QED  BY <1>1, <1>2, <1>3, <1>4

LEMMA NPathIsWired ==
    ASSUME NPathTables, RandomStaysOnPaths PROVE LabIsWired
<1>1. ASSUME NEW h \in HostPackets, NEW p \in WiredPorts(h)
      PROVE  /\ Peer(NearEdge(h), p) \notin Hosts
             /\ Segment(h, p) \notin Functions
  <2>1. p \in N!GroupPorts(NearEdge(h), NumPaths) /\ NearEdge(h) \in Edges
    BY PortsLeadToPaths, RawFields
  <2>2. Peer(NearEdge(h), p) \in {"c1", "c2", "c3", "c4", "c5", "c6"}
    BY <2>1, NPathLinks, NPathConstants
  <2> QED  BY <2>2, NPathSegments DEF Hosts
<1>2. ASSUME NEW h \in HostPackets, NEW e \in Edges
      PROVE  \/ Peer(e, HostPort(e, h.dst)) = Nowhere
             \/ Peer(e, HostPort(e, h.dst)) \in Hosts \ {h.host}
  BY NPathDelivers
<1>3. ASSUME NEW h \in HostPackets, NEW c
      PROVE  TransitEntry(c, h.dst).action # "srv6_seg_ep"
  <2>1. h.dst \in {"2001::a", "2002::b"}
    BY DEF NPathTables, FromA, FromB, Stranger
  <2>2. TransitEntry(c, h.dst) \in
          {[action |-> "srv6_noop", port |-> 1],
           [action |-> "srv6_noop", port |-> 2],
           [action |-> "NoAction", port |-> 0]}
    BY <2>1 DEF NPathTables, N!Srv6Table
  <2> QED  BY <2>2
<1> QED  BY <1>1, <1>2, <1>3, NPathLinks DEF LabIsWired

\* The destination of the hosts' own packets between the edges.
Target(h) ==
    IF TestType \in LiveTypes THEN h.dst
    ELSE IF h.host = "a" THEN "e2::2" ELSE "e1::2"

NPathHops ==
    [h \in HostPackets |->
        {Hop(N!Transits[i], Target(h), 0) : i \in 1 .. NumPaths}
            \cup {Hop(FarEdge(h), Target(h), 0)}]

\* On every path a transit switch sends them to the far edge.
LEMMA NPathTransits ==
    ASSUME NPathTables, NEW h \in HostPackets, FromA(h) \/ FromB(h), NEW c
    PROVE  TransitEntry(c, Target(h)).port
             = IF FarEdge(h) = "e2" THEN 2 ELSE 1
<1>1. TestType \in {"live-live", "random", "single", "no-deduplicate"}
  BY DEF NPathTables, N!TestTypes
<1>2. \/ h.host = "a" /\ h.dst = "2002::b" /\ FarEdge(h) = "e2"
      \/ h.host = "b" /\ h.dst = "2001::a" /\ FarEdge(h) = "e1"
  BY DEF FromA, FromB, FarEdge, NearEdge, EdgeOf
<1>3. TransitEntry(c, Target(h)) = N!Srv6Table(Target(h), TestType)
  BY DEF NPathTables
<1>4. CASE TestType \in LiveTypes
  <2>1. Target(h) = h.dst
    BY <1>4 DEF Target
  <2>2. /\ N!Srv6Table("2002::b", TestType)
             = [action |-> "srv6_noop", port |-> 2]
        /\ N!Srv6Table("2001::a", TestType)
             = [action |-> "srv6_noop", port |-> 1]
    BY <1>4 DEF LiveTypes, N!Srv6Table, N!HasEntries
  <2> QED  BY <1>2, <1>3, <2>1, <2>2
<1>5. CASE TestType \notin LiveTypes
  <2>1. Target(h) = IF h.host = "a" THEN "e2::2" ELSE "e1::2"
    BY <1>5 DEF Target
  <2>2. /\ N!Srv6Table("e2::2", TestType)
             = [action |-> "srv6_seg_ep", port |-> 2]
        /\ N!Srv6Table("e1::2", TestType)
             = [action |-> "srv6_seg_ep", port |-> 1]
    BY <1>1, <1>5 DEF LiveTypes, N!Srv6Table, N!HasEntries
  <2> QED  BY <1>2, <1>3, <2>1, <2>2
<1> QED  BY <1>4, <1>5

LEMMA OwnSegments ==
    ASSUME NPathTables, RandomStaysOnPaths, NEW h \in HostPackets,
           FromA(h) \/ FromB(h), NEW p \in Entry(h).ports
    PROVE  IF TestType \in LiveTypes
           THEN Live(h) /\ Segment(h, p) = NoSegment
           ELSE /\ ~ Live(h) /\ Segment(h, p) = Target(h)
                /\ Segment(h, p) # NoSegment
<1>1. TestType \in {"live-live", "random", "single", "no-deduplicate"}
  BY DEF NPathTables, N!TestTypes
<1>2. CASE TestType \in LiveTypes
  BY <1>2, OwnPackets, NPathSegments
<1>3. CASE TestType \notin LiveTypes
  <2>1. p \in N!GroupPorts(NearEdge(h), NumPaths)
    BY PortsLeadToPaths
  <2>2. TestType = "single" => p = N!FirstPath(NearEdge(h))
    BY OwnPackets DEF LiveTypes
  <2>3. Segment(h, p) = IF NearEdge(h) = "e1" THEN "e2::2" ELSE "e1::2"
    BY <1>1, <1>3, <2>1, <2>2
       DEF Segment, NPathTables, LiveTypes, N!Srv6Forward
  <2>4. Target(h) = IF NearEdge(h) = "e1" THEN "e2::2" ELSE "e1::2"
    BY <1>3 DEF Target, FromA, FromB, NearEdge, EdgeOf
  <2> QED  BY <1>3, <2>3, <2>4, OwnPackets, NPathSegments
<1> QED  BY <1>2, <1>3

LEMMA NPathLeads ==
    ASSUME NPathTables, RandomStaysOnPaths,
           \A h \in HostPackets : FromA(h) \/ FromB(h)
    PROVE  TablesLead(NPathHops) /\ TablesReach(NPathHops)
<1>1. ASSUME NEW h \in HostPackets, NEW p \in Entry(h).ports
      PROVE  /\ Peer(NearEdge(h), p) # Nowhere
             /\ FirstHop(h, p) \in NPathHops[h]
  <2>1. PICK i \in 1 .. NumPaths : Peer(NearEdge(h), p) = N!Transits[i]
    BY PortsLeadToPaths, RawFields, NPathLinks
  <2>2. Peer(NearEdge(h), p) # Nowhere
    BY <2>1, NPathConstants, NPathLinks DEF Nodes
  <2>3. FirstHop(h, p) = Hop(N!Transits[i], Target(h), 0)
    BY <2>1, OwnSegments DEF FirstHop, Target
  <2> QED  BY <2>2, <2>3 DEF NPathHops
<1>2. ASSUME NEW h \in HostPackets, NEW at, NEW dst, NEW left,
             Hop(at, dst, left) \in NPathHops[h]
      PROVE  IF at \in Edges
             THEN left = 0 /\ Peer(at, HostPort(at, h.dst)) # Nowhere
             ELSE /\ NextHop(h, at, dst, left) \in NPathHops[h]
                  /\ Peer(at, TransitEntry(at, dst).port) # Nowhere
  <2>1. /\ dst = Target(h) /\ left = 0
        /\ \/ \E i \in 1 .. NumPaths : at = N!Transits[i]
           \/ at = FarEdge(h)
    BY <1>2, HopsDiffer DEF NPathHops
  <2>2. FarEdge(h) \in {"e1", "e2"} /\ FarEdge(h) \in Edges
    BY DEF FarEdge, Edges
  <2>3. CASE at = FarEdge(h)
    <3>1. Peer(at, HostPort(at, h.dst)) \in Hosts
      BY <2>2, <2>3, NPathDelivers
    <3> QED  BY <2>1, <2>2, <2>3, <3>1, LabAssumption
  <2>4. CASE \E i \in 1 .. NumPaths : at = N!Transits[i]
    <3>1. at \notin Edges
      BY <2>4, NPathConstants DEF Edges
    <3>2. Peer(at, TransitEntry(at, dst).port) = FarEdge(h)
      BY <2>1, <2>2, <2>4, NPathTransits, NPathLinks
    <3>3. NextHop(h, at, dst, left) = Hop(FarEdge(h), Target(h), 0)
      BY <2>1, <3>2 DEF NextHop
    <3>4. FarEdge(h) # Nowhere
      BY <2>2, NPathLinks DEF Nodes
    <3> QED  BY <3>1, <3>2, <3>3, <3>4 DEF NPathHops
  <2> QED  BY <2>1, <2>3, <2>4
<1>3. TablesLead(NPathHops)
  BY <1>1, <1>2 DEF TablesLead, WiredPorts
<1>4. TablesReach(NPathHops)
  BY <1>1, <1>2 DEF TablesReach
<1> QED  BY <1>3, <1>4

\* In the experiment, whatever its type and its number of paths, a host gets
\* what the other one sent, but for the header of a tunnel, and what strangers
\* send is lost; for that both hosts have to be among the destinations, from
\* which ForeignIsLost tells strangers.
THEOREM ExperimentsKeepPackets ==
    ASSUME NPathTables, RandomStaysOnPaths,
           {"2001::a", "2002::b"} \subseteq {g.dst : g \in HostPackets}
    PROVE  Spec => /\ []TypeOK /\ []LengthIsHonest /\ []ArrivesIntact
                   /\ []TunnelLosesHeader /\ []ForeignIsLost
<1>1. LabIsWired
  BY NPathIsWired
<1>2. ForeignGetNothing
  <2>1. \A h \in HostPackets : Foreign(h) => Stranger(h)
    BY DEF NPathTables, Foreign, FromA, FromB
  <2> QED  BY <2>1, StrangersGetNothing DEF ForeignGetNothing
<1>3. Spec => []TypeOK
  BY <1>1, LabTypeCorrect
<1>4. Spec => []LengthIsHonest
  BY <1>1, LengthIsKept
<1>5. Spec => []ArrivesIntact
  BY <1>1, PacketsArriveIntact
<1>6. Spec => []TunnelLosesHeader
  BY <1>1, TunnelsLoseTheirHeader
<1>7. Spec => []ForeignIsLost
  BY <1>1, <1>2, ForeignPacketsAreLost
<1> QED  BY <1>3, <1>4, <1>5, <1>6, <1>7, PTL

\* In every type but no-deduplicate, strangers included, nothing arrives twice.
THEOREM ExperimentsDeliverOnce ==
    ASSUME NPathTables, RandomStaysOnPaths, TestType # "no-deduplicate"
    PROVE  Spec => []ArrivesOnce
<1>1. ASSUME NEW h \in HostPackets, Live(h)
      PROVE  Function(h) \in Functions
  <2>1. FromA(h) \/ FromB(h)
    BY <1>1, StrangersGetNothing DEF NPathTables
  <2>2. TestType = "live-live"
    BY <1>1, <2>1, OwnPackets DEF LiveTypes
  <2>3. Function(h) \in {"e1::55", "e2::55"}
    BY DEF Function, NPathTables, N!Srv6LiveLiveForward
  <2> QED  BY <2>2, <2>3, NPathSegments
<1>2. CopiesAreChecked
  BY <1>1, NPathDelivers DEF CopiesAreChecked
<1> QED  BY <1>2, NPathIsWired, PacketsArriveOnce

\* The hosts' own packets have counters that fit their lists, meet a function
\* exactly if they carry a TLV, and are never sent to nobody.
THEOREM ExperimentsSteerOwnPackets ==
    ASSUME NPathTables, RandomStaysOnPaths,
           \A h \in HostPackets : FromA(h) \/ FromB(h)
    PROVE  Spec => /\ []CountersMatchList /\ []FunctionMeetsTlv
                   /\ []NothingStranded
<1>1. LabIsWired
  BY NPathIsWired
<1>2. TablesLead(NPathHops) /\ TablesReach(NPathHops)
  BY NPathLeads
<1>3. \A h \in HostPackets : HasSegments(h)
  BY OwnSegments DEF HasSegments, WiredPorts
<1>4. \A h \in HostPackets : \A p \in WiredPorts(h) :
         Segment(h, p) \notin {FunctionOf(e) : e \in Edges}
  BY NPathSegments
<1>5. Spec => []CountersMatchList
  BY <1>1, <1>3, CountersAreRight
<1>6. Spec => []FunctionMeetsTlv
  BY <1>1, <1>2, <1>4, FunctionsMeetTheirTlv
<1>7. Spec => []NothingStranded
  BY <1>1, <1>2, NothingIsStranded
<1> QED  BY <1>5, <1>6, <1>7, PTL

\* In the types without copies a packet travels to the segment its counter
\* points at.
THEOREM SinglePacketsFollowSegments ==
    ASSUME NPathTables, RandomStaysOnPaths,
           \A h \in HostPackets : FromA(h) \/ FromB(h),
           TestType \in {"random", "single"}
    PROVE  Spec => []DestinationIsActive
<1>1. ASSUME NEW h \in HostPackets, NEW p \in WiredPorts(h)
      PROVE  Segment(h, p) # NoSegment
  BY OwnSegments DEF WiredPorts, LiveTypes
<1> QED  BY <1>1, NPathIsWired, DestinationsAreSegments
=============================================================================
