----------------------------- MODULE LabNetwork -----------------------------
(***************************************************************************)
(* Hosts a and b, the edge switches e1 and e2 and the transit switches     *)
(* between them, each running its P4 program with the tables of a lab.     *)
(* Here a packet is its headers: what the edges push, the transit nodes    *)
(* follow and the far edge strips.  Nothing is lost on a link, since loss  *)
(* only takes packets away (LiveLive has it), but packets on the same link *)
(* may overtake each other.                                                *)
(***************************************************************************)
EXTENDS Srv6Switch

CONSTANTS
    HostPackets,        \* packets to send, [id, host, src, dst, proto, inner]
    Functions,          \* segments srv6_function has an entry for
    Nowhere,            \* the peer of a port with nothing connected
    Peer(_, _),         \* node and port to the node connected there
    Steering(_, _),     \* edge and source to [action, ports]
    DestSegment(_, _),  \* edge and port to the segment of srv6_forward
    FunctionOf(_),      \* edge to the segment of srv6_live_live_forward
    HostPort(_, _),     \* edge and destination to the port of ipv6_forward
    TransitEntry(_, _)  \* transit node and destination to [action, port]

Edges == {"e1", "e2"}
Hosts == {"a", "b"}
Ids == {h.id : h \in HostPackets}

VARIABLES
    unsent,             \* packets the hosts still have to send
    inflight,           \* [from, at, src, pkt]: pkt on its way to node at
    seq_n,              \* register of each edge
    flow_window_start,  \* register of each edge
    flow_to_bitmap,     \* register of each edge
    arrived,            \* history: packets the hosts got, by id
    stranded            \* history: packets sent to a port with no peer

registers == <<seq_n, flow_window_start, flow_to_bitmap>>
vars == <<unsent, inflight, seq_n, flow_window_start, flow_to_bitmap,
          arrived, stranded>>

Init ==
    /\ unsent = HostPackets
    /\ inflight = {}
    /\ seq_n = [e \in Edges |-> 0]
    /\ flow_window_start = [e \in Edges |-> 0]
    /\ flow_to_bitmap = [e \in Edges |-> {}]
    /\ arrived = [id \in Ids |-> << >>]
    /\ stranded = {}

EdgeOf(host) == IF host = "a" THEN "e1" ELSE "e2"
Original(h) == HostPacket(h.id, h.dst, h.proto, h.inner)

\* Payloads tell host packets apart, and addresses and numbers are none of the
\* values that stand for their absence.
ASSUME LabAssumption ==
    /\ \A g, h \in HostPackets : g.id = h.id => g = h
    /\ \A h \in HostPackets :
          /\ h.host \in Hosts
          /\ h.dst # Unspecified
          /\ Encapsulated(Original(h)).inner # NoInner
          /\ \A p \in Steering(EdgeOf(h.host), h.src).ports :
                DestSegment(EdgeOf(h.host), p) # Unspecified
    /\ \A e \in Edges : FunctionOf(e) # Unspecified
    /\ NoTlv \notin SeqNo
    /\ Nowhere \notin Hosts

\* A packet that leaves on one port, its egress_spec.
OnPort(p, pkt) == [q \in {p} |-> pkt]

\* Node m.at replaces m by a packet out[p] on every port p of out; a port with
\* no peer is the end of a packet.
Emit(m, out) ==
    LET Sent(p) == [from |-> m.at, at |-> Peer(m.at, p), src |-> m.src,
                    pkt |-> out[p]]
        wired == {p \in DOMAIN out : Peer(m.at, p) # Nowhere}
    IN  /\ inflight' = (inflight \ {m}) \cup {Sent(p) : p \in wired}
        /\ stranded' = stranded \cup {Sent(p) : p \in DOMAIN out \ wired}

Drop(m) == inflight' = inflight \ {m} /\ UNCHANGED stranded
-----------------------------------------------------------------------------
HostSends(h) ==
    /\ h \in unsent
    /\ unsent' = unsent \ {h}
    /\ inflight' = inflight \cup {[from |-> h.host, at |-> EdgeOf(h.host),
                                   src |-> h.src, pkt |-> Original(h)]}
    /\ UNCHANGED <<registers, arrived, stranded>>

\* The edge takes a packet of its host: live_live_mcast numbers it and sends
\* a copy out of every port of the group, the other actions choose one port.
EdgeSteers(m) ==
    LET e == m.at
        entry == Steering(e, m.src)
        live == entry.action = "live_live_mcast"
        seq == ToSeqNo(seq_n[e] + 1)
        pkt == Encapsulated(m.pkt)
        Out(p) == LET routed == WithDestSegment(pkt, DestSegment(e, p))
                  IN  Counted(IF live
                              THEN WithFunction(routed, FunctionOf(e), seq)
                              ELSE routed)
    IN  /\ e \in Edges /\ ~ m.pkt.srv6
        /\ IF ~ Steered(m.pkt)
           THEN Drop(m) /\ UNCHANGED seq_n
           ELSE /\ IF live
                   THEN Emit(m, [p \in entry.ports |-> Out(p)])
                   ELSE \E p \in entry.ports : Emit(m, OnPort(p, Out(p)))
                /\ seq_n' = IF live THEN [seq_n EXCEPT ![e] = seq] ELSE seq_n
        /\ UNCHANGED <<unsent, flow_window_start, flow_to_bitmap, arrived>>

\* The edge is the end of the segment list: the function refuses a copy or
\* both the function and its absence decapsulate and forward it.
EdgeEnds(m) ==
    LET e == m.at
        inside == Decapsulated(m.pkt)
        Deliver == Emit(m, OnPort(HostPort(e, inside.dst), Counted(inside)))
    IN  /\ e \in Edges /\ m.pkt.srv6 /\ m.pkt.left = 0
        /\ IF Head(m.pkt.list) \in Functions
           THEN LET start == flow_window_start[e]
                    bitmap == flow_to_bitmap[e]
                    s == m.pkt.tlv
                IN  /\ flow_window_start' =
                         [flow_window_start EXCEPT ![e] = NextStart(start, s)]
                    /\ flow_to_bitmap' =
                         [flow_to_bitmap EXCEPT
                              ![e] = NextBitmap(start, bitmap, s)]
                    /\ IF Refused(start, bitmap, s) THEN Drop(m) ELSE Deliver
           ELSE Deliver /\ UNCHANGED <<flow_window_start, flow_to_bitmap>>
        /\ UNCHANGED <<unsent, seq_n, arrived>>

\* Mutant: an edge decapsulates whatever segments are left.
EdgePassesDecapsulated(m) ==
    LET inside == Decapsulated(m.pkt)
    IN  /\ m.at \in Edges /\ m.pkt.srv6 /\ m.pkt.left # 0
        /\ Emit(m, OnPort(HostPort(m.at, inside.dst), inside))
        /\ UNCHANGED <<unsent, registers, arrived>>

\* Segments are left at an edge: no table applies and the packet leaves on
\* egress port 0, its counters overwritten by the egress.
EdgePasses(m) ==
    /\ m.at \in Edges /\ m.pkt.srv6 /\ m.pkt.left # 0
    /\ Emit(m, OnPort(0, [m.pkt EXCEPT !.left = ToByte(-1),
                                       !.last = ToByte(-1)]))
    /\ UNCHANGED <<unsent, registers, arrived>>

\* A transit switch: forward by destination, and move to the next segment if
\* the destination is a segment of its own.
TransitForwards(m) ==
    LET entry == TransitEntry(m.at, m.pkt.dst)
        out == IF entry.action = "srv6_seg_ep"
               THEN AtEndpoint(m.pkt)
               ELSE m.pkt
    IN  /\ m.at \notin Edges \cup Hosts
        /\ IF m.pkt.srv6 THEN Emit(m, OnPort(entry.port, out)) ELSE Drop(m)
        /\ UNCHANGED <<unsent, registers, arrived>>

HostReceives(m) ==
    /\ m.at \in Hosts
    /\ Drop(m)
    /\ arrived' = [arrived EXCEPT ![m.pkt.id] =
                       Append(@, [host |-> m.at, pkt |-> m.pkt])]
    /\ UNCHANGED <<unsent, registers>>

Next ==
    \/ \E h \in HostPackets : HostSends(h)
    \/ \E m \in inflight : EdgeSteers(m)
    \/ \E m \in inflight : EdgeEnds(m)
    \/ \E m \in inflight : EdgePasses(m)
    \/ \E m \in inflight : TransitForwards(m)
    \/ \E m \in inflight : HostReceives(m)

Spec == Init /\ [][Next]_vars

Forwards ==
    \E m \in inflight :
        \/ EdgeSteers(m) \/ EdgeEnds(m) \/ EdgePasses(m)
        \/ TransitForwards(m) \/ HostReceives(m)

\* A switch goes on as long as packets wait for it.
FairSpec == Spec /\ WF_vars(Forwards)
-----------------------------------------------------------------------------
SentIds == {h.id : h \in HostPackets \ unsent}
Travelling == {m \in inflight : m.pkt.srv6}
Tunnelled == {h \in HostPackets : h.inner # NoInner}

TypeOK ==
    /\ unsent \in SUBSET HostPackets
    /\ \A m \in inflight \cup stranded :
          /\ m.pkt.id \in Ids
          /\ m.pkt.left \in 0 .. 255 /\ m.pkt.last \in 0 .. 255
          /\ m.pkt.tlv \in SeqNo \cup {NoTlv}
          /\ m.pkt.dst # Unspecified
    /\ seq_n \in [Edges -> SeqNo]
    /\ flow_window_start \in [Edges -> SeqNo]
    /\ flow_to_bitmap \in [Edges -> SUBSET Index]
    /\ DOMAIN arrived = Ids

\* last_entry tells the parser of the next switch where the segments end, and
\* no segment is left beyond them.
CountersMatchList ==
    \A m \in Travelling :
        m.pkt.last + 1 = Len(m.pkt.list) /\ m.pkt.left <= m.pkt.last

\* payload_len is what follows the header, whatever was pushed or stripped.
LengthIsHonest ==
    \A m \in inflight :
        m.pkt.id \notin {h.id : h \in Tunnelled} => m.pkt.len = BytesOf(m.pkt)

\* A packet travels to the segment its counter points at.
DestinationIsActive ==
    \A m \in Travelling : m.pkt.dst = m.pkt.list[m.pkt.left + 1]

\* When a copy is at the far edge its next segment is the function the near
\* edge meant, exactly if it carries the TLV the function reads.
FunctionMeetsTlv ==
    \A m \in Travelling :
        m.at \in Edges =>
            /\ m.pkt.left = 0
            /\ m.pkt.tlv # NoTlv <=>
                   Head(m.pkt.list) \in {FunctionOf(e) : e \in Edges}

\* What a host gets is what the other one sent: the right packet at the right
\* host, its headers restored.  Only the first bytes of a numbered UDP payload
\* are not its own any more.
ArrivesIntact ==
    \A h \in HostPackets \ Tunnelled :
        \A i \in 1 .. Len(arrived[h.id]) :
            LET got == arrived[h.id][i]
            IN  /\ got.host # h.host
                /\ [got.pkt EXCEPT !.stamp = NoStamp] = Original(h)
                /\ h.proto = "tcp" => got.pkt.stamp = NoStamp

\* What arrives of an IPv6-in-IPv6 packet is its outer header, which goes on
\* counting the inner one, and the payload: encapsulation used the inner
\* header for itself.
TunnelLosesHeader ==
    \A h \in Tunnelled :
        \A i \in 1 .. Len(arrived[h.id]) :
            LET got == arrived[h.id][i]
            IN  /\ got.host # h.host
                /\ [got.pkt EXCEPT !.stamp = NoStamp] =
                       [Original(h) EXCEPT !.inner = NoInner]

\* No switch sends a packet out of a port with nothing behind it.
NothingStranded == stranded = {}

\* A packet arrives once although the edges copy it.
ArrivesOnce == \A id \in Ids : Len(arrived[id]) <= 1

\* A packet spread over a path for which its edge has no segment to push is
\* lost: n_segments - 1 is 255, so that the far edge takes it for one that
\* has segments left.  This is what the default entry of the live-live
\* experiments does to every source outside the hosts' prefixes.
ForeignIsLost ==
    \A h \in HostPackets :
        h.src \notin {g.dst : g \in HostPackets} => arrived[h.id] = << >>

\* Every host packet the edge steers reaches the other host.
EventuallyArrives ==
    \A h \in HostPackets :
        (Steered(Original(h)) /\ h \notin unsent) ~> arrived[h.id] # << >>
=============================================================================
