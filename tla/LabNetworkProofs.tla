-------------------------- MODULE LabNetworkProofs --------------------------
(***************************************************************************)
(* Proofs about LabNetwork, for any host packets and any tables: what the  *)
(* theorems need of the tables is their hypotheses, and LabTablesProofs    *)
(* shows that the tables of the lab and of the experiments meet them.      *)
(***************************************************************************)
EXTENDS LabNetwork, DedupWindowProofs, SequenceTheorems

\* The edge a host packet enters, the entry that steers it there, and the
\* ports of the entry with something behind them.
NearEdge(h) == EdgeOf(h.host)
FarEdge(h) == IF NearEdge(h) = "e1" THEN "e2" ELSE "e1"
Entry(h) == Steering(NearEdge(h), h.src)
Live(h) == Entry(h).action = "live_live_mcast"
WiredPorts(h) == {p \in Entry(h).ports : Peer(NearEdge(h), p) # Nowhere}
Segment(h, p) == DestSegment(NearEdge(h), p)
Function(h) == FunctionOf(NearEdge(h))

Stamps(h) == IF h.proto = "udp" THEN SeqNo \cup {NoStamp} ELSE {NoStamp}

\* The segment lists the edges make, and what the counters of one are.  The
\* lemmas take them as they are: the provers unfold every sequence they see.
None == << >>
One(x) == <<x>>
Two(x, y) == <<x, y>>
Push(x, list) == <<x>> \o list
CounterOf(list) == ToByte(Len(list) - 1)

Packet(dst, len, srv6, list, left, last, tlv, inner, proto, stamp, id) ==
    [dst |-> dst, len |-> len, srv6 |-> srv6, list |-> list, left |-> left,
     last |-> last, tlv |-> tlv, inner |-> inner, proto |-> proto,
     stamp |-> stamp, id |-> id]

\* A packet with a segment routing header and one without.
Srv6(dst, len, list, left, last, tlv, inner, proto, stamp, id) ==
    Packet(dst, len, TRUE, list, left, last, tlv, inner, proto, stamp, id)
Bare(dst, len, inner, proto, stamp, id) ==
    Packet(dst, len, FALSE, None, 0, 0, NoTlv, inner, proto, stamp, id)

\* The payload_len of a host packet.
LenOf(h) == PayloadBytes + (IF h.inner # NoInner THEN Ipv6Bytes ELSE 0)

\* What of its own header an edge keeps in the inner one.
OwnHeader(h) == [dst |-> h.dst, len |-> LenOf(h)]

\* The two forms of a host packet behind its edge: with a segment routing
\* header and the host's own header as the inner one, and without them again.
Wrapped(h, list, left, dst, tlv, stamp) ==
    Srv6(dst,
         LenOf(h) + Ipv6Bytes + Srv6Bytes + SegmentBytes * Len(list)
             + (IF tlv # NoTlv THEN TlvBytes ELSE 0),
         list, left, CounterOf(list), tlv,
         OwnHeader(h), h.proto, stamp, h.id)

Stripped(h, stamp) ==
    Bare(h.dst, LenOf(h), NoInner, h.proto, stamp, h.id)

\* The segments and the TLV a packet that left its edge on port p carries, the
\* segments it still has to visit and the one it is on its way to.
Shape(h, p, list, left, dst, tlv) ==
    \/ /\ Live(h) /\ Segment(h, p) # NoSegment
       /\ list = Two(Function(h), Segment(h, p)) /\ tlv \in SeqNo
       /\ \/ left = 1 /\ dst = Segment(h, p)
          \/ left = 0 /\ dst = Function(h)
    \/ /\ Live(h) /\ Segment(h, p) = NoSegment
       /\ list = One(Function(h)) /\ tlv \in SeqNo
       /\ left = 0 /\ dst = h.dst
    \/ /\ ~ Live(h) /\ Segment(h, p) # NoSegment
       /\ list = One(Segment(h, p)) /\ tlv = NoTlv
       /\ left = 0 /\ dst = Segment(h, p)
    \/ /\ ~ Live(h) /\ Segment(h, p) = NoSegment
       /\ list = None /\ tlv = NoTlv
       /\ left = 255 /\ dst = h.dst
-----------------------------------------------------------------------------
\* What the operators of the P4 programs make of a packet, header by header.
\* The provers take a record apart one field at a time, hence the chains.
LEMMA Bytes == /\ ToByte(-1) = 255 /\ ToByte(0) = 0 /\ ToByte(1) = 1
<1>1. ASSUME NEW m \in Nat \ {0}
      PROVE  (-1) % m = m - 1
  <2>1. ASSUME NEW n \in Int, n < 0, n + m >= 0
        PROVE  n % m = n + m
    BY <2>1
  <2>2. -1 \in Int /\ -1 < 0 /\ -1 + m >= 0
    OBVIOUS
  <2> QED  BY <2>1, <2>2
<1>2. 256 \in Nat \ {0} /\ 0 \in 0 .. 256 - 1 /\ 1 \in 0 .. 256 - 1
  OBVIOUS
<1>3. (-1) % 256 = 256 - 1
  BY <1>1, <1>2
<1>4. 0 % 256 = 0 /\ 1 % 256 = 1
  BY <1>2, ModFits
<1> QED  BY <1>3, <1>4 DEF ToByte

LEMMA Lists ==
    ASSUME NEW x, NEW y
    PROVE  /\ Push(x, None) = One(x) /\ Push(x, One(y)) = Two(x, y)
           /\ Len(None) = 0 /\ Len(One(x)) = 1 /\ Len(Two(x, y)) = 2
           /\ Head(One(x)) = x /\ Head(Two(x, y)) = x
           /\ One(x)[1] = x /\ Two(x, y)[1] = x /\ Two(x, y)[2] = y
           /\ CounterOf(None) = 255 /\ CounterOf(One(x)) = 0
           /\ CounterOf(Two(x, y)) = 1
<1>1. Push(x, None) = One(x)
  BY ConcatEmptySeq, <<x>> \in Seq({x}) DEF Push, None, One
<1>2. Push(x, One(y)) = Two(x, y)
  <2> DEFINE s == <<x>> \o <<y>>
             t == <<x, y>>
  <2>1. <<x>> \in Seq({x, y}) /\ <<y>> \in Seq({x, y})
    OBVIOUS
  <2>2. /\ s \in Seq({x, y}) /\ Len(s) = 2
        /\ s[1] = x /\ s[2] = y
    BY <2>1, ConcatProperties
  <2>3. t \in Seq({x, y}) /\ Len(t) = 2 /\ t[1] = x /\ t[2] = y
    OBVIOUS
  <2>4. \A i \in 1 .. Len(s) : s[i] = t[i]
    BY <2>2, <2>3
  <2>5. s = t
    BY <2>2, <2>3, <2>4, SeqEqual
  <2> QED  BY <2>5 DEF Push, One, Two
<1>3. Len(None) = 0 /\ Len(One(x)) = 1 /\ Len(Two(x, y)) = 2
  BY DEF None, One, Two
<1>4. /\ Head(One(x)) = x /\ Head(Two(x, y)) = x
      /\ One(x)[1] = x /\ Two(x, y)[1] = x /\ Two(x, y)[2] = y
  BY DEF One, Two
<1>5. Len(None) - 1 = -1 /\ Len(One(x)) - 1 = 0 /\ Len(Two(x, y)) - 1 = 1
  BY <1>3
<1>6. /\ CounterOf(None) = 255 /\ CounterOf(One(x)) = 0
      /\ CounterOf(Two(x, y)) = 1
  BY <1>5, Bytes DEF CounterOf
<1> QED  BY <1>1, <1>2, <1>3, <1>4, <1>6

LEMMA OriginalMeaning ==
    ASSUME NEW h
    PROVE  Original(h) = Bare(h.dst, LenOf(h), h.inner, h.proto, NoStamp,
                              h.id)
<1>1. PICK bare : bare = Bare(h.dst, 0, h.inner, h.proto, NoStamp, h.id)
  OBVIOUS
<1>2. Original(h) = [bare EXCEPT !.len = BytesOf(bare)]
  BY <1>1 DEF Original, HostPacket, Packet, Bare, None
<1>3. BytesOf(bare) = LenOf(h)
  BY <1>1 DEF BytesOf, Packet, Srv6, Bare, LenOf, PayloadBytes, Ipv6Bytes
<1> QED  BY <1>1, <1>2, <1>3 DEF Srv6, Bare, Packet

LEMMA LenOfIsNat == ASSUME NEW h PROVE LenOf(h) \in Nat
BY DEF LenOf, PayloadBytes, Ipv6Bytes

LEMMA EncapsulatedMeaning ==
    ASSUME NEW dst, NEW len \in Nat, NEW inner, NEW proto, NEW stamp, NEW id
    PROVE  Encapsulated(Bare(dst, len, inner, proto, stamp, id))
             = Srv6(dst, len + Ipv6Bytes + Srv6Bytes, None, 0, 0, NoTlv,
                    [dst |-> dst, len |-> len], proto, stamp, id)
<1> DEFINE more == len + Ipv6Bytes + Srv6Bytes
           own == [dst |-> dst, len |-> len]
<1>1. PICK p : p = Bare(dst, len, inner, proto, stamp, id)
  OBVIOUS
<1>2. p.dst = dst /\ p.len = len
  BY <1>1 DEF Srv6, Bare, Packet
<1>3. Encapsulated(p) = [[[[[[p EXCEPT !.len = more] EXCEPT !.srv6 = TRUE]
                             EXCEPT !.left = 0] EXCEPT !.last = 0]
                          EXCEPT !.tlv = NoTlv] EXCEPT !.inner = own]
  BY <1>2 DEF Encapsulated
<1> HIDE DEF more, own
<1>4. PICK p1 : p1 = [p EXCEPT !.len = more]
  OBVIOUS
<1>5. PICK p2 : p2 = [p1 EXCEPT !.srv6 = TRUE]
  OBVIOUS
<1>6. PICK p3 : p3 = [p2 EXCEPT !.left = 0]
  OBVIOUS
<1>7. PICK p4 : p4 = [p3 EXCEPT !.last = 0]
  OBVIOUS
<1>8. PICK p5 : p5 = [p4 EXCEPT !.tlv = NoTlv]
  OBVIOUS
<1>9. p1 = Bare(dst, more, inner, proto, stamp, id)
  BY <1>1, <1>4 DEF Srv6, Bare, Packet
<1>10. p2 = Srv6(dst, more, None, 0, 0, NoTlv, inner, proto, stamp, id)
  BY <1>5, <1>9 DEF Srv6, Bare, Packet
<1>11. p3 = Srv6(dst, more, None, 0, 0, NoTlv, inner, proto, stamp, id)
  BY <1>6, <1>10 DEF Srv6, Bare, Packet
<1>12. p4 = Srv6(dst, more, None, 0, 0, NoTlv, inner, proto, stamp, id)
  BY <1>7, <1>11 DEF Srv6, Bare, Packet
<1>13. p5 = Srv6(dst, more, None, 0, 0, NoTlv, inner, proto, stamp, id)
  BY <1>8, <1>12 DEF Srv6, Bare, Packet
<1>14. PICK p6 : p6 = [p5 EXCEPT !.inner = own]
  OBVIOUS
<1>15. p6 = Srv6(dst, more, None, 0, 0, NoTlv, own, proto, stamp, id)
  BY <1>13, <1>14 DEF Srv6, Bare, Packet
<1> QED  BY <1>1, <1>3, <1>4, <1>5, <1>6, <1>7, <1>8, <1>14, <1>15
         DEF more, own

LEMMA WithDestSegmentMeaning ==
    ASSUME NEW dst, NEW len \in Nat, NEW inner, NEW proto, NEW stamp, NEW id,
           NEW seg, seg # NoSegment
    PROVE  WithDestSegment(Srv6(dst, len, None, 0, 0, NoTlv, inner, proto,
                                stamp, id), seg)
             = Srv6(seg, len + SegmentBytes, One(seg), 0, 0, NoTlv, inner,
                    proto, stamp, id)
<1> DEFINE more == len + SegmentBytes
<1>1. PICK p : p = Srv6(dst, len, None, 0, 0, NoTlv, inner, proto, stamp, id)
  OBVIOUS
<1>2. p.len = len /\ Push(seg, p.list) = One(seg)
  BY <1>1, Lists DEF Srv6, Bare, Packet
<1>3. WithDestSegment(p, seg)
        = [[[p EXCEPT !.dst = seg] EXCEPT !.list = One(seg)]
              EXCEPT !.len = more]
  BY <1>2 DEF WithDestSegment, Push
<1> HIDE DEF more
<1>4. PICK p1 : p1 = [p EXCEPT !.dst = seg]
  OBVIOUS
<1>5. PICK p2 : p2 = [p1 EXCEPT !.list = One(seg)]
  OBVIOUS
<1>6. p1 = Srv6(seg, len, None, 0, 0, NoTlv, inner, proto, stamp, id)
  BY <1>1, <1>4 DEF Srv6, Bare, Packet
<1>7. p2 = Srv6(seg, len, One(seg), 0, 0, NoTlv, inner, proto, stamp, id)
  BY <1>5, <1>6 DEF Srv6, Bare, Packet
<1>8. PICK p3 : p3 = [p2 EXCEPT !.len = more]
  OBVIOUS
<1>9. p3 = Srv6(seg, more, One(seg), 0, 0, NoTlv, inner, proto, stamp, id)
  BY <1>7, <1>8 DEF Srv6, Bare, Packet
<1> QED  BY <1>1, <1>3, <1>4, <1>5, <1>8, <1>9 DEF more

LEMMA WithFunctionMeaning ==
    ASSUME NEW dst, NEW len \in Nat, NEW list, NEW inner, NEW proto,
           NEW stamp, NEW id, NEW func, NEW seq,
           NEW more, more = len + SegmentBytes + TlvBytes,
           NEW longer, longer = Push(func, list),
           NEW over, over = IF proto = "udp" THEN seq ELSE stamp
    PROVE  WithFunction(Srv6(dst, len, list, 0, 0, NoTlv, inner, proto,
                             stamp, id), func, seq)
             = Srv6(dst, more, longer, 0, 0, seq, inner, proto, over, id)
<1>1. PICK p : p = Srv6(dst, len, list, 0, 0, NoTlv, inner, proto, stamp, id)
  OBVIOUS
<1>2. p.len = len /\ p.list = list /\ p.proto = proto /\ p.stamp = stamp
  BY <1>1 DEF Srv6, Bare, Packet
<1>3. WithFunction(p, func, seq)
        = [[[[p EXCEPT !.list = longer] EXCEPT !.tlv = seq]
               EXCEPT !.len = more] EXCEPT !.stamp = over]
  BY <1>2 DEF WithFunction, Push
<1>4. PICK p1 : p1 = [p EXCEPT !.list = longer]
  OBVIOUS
<1>5. PICK p2 : p2 = [p1 EXCEPT !.tlv = seq]
  OBVIOUS
<1>6. PICK p3 : p3 = [p2 EXCEPT !.len = more]
  OBVIOUS
<1>7. p1 = Srv6(dst, len, longer, 0, 0, NoTlv, inner, proto, stamp, id)
  BY <1>1, <1>4 DEF Srv6, Bare, Packet
<1>8. p2 = Srv6(dst, len, longer, 0, 0, seq, inner, proto, stamp, id)
  BY <1>5, <1>7 DEF Srv6, Bare, Packet
<1>9. p3 = Srv6(dst, more, longer, 0, 0, seq, inner, proto, stamp, id)
  BY <1>6, <1>8 DEF Srv6, Bare, Packet
<1>10. PICK p4 : p4 = [p3 EXCEPT !.stamp = over]
  OBVIOUS
<1>11. p4 = Srv6(dst, more, longer, 0, 0, seq, inner, proto, over, id)
  BY <1>9, <1>10 DEF Srv6, Bare, Packet
<1> QED  BY <1>1, <1>3, <1>4, <1>5, <1>6, <1>10, <1>11

LEMMA CountedMeaning ==
    ASSUME NEW dst, NEW len, NEW list, NEW left, NEW last, NEW tlv,
           NEW inner, NEW proto, NEW stamp, NEW id,
           NEW n, n = CounterOf(list)
    PROVE  Counted(Srv6(dst, len, list, left, last, tlv, inner, proto,
                        stamp, id))
             = Srv6(dst, len, list, n, n, tlv, inner, proto, stamp, id)
<1>1. PICK p : p = Srv6(dst, len, list, left, last, tlv, inner, proto,
                        stamp, id)
  OBVIOUS
<1>2. p.srv6 = TRUE /\ p.list = list
  BY <1>1 DEF Srv6, Bare, Packet
<1>3. Counted(p) = [[p EXCEPT !.left = n] EXCEPT !.last = n]
  BY <1>2 DEF Counted, CounterOf
<1>4. PICK p1 : p1 = [p EXCEPT !.left = n]
  OBVIOUS
<1>5. p1 = Srv6(dst, len, list, n, last, tlv, inner, proto, stamp, id)
  BY <1>1, <1>4 DEF Srv6, Bare, Packet
<1>6. PICK p2 : p2 = [p1 EXCEPT !.last = n]
  OBVIOUS
<1>7. p2 = Srv6(dst, len, list, n, n, tlv, inner, proto, stamp, id)
  BY <1>5, <1>6 DEF Srv6, Bare, Packet
<1> QED  BY <1>1, <1>3, <1>4, <1>6, <1>7

LEMMA CountedBare ==
    ASSUME NEW dst, NEW len, NEW inner, NEW proto, NEW stamp, NEW id
    PROVE  Counted(Bare(dst, len, inner, proto, stamp, id))
             = Bare(dst, len, inner, proto, stamp, id)
BY DEF Counted, Bare, Packet

LEMMA DecapsulatedMeaning ==
    ASSUME NEW dst, NEW len, NEW list, NEW left, NEW last, NEW tlv,
           NEW own, NEW size, NEW proto, NEW stamp, NEW id
    PROVE  Decapsulated(Srv6(dst, len, list, left, last, tlv,
                             [dst |-> own, len |-> size], proto, stamp, id))
             = Bare(own, size, NoInner, proto, stamp, id)
<1> DEFINE inner == [dst |-> own, len |-> size]
<1>1. PICK p : p = Srv6(dst, len, list, left, last, tlv, inner, proto,
                        stamp, id)
  OBVIOUS
<1>2. p.inner.dst = own /\ p.inner.len = size
  BY <1>1 DEF Srv6, Bare, Packet
<1>3. Decapsulated(p)
        = [[[[[[[[p EXCEPT !.dst = own] EXCEPT !.len = size]
                  EXCEPT !.srv6 = FALSE] EXCEPT !.list = None]
               EXCEPT !.left = 0] EXCEPT !.last = 0]
            EXCEPT !.tlv = NoTlv] EXCEPT !.inner = NoInner]
  BY <1>2 DEF Decapsulated, None
<1> HIDE DEF inner
<1>4. PICK p1 : p1 = [p EXCEPT !.dst = own]
  OBVIOUS
<1>5. PICK p2 : p2 = [p1 EXCEPT !.len = size]
  OBVIOUS
<1>6. PICK p3 : p3 = [p2 EXCEPT !.srv6 = FALSE]
  OBVIOUS
<1>7. PICK p4 : p4 = [p3 EXCEPT !.list = None]
  OBVIOUS
<1>8. PICK p5 : p5 = [p4 EXCEPT !.left = 0]
  OBVIOUS
<1>9. PICK p6 : p6 = [p5 EXCEPT !.last = 0]
  OBVIOUS
<1>10. PICK p7 : p7 = [p6 EXCEPT !.tlv = NoTlv]
  OBVIOUS
<1>11. p1 = Srv6(own, len, list, left, last, tlv, inner, proto, stamp, id)
  BY <1>1, <1>4 DEF Srv6, Bare, Packet
<1>12. p2 = Srv6(own, size, list, left, last, tlv, inner, proto, stamp, id)
  BY <1>5, <1>11 DEF Srv6, Bare, Packet
<1>13. p3 = Packet(own, size, FALSE, list, left, last, tlv, inner,
                   proto, stamp, id)
  BY <1>6, <1>12 DEF Srv6, Bare, Packet
<1>14. p4 = Packet(own, size, FALSE, None, left, last, tlv, inner,
                   proto, stamp, id)
  BY <1>7, <1>13 DEF Srv6, Bare, Packet
<1>15. p5 = Packet(own, size, FALSE, None, 0, last, tlv, inner,
                   proto, stamp, id)
  BY <1>8, <1>14 DEF Srv6, Bare, Packet
<1>16. p6 = Packet(own, size, FALSE, None, 0, 0, tlv, inner,
                   proto, stamp, id)
  BY <1>9, <1>15 DEF Srv6, Bare, Packet
<1>17. p7 = Bare(own, size, inner, proto, stamp, id)
  BY <1>10, <1>16 DEF Srv6, Bare, Packet
<1>18. PICK p8 : p8 = [p7 EXCEPT !.inner = NoInner]
  OBVIOUS
<1>19. p8 = Bare(own, size, NoInner, proto, stamp, id)
  BY <1>17, <1>18 DEF Srv6, Bare, Packet
<1> QED  BY <1>1, <1>3, <1>4, <1>5, <1>6, <1>7, <1>8, <1>9, <1>10, <1>18,
            <1>19
         DEF inner

\* What leaves the edge on port p.
Out(h, p, seq) ==
    LET routed == WithDestSegment(Encapsulated(Original(h)), Segment(h, p))
    IN  Counted(IF Live(h) THEN WithFunction(routed, Function(h), seq)
                           ELSE routed)

StampOf(h, seq) == IF Live(h) /\ h.proto = "udp" THEN seq ELSE NoStamp

LEMMA OutMeaning ==
    ASSUME NEW h \in HostPackets, NEW p, NEW seq \in SeqNo
    PROVE  \E list, left, dst, tlv :
             /\ Out(h, p, seq)
                  = Wrapped(h, list, left, dst, tlv, StampOf(h, seq))
             /\ Shape(h, p, list, left, dst, tlv)
             /\ left = CounterOf(list)
             /\ Live(h) => tlv = seq
<1> DEFINE seg == Segment(h, p)
           func == Function(h)
           stamp == StampOf(h, seq)
           inner == [dst |-> h.dst, len |-> LenOf(h)]
           n0 == LenOf(h) + Ipv6Bytes + Srv6Bytes
           n1 == n0 + SegmentBytes
           n2 == n1 + SegmentBytes + TlvBytes
           n3 == n0 + SegmentBytes + TlvBytes
           base == Srv6(h.dst, n0, None, 0, 0, NoTlv, inner, h.proto,
                        NoStamp, h.id)
           routed == WithDestSegment(base, seg)
<1>1. n0 \in Nat /\ n1 \in Nat /\ n2 \in Nat /\ n3 \in Nat
  BY LenOfIsNat DEF Ipv6Bytes, Srv6Bytes, SegmentBytes, TlvBytes
<1>2. Encapsulated(Original(h)) = base
  BY LenOfIsNat, OriginalMeaning, EncapsulatedMeaning,
     Encapsulated(Bare(h.dst, LenOf(h), h.inner, h.proto, NoStamp, h.id)) = base
<1>3. Out(h, p, seq) = Counted(IF Live(h) THEN WithFunction(routed, func, seq)
                                          ELSE routed)
  BY <1>2 DEF Out
<1>4. seq # NoTlv
  BY LabAssumption
<1>5. /\ n2 = LenOf(h) + Ipv6Bytes + Srv6Bytes + SegmentBytes * 2 + TlvBytes
      /\ n3 = LenOf(h) + Ipv6Bytes + Srv6Bytes + SegmentBytes * 1 + TlvBytes
      /\ n1 = LenOf(h) + Ipv6Bytes + Srv6Bytes + SegmentBytes * 1 + 0
      /\ n0 = LenOf(h) + Ipv6Bytes + Srv6Bytes + SegmentBytes * 0 + 0
  BY LenOfIsNat DEF Ipv6Bytes, Srv6Bytes, SegmentBytes, TlvBytes
<1>6. CASE seg # NoSegment
  <2>1. routed = Srv6(seg, n1, One(seg), 0, 0, NoTlv, inner, h.proto, NoStamp,
                      h.id)
    <3> HIDE DEF n0, seg, inner
    <3> QED  BY <1>1, <1>6, WithDestSegmentMeaning
  <2>2. CASE Live(h)
    <3>1. /\ Push(func, One(seg)) = Two(func, seg) /\ Len(Two(func, seg)) = 2
          /\ CounterOf(Two(func, seg)) = 1
      BY Lists, Bytes
    <3>2. WithFunction(routed, func, seq)
            = Srv6(seg, n2, Two(func, seg), 0, 0, seq, inner, h.proto, stamp,
                   h.id)
      <4>1. stamp = IF h.proto = "udp" THEN seq ELSE NoStamp
        BY <2>2 DEF StampOf
      <4> HIDE DEF n1, seg, func, inner, routed, stamp
      <4> QED  BY <1>1, <2>1, <3>1, <4>1, WithFunctionMeaning
    <3>3. Out(h, p, seq)
            = Srv6(seg, n2, Two(func, seg), 1, 1, seq, inner, h.proto, stamp,
                   h.id)
      <4> HIDE DEF n2, seg, func, inner, routed, stamp
      <4> QED  BY <1>3, <2>2, <3>1, <3>2, CountedMeaning
    <3>4. Out(h, p, seq) = Wrapped(h, Two(func, seg), 1, seg, seq, stamp)
      BY <1>4, <1>5, <3>1, <3>3 DEF Wrapped, OwnHeader
    <3>5. Shape(h, p, Two(func, seg), 1, seg, seq)
      BY <1>6, <2>2 DEF Shape
    <3> QED  BY <3>1, <3>4, <3>5
  <2>3. CASE ~ Live(h)
    <3>1. Len(One(seg)) = 1 /\ CounterOf(One(seg)) = 0
      BY Lists, Bytes
    <3>2. Out(h, p, seq)
            = Srv6(seg, n1, One(seg), 0, 0, NoTlv, inner, h.proto, NoStamp,
                   h.id)
      <4> HIDE DEF n1, seg, func, inner, routed
      <4> QED  BY <1>3, <2>1, <2>3, <3>1, CountedMeaning
    <3>3. Out(h, p, seq) = Wrapped(h, One(seg), 0, seg, NoTlv, NoStamp)
      BY <1>5, <3>1, <3>2 DEF Wrapped, OwnHeader
    <3>4. Shape(h, p, One(seg), 0, seg, NoTlv) /\ StampOf(h, seq) = NoStamp
      BY <1>6, <2>3 DEF Shape, StampOf
    <3> QED  BY <2>3, <3>1, <3>3, <3>4
  <2> QED  BY <2>2, <2>3
<1>7. CASE seg = NoSegment
  <2>1. routed = base
    BY <1>7 DEF WithDestSegment
  <2>2. CASE Live(h)
    <3>1. /\ Push(func, None) = One(func) /\ Len(One(func)) = 1
          /\ CounterOf(One(func)) = 0
      BY Lists, Bytes
    <3>2. WithFunction(routed, func, seq)
            = Srv6(h.dst, n3, One(func), 0, 0, seq, inner, h.proto, stamp,
                   h.id)
      <4>1. stamp = IF h.proto = "udp" THEN seq ELSE NoStamp
        BY <2>2 DEF StampOf
      <4> HIDE DEF n0, seg, func, inner, routed, stamp
      <4> QED  BY <1>1, <2>1, <3>1, <4>1, WithFunctionMeaning
    <3>3. Out(h, p, seq)
            = Srv6(h.dst, n3, One(func), 0, 0, seq, inner, h.proto, stamp,
                   h.id)
      <4> HIDE DEF n3, seg, func, inner, routed, stamp
      <4> QED  BY <1>3, <2>2, <3>1, <3>2, CountedMeaning
    <3>4. Out(h, p, seq) = Wrapped(h, One(func), 0, h.dst, seq, stamp)
      BY <1>4, <1>5, <3>1, <3>3 DEF Wrapped, OwnHeader
    <3>5. Shape(h, p, One(func), 0, h.dst, seq)
      BY <1>7, <2>2 DEF Shape
    <3> QED  BY <3>1, <3>4, <3>5
  <2>3. CASE ~ Live(h)
    <3>1. Len(None) = 0 /\ CounterOf(None) = 255
      BY Lists, Bytes
    <3>2. Out(h, p, seq)
            = Srv6(h.dst, n0, None, 255, 255, NoTlv, inner, h.proto, NoStamp,
                   h.id)
      <4> HIDE DEF n0, seg, func, inner, routed
      <4> QED  BY <1>3, <2>1, <2>3, <3>1, CountedMeaning
    <3>3. Out(h, p, seq) = Wrapped(h, None, 255, h.dst, NoTlv, NoStamp)
      BY <1>5, <3>1, <3>2 DEF Wrapped, OwnHeader
    <3>4. Shape(h, p, None, 255, h.dst, NoTlv) /\ StampOf(h, seq) = NoStamp
      BY <1>7, <2>3 DEF Shape, StampOf
    <3> QED  BY <2>3, <3>1, <3>3, <3>4
  <2> QED  BY <2>2, <2>3
<1> QED  BY <1>6, <1>7

LEMMA StampOfIsStamp ==
    ASSUME NEW h, NEW seq \in SeqNo
    PROVE  StampOf(h, seq) \in Stamps(h)
BY DEF StampOf, Stamps
-----------------------------------------------------------------------------
(***************************************************************************)
(* What every theorem asks of the tables.  Behind the ports of a transit   *)
(* switch, and behind those an edge steers to, there is no host; a host    *)
(* packet leaves an edge to a host other than its own, or to nobody; port  *)
(* 0 of an edge is not connected; no transit switch takes a host's address *)
(* for a segment of its own, and no edge takes a segment of srv6_forward   *)
(* for a function.                                                         *)
(***************************************************************************)
LabIsWired ==
    /\ \A c, p : c \notin Edges \cup Hosts => Peer(c, p) \notin Hosts
    /\ \A e \in Edges : Peer(e, 0) = Nowhere
    /\ \A h \in HostPackets :
          /\ \A p \in WiredPorts(h) : /\ Peer(NearEdge(h), p) \notin Hosts
                                      /\ Segment(h, p) \notin Functions
          /\ \A e \in Edges : \/ Peer(e, HostPort(e, h.dst)) = Nowhere
                              \/ Peer(e, HostPort(e, h.dst))
                                    \in Hosts \ {h.host}
          /\ \A c : c \notin Edges \cup Hosts =>
                TransitEntry(c, h.dst).action # "srv6_seg_ep"

\* The forms of a packet on its way: as its host sent it, on its way to its
\* edge; with its segments; and without them again, on its way to a host.
Raw(h) == [from |-> h.host, at |-> NearEdge(h), src |-> h.src,
           pkt |-> Original(h)]

IsWrapped(m, h) ==
    LET pkt == m.pkt
    IN  /\ m.at \notin Hosts /\ m.at # Nowhere
        /\ Steered(Original(h))
        /\ pkt.stamp \in Stamps(h)
        /\ pkt = Wrapped(h, pkt.list, pkt.left, pkt.dst, pkt.tlv, pkt.stamp)
        /\ \E p \in WiredPorts(h) :
              Shape(h, p, pkt.list, pkt.left, pkt.dst, pkt.tlv)

IsStripped(m, h) ==
    /\ m.at \in Hosts \ {h.host}
    /\ m.pkt.stamp \in Stamps(h)
    /\ m.pkt = Stripped(h, m.pkt.stamp)

Arrivals(h) ==
    {[host |-> host, pkt |-> Stripped(h, stamp)] :
        host \in Hosts \ {h.host}, stamp \in Stamps(h)}

PacketOK(pkt) ==
    /\ pkt.id \in Ids
    /\ pkt.left \in 0 .. 255 /\ pkt.last \in 0 .. 255
    /\ pkt.tlv \in SeqNo \cup {NoTlv}
    /\ pkt.dst # Unspecified

(***************************************************************************)
(* The inductive invariant: every packet in flight is one of the forms of  *)
(* a host packet, and what arrived is a host packet without its segments.  *)
(***************************************************************************)
FormsInv ==
    \A m \in inflight : \E h \in HostPackets :
        m = Raw(h) \/ IsWrapped(m, h) \/ IsStripped(m, h)

RegistersInv ==
    /\ seq_n \in [Edges -> SeqNo]
    /\ flow_window_start \in [Edges -> SeqNo]
    /\ flow_to_bitmap \in [Edges -> SUBSET Index]
    /\ \A e \in Edges : Placeable(flow_window_start[e])

HistoriesInv ==
    /\ unsent \in SUBSET HostPackets
    /\ DOMAIN arrived = Ids
    /\ \A h \in HostPackets : arrived[h.id] \in Seq(Arrivals(h))
    /\ \A m \in stranded : PacketOK(m.pkt)

IInv == FormsInv /\ RegistersInv /\ HistoriesInv
-----------------------------------------------------------------------------
\* The headers of the three forms.
LEMMA RawFields ==
    ASSUME NEW h
    PROVE  /\ Raw(h).at = NearEdge(h) /\ Raw(h).pkt = Original(h)
           /\ Raw(h).src = h.src /\ NearEdge(h) \in Edges
           /\ ~ Raw(h).pkt.srv6
           /\ Original(h).id = h.id /\ Original(h).left = 0
           /\ Original(h).last = 0 /\ Original(h).tlv = NoTlv
           /\ Original(h).dst = h.dst /\ Original(h).stamp = NoStamp
           /\ Original(h).proto = h.proto /\ Original(h).inner = h.inner
           /\ Original(h).len = LenOf(h)
<1>1. Original(h) = Bare(h.dst, LenOf(h), h.inner, h.proto, NoStamp, h.id)
  BY OriginalMeaning
<1>2. NearEdge(h) \in Edges
  BY DEF NearEdge, EdgeOf, Edges
<1>3. /\ ~ Original(h).srv6
      /\ Original(h).id = h.id /\ Original(h).left = 0
      /\ Original(h).last = 0 /\ Original(h).tlv = NoTlv
      /\ Original(h).dst = h.dst /\ Original(h).stamp = NoStamp
      /\ Original(h).proto = h.proto /\ Original(h).inner = h.inner
      /\ Original(h).len = LenOf(h)
  BY <1>1 DEF Bare, Packet
<1> QED  BY <1>2, <1>3 DEF Raw

LEMMA WrappedFields ==
    ASSUME NEW h, NEW list, NEW left, NEW dst, NEW tlv, NEW stamp
    PROVE  LET pkt == Wrapped(h, list, left, dst, tlv, stamp)
           IN  /\ pkt.srv6 /\ pkt.id = h.id /\ pkt.proto = h.proto
               /\ pkt.list = list /\ pkt.left = left
               /\ pkt.last = CounterOf(list) /\ pkt.dst = dst
               /\ pkt.tlv = tlv /\ pkt.stamp = stamp
               /\ pkt.inner = OwnHeader(h)
               /\ pkt.len = LenOf(h) + Ipv6Bytes + Srv6Bytes
                              + SegmentBytes * Len(list)
                              + (IF tlv # NoTlv THEN TlvBytes ELSE 0)
BY DEF Wrapped, Srv6, Packet

LEMMA StrippedFields ==
    ASSUME NEW h, NEW stamp
    PROVE  LET pkt == Stripped(h, stamp)
           IN  /\ ~ pkt.srv6 /\ pkt.id = h.id /\ pkt.proto = h.proto
               /\ pkt.list = None /\ pkt.left = 0 /\ pkt.last = 0
               /\ pkt.dst = h.dst /\ pkt.tlv = NoTlv /\ pkt.stamp = stamp
               /\ pkt.inner = NoInner /\ pkt.len = LenOf(h)
BY DEF Stripped, Bare, Packet

LEMMA NoHostAtEdge == \A e \in Edges : e \notin Hosts
BY DEF Edges, Hosts

\* The forms are told apart by where a packet is and what it carries.
LEMMA FormsDiffer ==
    ASSUME NEW m, NEW h
    PROVE  /\ m = Raw(h) => /\ m.at \in Edges /\ ~ m.pkt.srv6
                            /\ m.pkt.id = h.id
           /\ IsWrapped(m, h) => /\ m.at \notin Hosts /\ m.pkt.srv6
                                 /\ m.pkt.id = h.id
           /\ IsStripped(m, h) => /\ m.at \in Hosts /\ ~ m.pkt.srv6
                                  /\ m.pkt.id = h.id
<1>1. m = Raw(h) => m.at \in Edges /\ ~ m.pkt.srv6 /\ m.pkt.id = h.id
  BY RawFields
<1>2. IsWrapped(m, h) => m.at \notin Hosts /\ m.pkt.srv6 /\ m.pkt.id = h.id
  <2>1. SUFFICES ASSUME IsWrapped(m, h)
                 PROVE  m.at \notin Hosts /\ m.pkt.srv6 /\ m.pkt.id = h.id
    OBVIOUS
  <2>2. PICK list, left, dst, tlv, stamp :
           m.pkt = Wrapped(h, list, left, dst, tlv, stamp)
    BY <2>1 DEF IsWrapped
  <2> QED  BY <2>1, <2>2, WrappedFields DEF IsWrapped
<1>3. IsStripped(m, h) => m.at \in Hosts /\ ~ m.pkt.srv6 /\ m.pkt.id = h.id
  BY StrippedFields DEF IsStripped
<1> QED  BY <1>1, <1>2, <1>3

LEMMA SameId ==
    ASSUME NEW g \in HostPackets, NEW h \in HostPackets, g.id = h.id
    PROVE  g = h
BY LabAssumption

\* What the headers of a packet with segments are good for.
LEMMA ShapeOK ==
    ASSUME NEW h \in HostPackets, NEW p \in Entry(h).ports,
           NEW list, NEW left, NEW dst, NEW tlv,
           Shape(h, p, list, left, dst, tlv)
    PROVE  /\ left \in 0 .. 255 /\ CounterOf(list) \in 0 .. 255
           /\ tlv \in SeqNo \cup {NoTlv}
           /\ dst # Unspecified
           /\ left <= CounterOf(list)
<1>1. h.dst # Unspecified /\ Segment(h, p) # Unspecified
  BY LabAssumption DEF Segment, Entry, NearEdge
<1>2. Function(h) # Unspecified
  BY LabAssumption, RawFields DEF Function
<1>3. /\ CounterOf(None) = 255 /\ CounterOf(One(Segment(h, p))) = 0
      /\ CounterOf(One(Function(h))) = 0
      /\ CounterOf(Two(Function(h), Segment(h, p))) = 1
  BY Lists
<1> QED  BY <1>1, <1>2, <1>3 DEF Shape
-----------------------------------------------------------------------------
\* What Emit does, port by port.
Sent(m, p, pkt) ==
    [from |-> m.at, at |-> Peer(m.at, p), src |-> m.src, pkt |-> pkt]

LEMMA EmitMeaning ==
    ASSUME NEW m, NEW out, Emit(m, out)
    PROVE  /\ inflight \ {m} \subseteq inflight' /\ stranded \subseteq stranded'
           /\ \A x \in inflight' :
                 \/ x \in inflight /\ x # m
                 \/ \E p \in DOMAIN out : /\ Peer(m.at, p) # Nowhere
                                          /\ x = Sent(m, p, out[p])
           /\ \A x \in stranded' :
                 \/ x \in stranded
                 \/ \E p \in DOMAIN out : /\ Peer(m.at, p) = Nowhere
                                          /\ x = Sent(m, p, out[p])
BY DEF Emit, Sent

LEMMA EmitOneMeaning ==
    ASSUME NEW m, NEW p, NEW pkt, Emit(m, OnPort(p, pkt))
    PROVE  /\ inflight \ {m} \subseteq inflight' /\ stranded \subseteq stranded'
           /\ \A x \in inflight' :
                 \/ x \in inflight /\ x # m
                 \/ Peer(m.at, p) # Nowhere /\ x = Sent(m, p, pkt)
           /\ \A x \in stranded' :
                 \/ x \in stranded
                 \/ Peer(m.at, p) = Nowhere /\ x = Sent(m, p, pkt)
<1>1. PICK out : out = OnPort(p, pkt)
  OBVIOUS
<1>2. DOMAIN out = {p} /\ out[p] = pkt
  BY <1>1 DEF OnPort
<1> QED  BY <1>1, <1>2, EmitMeaning

LEMMA SentFields ==
    ASSUME NEW m, NEW p, NEW pkt
    PROVE  /\ Sent(m, p, pkt).at = Peer(m.at, p)
           /\ Sent(m, p, pkt).src = m.src
           /\ Sent(m, p, pkt).pkt = pkt
BY DEF Sent

\* A copy of h behind port p of its edge.
Copy(h, p, seq) == Sent(Raw(h), p, Out(h, p, seq))

LEMMA CopyFields ==
    ASSUME NEW h \in HostPackets, NEW p, NEW seq \in SeqNo
    PROVE  LET x == Copy(h, p, seq)
           IN  /\ x.at = Peer(NearEdge(h), p)
               /\ x.pkt.id = h.id
               /\ x.pkt.stamp \in Stamps(h)
               /\ x.pkt = Wrapped(h, x.pkt.list, x.pkt.left, x.pkt.dst,
                                  x.pkt.tlv, x.pkt.stamp)
               /\ Shape(h, p, x.pkt.list, x.pkt.left, x.pkt.dst, x.pkt.tlv)
               /\ x.pkt.left = CounterOf(x.pkt.list)
               /\ Live(h) => x.pkt.tlv = seq
<1>1. /\ Copy(h, p, seq).at = Peer(NearEdge(h), p)
      /\ Copy(h, p, seq).pkt = Out(h, p, seq)
  BY SentFields, RawFields DEF Copy
<1>2. PICK list, left, dst, tlv :
         /\ Out(h, p, seq) = Wrapped(h, list, left, dst, tlv, StampOf(h, seq))
         /\ Shape(h, p, list, left, dst, tlv)
         /\ left = CounterOf(list)
         /\ Live(h) => tlv = seq
  BY OutMeaning
<1>3. PICK stamp \in Stamps(h) : stamp = StampOf(h, seq)
  BY StampOfIsStamp
<1>4. PICK pkt : pkt = Wrapped(h, list, left, dst, tlv, stamp)
  OBVIOUS
<1>5. /\ pkt.list = list /\ pkt.left = left /\ pkt.dst = dst
      /\ pkt.tlv = tlv /\ pkt.stamp = stamp /\ pkt.id = h.id
  BY <1>4, WrappedFields
<1> QED  BY <1>1, <1>2, <1>3, <1>4, <1>5

LEMMA CopyIsWrapped ==
    ASSUME LabIsWired, NEW h \in HostPackets, NEW p \in WiredPorts(h),
           NEW seq \in SeqNo, Steered(Original(h))
    PROVE  IsWrapped(Copy(h, p, seq), h)
<1>1. Peer(NearEdge(h), p) \notin Hosts /\ Peer(NearEdge(h), p) # Nowhere
  BY DEF LabIsWired, WiredPorts
<1> QED  BY <1>1, CopyFields DEF IsWrapped

LEMMA WrappedOK ==
    ASSUME NEW h \in HostPackets, NEW p \in Entry(h).ports, NEW pkt,
           pkt = Wrapped(h, pkt.list, pkt.left, pkt.dst, pkt.tlv, pkt.stamp),
           Shape(h, p, pkt.list, pkt.left, pkt.dst, pkt.tlv)
    PROVE  PacketOK(pkt)
<1>1. PICK list, left, dst, tlv, stamp :
         /\ pkt = Wrapped(h, list, left, dst, tlv, stamp)
         /\ Shape(h, p, list, left, dst, tlv)
  OBVIOUS
<1>2. /\ left \in 0 .. 255 /\ CounterOf(list) \in 0 .. 255
      /\ tlv \in SeqNo \cup {NoTlv} /\ dst # Unspecified
  BY <1>1, ShapeOK
<1>3. h.id \in Ids
  BY DEF Ids
<1>4. /\ pkt.id = h.id /\ pkt.left = left /\ pkt.last = CounterOf(list)
      /\ pkt.tlv = tlv /\ pkt.dst = dst
  BY <1>1, WrappedFields
<1> QED  BY <1>2, <1>3, <1>4 DEF PacketOK
-----------------------------------------------------------------------------
(***************************************************************************)
(* What each action does to the packets, in terms of their forms.          *)
(***************************************************************************)
LEMMA SeqNoIsKept == ASSUME NEW n \in SeqNo PROVE ToSeqNo(n + 1) \in SeqNo
BY ModRange, WindowAssumption DEF ToSeqNo, SeqNo

LEMMA RawAtEdge ==
    ASSUME IInv, NEW m \in inflight, m.at \in Edges, ~ m.pkt.srv6
    PROVE  \E h \in HostPackets : m = Raw(h)
<1>1. PICK h \in HostPackets :
         m = Raw(h) \/ IsWrapped(m, h) \/ IsStripped(m, h)
  BY DEF IInv, FormsInv
<1> QED  BY <1>1, FormsDiffer, NoHostAtEdge

LEMMA WrappedBetween ==
    ASSUME IInv, NEW m \in inflight, m.at \notin Hosts, m.pkt.srv6
    PROVE  \E h \in HostPackets : IsWrapped(m, h)
<1>1. PICK h \in HostPackets :
         m = Raw(h) \/ IsWrapped(m, h) \/ IsStripped(m, h)
  BY DEF IInv, FormsInv
<1> QED  BY <1>1, FormsDiffer

LEMMA StrippedAtHost ==
    ASSUME IInv, NEW m \in inflight, m.at \in Hosts
    PROVE  \E h \in HostPackets : IsStripped(m, h)
<1>1. PICK h \in HostPackets :
         m = Raw(h) \/ IsWrapped(m, h) \/ IsStripped(m, h)
  BY DEF IInv, FormsInv
<1> QED  BY <1>1, FormsDiffer, NoHostAtEdge

\* A host packet becomes copies of it, on no, one or every port of its entry.
LEMMA SteersStep ==
    ASSUME IInv, NEW m \in inflight, EdgeSteers(m)
    PROVE  \E h \in HostPackets : \E ports \in SUBSET Entry(h).ports :
             LET e == NearEdge(h)
                 seq == ToSeqNo(seq_n[e] + 1)
             IN  /\ m = Raw(h)
                 /\ seq \in SeqNo /\ seq_n' \in [Edges -> SeqNo]
                 /\ ports # {} => Steered(Original(h))
                 /\ ~ Live(h) => \A p, q \in ports : p = q
                 /\ inflight \ {m} \subseteq inflight'
                 /\ \A x \in inflight' :
                       \/ x \in inflight /\ x # m
                       \/ \E p \in ports : /\ Peer(e, p) # Nowhere
                                           /\ x = Copy(h, p, seq)
                 /\ \A x \in stranded' :
                       \/ x \in stranded
                       \/ \E p \in ports : /\ Peer(e, p) = Nowhere
                                           /\ x = Copy(h, p, seq)
                 /\ UNCHANGED <<unsent, flow_window_start, flow_to_bitmap,
                                arrived>>
<1>1. m.at \in Edges /\ ~ m.pkt.srv6
  BY DEF EdgeSteers
<1>2. PICK h \in HostPackets : m = Raw(h)
  BY <1>1, RawAtEdge
<1> DEFINE e == NearEdge(h)
           seq == ToSeqNo(seq_n[e] + 1)
           pkt == Encapsulated(m.pkt)
           entry == Steering(e, m.src)
           live == entry.action = "live_live_mcast"
           O(p) == LET routed == WithDestSegment(pkt, DestSegment(e, p))
                   IN  Counted(IF live
                               THEN WithFunction(routed, FunctionOf(e), seq)
                               ELSE routed)
<1>3. m.at = e /\ m.pkt = Original(h) /\ m.src = h.src /\ e \in Edges
  BY <1>2, RawFields
<1>4. entry = Entry(h) /\ (live <=> Live(h))
  BY <1>3 DEF Entry, Live
<1>5. \A p : O(p) = Out(h, p, seq)
  BY <1>3, <1>4 DEF Out, Segment, Function
<1>6. seq \in SeqNo
  BY <1>3, SeqNoIsKept DEF IInv, RegistersInv
<1>7. UNCHANGED <<unsent, flow_window_start, flow_to_bitmap, arrived>>
  BY DEF EdgeSteers
<1>8. CASE ~ Steered(m.pkt)
  <2>1. Drop(m) /\ UNCHANGED seq_n
    BY <1>8 DEF EdgeSteers
  <2> HIDE DEF seq
  <2>2. /\ {} \in SUBSET Entry(h).ports
        /\ seq_n' \in [Edges -> SeqNo]
        /\ inflight \ {m} \subseteq inflight'
        /\ \A x \in inflight' : x \in inflight /\ x # m
        /\ \A x \in stranded' : x \in stranded
    BY <2>1 DEF Drop, IInv, RegistersInv
  <2> WITNESS h \in HostPackets
  <2> WITNESS {} \in SUBSET Entry(h).ports
  <2> QED  BY <1>2, <1>6, <1>7, <2>2 DEF seq
<1>9. CASE Steered(m.pkt) /\ Live(h)
  <2> DEFINE out == [p \in entry.ports |-> O(p)]
  <2>1. Emit(m, out) /\ seq_n' = [seq_n EXCEPT ![e] = seq]
    BY <1>3, <1>4, <1>9 DEF EdgeSteers
  <2>2. seq_n' \in [Edges -> SeqNo]
    BY <1>3, <1>6, <2>1 DEF IInv, RegistersInv
  <2>3. /\ DOMAIN out = Entry(h).ports
        /\ \A p \in Entry(h).ports : out[p] = Out(h, p, seq)
    BY <1>4, <1>5
  <2>4. \A p \in Entry(h).ports : Sent(m, p, out[p]) = Copy(h, p, seq)
    BY <1>2, <2>3 DEF Copy
  <2> HIDE DEF out, seq
  <2>5. /\ inflight \ {m} \subseteq inflight'
        /\ \A x \in inflight' :
              \/ x \in inflight /\ x # m
              \/ \E p \in Entry(h).ports : /\ Peer(e, p) # Nowhere
                                           /\ x = Copy(h, p, seq)
        /\ \A x \in stranded' :
              \/ x \in stranded
              \/ \E p \in Entry(h).ports : /\ Peer(e, p) = Nowhere
                                           /\ x = Copy(h, p, seq)
    BY <1>3, <2>1, <2>3, <2>4, EmitMeaning
  <2> WITNESS h \in HostPackets
  <2> WITNESS Entry(h).ports \in SUBSET Entry(h).ports
  <2> QED  BY <1>2, <1>3, <1>6, <1>7, <1>9, <2>2, <2>5 DEF seq
<1>10. CASE Steered(m.pkt) /\ ~ Live(h)
  <2>1. seq_n' = seq_n /\ \E p \in entry.ports : Emit(m, OnPort(p, O(p)))
    BY <1>3, <1>4, <1>10 DEF EdgeSteers
  <2>2. PICK p \in Entry(h).ports : Emit(m, OnPort(p, Out(h, p, seq)))
    BY <1>4, <1>5, <2>1
  <2>3. Sent(m, p, Out(h, p, seq)) = Copy(h, p, seq)
    BY <1>2 DEF Copy
  <2>4. seq_n' \in [Edges -> SeqNo]
    BY <2>1 DEF IInv, RegistersInv
  <2> HIDE DEF seq
  <2>5. /\ inflight \ {m} \subseteq inflight'
        /\ \A x \in inflight' :
              \/ x \in inflight /\ x # m
              \/ Peer(e, p) # Nowhere /\ x = Copy(h, p, seq)
        /\ \A x \in stranded' :
              \/ x \in stranded
              \/ Peer(e, p) = Nowhere /\ x = Copy(h, p, seq)
    BY <1>3, <2>2, <2>3, EmitOneMeaning
  <2> WITNESS h \in HostPackets
  <2> WITNESS {p} \in SUBSET Entry(h).ports
  <2> QED  BY <1>2, <1>3, <1>6, <1>7, <1>10, <2>4, <2>5 DEF seq
<1> QED  BY <1>8, <1>9, <1>10

\* The packet the far end of the segments sends on.
Delivery(m, h) ==
    Sent(m, HostPort(m.at, h.dst), Stripped(h, m.pkt.stamp))

LEMMA DeliveryFields ==
    ASSUME NEW m, NEW h
    PROVE  /\ Delivery(m, h).at = Peer(m.at, HostPort(m.at, h.dst))
           /\ Delivery(m, h).pkt = Stripped(h, m.pkt.stamp)
           /\ Delivery(m, h).pkt.stamp = m.pkt.stamp
           /\ Delivery(m, h).pkt.id = h.id
BY SentFields, StrippedFields DEF Delivery

LEMMA DeliveryIsStripped ==
    ASSUME LabIsWired, NEW h \in HostPackets, NEW m, m.at \in Edges,
           m.pkt.stamp \in Stamps(h), Delivery(m, h).at # Nowhere
    PROVE  IsStripped(Delivery(m, h), h)
<1>1. Delivery(m, h).at \in Hosts \ {h.host}
  BY DeliveryFields DEF LabIsWired
<1> QED  BY <1>1, DeliveryFields DEF IsStripped

\* The next segment of a wrapped packet tells the function from the rest.
LEMMA HeadOfShape ==
    ASSUME NEW h, NEW p, NEW list, NEW left, NEW dst, NEW tlv,
           Shape(h, p, list, left, dst, tlv), left = 0
    PROVE  \/ Live(h) /\ Head(list) = Function(h) /\ tlv \in SeqNo
           \/ ~ Live(h) /\ Head(list) = Segment(h, p) /\ tlv = NoTlv
<1>1. /\ Head(One(Function(h))) = Function(h)
      /\ Head(One(Segment(h, p))) = Segment(h, p)
      /\ Head(Two(Function(h), Segment(h, p))) = Function(h)
  BY Lists
<1> QED  BY <1>1 DEF Shape

LEMMA RegistersStep ==
    ASSUME RegistersInv, NEW e \in Edges, NEW s \in SeqNo,
           flow_window_start' = [flow_window_start EXCEPT
                                    ![e] = NextStart(flow_window_start[e], s)],
           flow_to_bitmap' = [flow_to_bitmap EXCEPT
                                 ![e] = NextBitmap(flow_window_start[e],
                                                   flow_to_bitmap[e], s)],
           UNCHANGED seq_n
    PROVE  RegistersInv'
<1>1. /\ Placeable(NextStart(flow_window_start[e], s))
      /\ NextBitmap(flow_window_start[e], flow_to_bitmap[e], s)
            \in SUBSET Index
  BY NextRegisters DEF RegistersInv
<1>2. NextStart(flow_window_start[e], s) \in SeqNo
  BY <1>1, PlaceableInRange
<1> QED  BY <1>1, <1>2 DEF RegistersInv

\* At the far end a copy is refused, or the packet inside is sent on.
LEMMA EndsStep ==
    ASSUME IInv, LabIsWired, NEW m \in inflight, EdgeEnds(m)
    PROVE  \E h \in HostPackets :
             LET e == m.at
                 s == m.pkt.tlv
                 x == Delivery(m, h)
             IN  /\ IsWrapped(m, h) /\ e \in Edges /\ m.pkt.left = 0
                 /\ inflight \ {m} \subseteq inflight'
                 /\ \A y \in inflight' :
                       \/ y \in inflight /\ y # m
                       \/ y = x /\ x.at # Nowhere
                 /\ \A y \in stranded' :
                       \/ y \in stranded
                       \/ y = x /\ x.at = Nowhere
                 /\ UNCHANGED <<unsent, seq_n, arrived>>
                 /\ \/ /\ Live(h) /\ Function(h) \in Functions /\ s \in SeqNo
                       /\ flow_window_start' =
                            [flow_window_start EXCEPT
                                ![e] = NextStart(flow_window_start[e], s)]
                       /\ flow_to_bitmap' =
                            [flow_to_bitmap EXCEPT
                                ![e] = NextBitmap(flow_window_start[e],
                                                  flow_to_bitmap[e], s)]
                       /\ Refused(flow_window_start[e], flow_to_bitmap[e], s)
                            => \A y \in inflight' : y \in inflight /\ y # m
                    \/ /\ Live(h) => Function(h) \notin Functions
                       /\ UNCHANGED <<flow_window_start, flow_to_bitmap>>
<1>1. m.at \in Edges /\ m.pkt.srv6 /\ m.pkt.left = 0
  BY DEF EdgeEnds
<1>2. PICK h \in HostPackets : IsWrapped(m, h)
  BY <1>1, WrappedBetween, NoHostAtEdge
<1>3. PICK p \in WiredPorts(h) :
         Shape(h, p, m.pkt.list, m.pkt.left, m.pkt.dst, m.pkt.tlv)
  BY <1>2 DEF IsWrapped
<1>4. \/ /\ Live(h) /\ Head(m.pkt.list) = Function(h) /\ m.pkt.tlv \in SeqNo
      \/ ~ Live(h) /\ Head(m.pkt.list) = Segment(h, p) /\ m.pkt.tlv = NoTlv
  BY <1>1, <1>3, HeadOfShape
<1>5. Segment(h, p) \notin Functions
  BY DEF LabIsWired
<1> DEFINE inside == Decapsulated(m.pkt)
           Deliver == Emit(m, OnPort(HostPort(m.at, inside.dst),
                                     Counted(inside)))
           x == Delivery(m, h)
<1>6. /\ inside = Stripped(h, m.pkt.stamp)
      /\ Counted(inside) = Stripped(h, m.pkt.stamp)
      /\ inside.dst = h.dst
  <2>1. PICK list, left, dst, tlv, stamp :
           /\ m.pkt = Wrapped(h, list, left, dst, tlv, stamp)
           /\ stamp = m.pkt.stamp
    BY <1>2 DEF IsWrapped
  <2>2. Decapsulated(Wrapped(h, list, left, dst, tlv, stamp))
          = Stripped(h, stamp)
    BY DecapsulatedMeaning DEF Wrapped, Stripped, OwnHeader
  <2>3. Counted(Stripped(h, stamp)) = Stripped(h, stamp)
    BY CountedBare DEF Stripped
  <2> QED  BY <2>1, <2>2, <2>3, StrippedFields
<1> HIDE DEF inside
<1>7. ASSUME Deliver
      PROVE  /\ inflight \ {m} \subseteq inflight'
             /\ \A y \in inflight' : \/ y \in inflight /\ y # m
                                     \/ y = x /\ x.at # Nowhere
             /\ \A y \in stranded' : \/ y \in stranded
                                     \/ y = x /\ x.at = Nowhere
  <2>1. Emit(m, OnPort(HostPort(m.at, h.dst), Stripped(h, m.pkt.stamp)))
    BY <1>6, <1>7
  <2>2. x.at = Peer(m.at, HostPort(m.at, h.dst))
    BY DeliveryFields
  <2> QED  BY <2>1, <2>2, EmitOneMeaning DEF Delivery
<1>8. ASSUME Drop(m)
      PROVE  /\ inflight \ {m} \subseteq inflight'
             /\ \A y \in inflight' : y \in inflight /\ y # m
             /\ \A y \in stranded' : y \in stranded
  BY <1>8 DEF Drop
<1>9. UNCHANGED <<unsent, seq_n, arrived>>
  BY DEF EdgeEnds
<1>10. CASE Head(m.pkt.list) \in Functions
  <2>1. Live(h) /\ Function(h) \in Functions /\ m.pkt.tlv \in SeqNo
    BY <1>4, <1>5, <1>10
  <2>2. /\ flow_window_start' =
             [flow_window_start EXCEPT
                 ![m.at] = NextStart(flow_window_start[m.at], m.pkt.tlv)]
        /\ flow_to_bitmap' =
             [flow_to_bitmap EXCEPT
                 ![m.at] = NextBitmap(flow_window_start[m.at],
                                      flow_to_bitmap[m.at], m.pkt.tlv)]
        /\ IF Refused(flow_window_start[m.at], flow_to_bitmap[m.at],
                      m.pkt.tlv)
           THEN Drop(m) ELSE Deliver
    BY <1>10 DEF EdgeEnds, inside
  <2> HIDE DEF x, Deliver
  <2> QED  BY <1>1, <1>2, <1>7, <1>8, <1>9, <2>1, <2>2 DEF x
<1>11. CASE Head(m.pkt.list) \notin Functions
  <2>1. Deliver /\ UNCHANGED <<flow_window_start, flow_to_bitmap>>
    BY <1>11 DEF EdgeEnds, inside
  <2>2. Live(h) => Function(h) \notin Functions
    BY <1>4, <1>11
  <2> HIDE DEF x, Deliver
  <2> QED  BY <1>1, <1>2, <1>7, <1>9, <2>1, <2>2 DEF x
<1> QED  BY <1>10, <1>11

\* An edge with segments left sends the packet to nobody.
LEMMA PassesStep ==
    ASSUME IInv, LabIsWired, NEW m \in inflight, EdgePasses(m)
    PROVE  \E h \in HostPackets :
             /\ IsWrapped(m, h) /\ m.at \in Edges /\ m.pkt.left # 0
             /\ inflight \ {m} \subseteq inflight'
             /\ \A y \in inflight' : y \in inflight /\ y # m
             /\ \A y \in stranded' : y \in stranded \/ PacketOK(y.pkt)
             /\ UNCHANGED <<unsent, registers, arrived>>
<1>1. m.at \in Edges /\ m.pkt.srv6 /\ m.pkt.left # 0
  BY DEF EdgePasses
<1>2. PICK h \in HostPackets : IsWrapped(m, h)
  BY <1>1, WrappedBetween, NoHostAtEdge
<1>3. Peer(m.at, 0) = Nowhere
  BY <1>1 DEF LabIsWired
<1>4. PICK pkt : pkt = [m.pkt EXCEPT !.left = ToByte(-1), !.last = ToByte(-1)]
  OBVIOUS
<1>5. Emit(m, OnPort(0, pkt)) /\ UNCHANGED <<unsent, registers, arrived>>
  BY <1>4 DEF EdgePasses
<1>6. PacketOK(pkt)
  <2>1. PICK list, left, dst, tlv, stamp, p :
           /\ p \in WiredPorts(h)
           /\ m.pkt = Wrapped(h, list, left, dst, tlv, stamp)
           /\ Shape(h, p, list, left, dst, tlv)
    BY <1>2 DEF IsWrapped
  <2>2. tlv \in SeqNo \cup {NoTlv} /\ dst # Unspecified
    BY <2>1, ShapeOK DEF WiredPorts
  <2>3. pkt = [[m.pkt EXCEPT !.left = 255] EXCEPT !.last = 255]
    BY <1>4, Bytes
  <2>4. PICK p1 : p1 = [m.pkt EXCEPT !.left = 255]
    OBVIOUS
  <2>5. PICK p2 : p2 = [p1 EXCEPT !.last = 255]
    OBVIOUS
  <2>6. /\ m.pkt.id = h.id /\ m.pkt.tlv = tlv /\ m.pkt.dst = dst
        /\ DOMAIN m.pkt = {"dst", "len", "srv6", "list", "left", "last",
                           "tlv", "inner", "proto", "stamp", "id"}
    BY <2>1 DEF Wrapped, Srv6, Packet
  <2>7. /\ p1.id = h.id /\ p1.tlv = tlv /\ p1.dst = dst /\ p1.left = 255
        /\ DOMAIN p1 = DOMAIN m.pkt
    BY <2>4, <2>6
  <2>8. /\ p2.id = h.id /\ p2.tlv = tlv /\ p2.dst = dst /\ p2.left = 255
        /\ p2.last = 255
    BY <2>5, <2>6, <2>7
  <2>9. pkt = p2 /\ h.id \in Ids
    BY <2>3, <2>4, <2>5 DEF Ids
  <2> QED  BY <2>2, <2>8, <2>9 DEF PacketOK
<1>7. Sent(m, 0, pkt).pkt = pkt
  BY SentFields
<1>8. /\ inflight \ {m} \subseteq inflight'
      /\ \A y \in inflight' : y \in inflight /\ y # m
      /\ \A y \in stranded' : y \in stranded \/ PacketOK(y.pkt)
  BY <1>3, <1>5, <1>6, <1>7, EmitOneMeaning
<1> QED  BY <1>1, <1>2, <1>5, <1>8

\* A transit switch of its own segment goes on to the function.
LEMMA AtEndpointMeaning ==
    ASSUME NEW h, NEW f, NEW seg, NEW dst, NEW tlv, NEW stamp
    PROVE  AtEndpoint(Wrapped(h, Two(f, seg), 1, dst, tlv, stamp))
             = Wrapped(h, Two(f, seg), 0, f, tlv, stamp)
<1>1. PICK p : p = Wrapped(h, Two(f, seg), 1, dst, tlv, stamp)
  OBVIOUS
<1>2. p.left = 1 /\ p.list = Two(f, seg) /\ p.last = 1
  BY <1>1, WrappedFields, Lists
<1>3. Len(p.list) = 2 /\ p.list[1] = f
  BY <1>2, Lists
<1>4. NextSid(p) = f
  BY <1>2, <1>3 DEF NextSid
<1>5. AtEndpoint(p) = [[p EXCEPT !.dst = f] EXCEPT !.left = 0]
  BY <1>2, <1>4 DEF AtEndpoint
<1>6. PICK p1 : p1 = [p EXCEPT !.dst = f]
  OBVIOUS
<1>7. PICK p2 : p2 = [p1 EXCEPT !.left = 0]
  OBVIOUS
<1>8. p1 = Wrapped(h, Two(f, seg), 1, f, tlv, stamp)
  BY <1>1, <1>6 DEF Wrapped, Srv6, Packet
<1>9. p2 = Wrapped(h, Two(f, seg), 0, f, tlv, stamp)
  BY <1>7, <1>8 DEF Wrapped, Srv6, Packet
<1> QED  BY <1>1, <1>5, <1>6, <1>7, <1>9

\* What a transit switch does to the destination and the counter of h.
MovesOn(m, h) ==
    TransitEntry(m.at, m.pkt.dst).action = "srv6_seg_ep" /\ m.pkt.left = 1

LEMMA TransitStep ==
    ASSUME IInv, LabIsWired, NEW m \in inflight, TransitForwards(m)
    PROVE  \E h \in HostPackets : \E x :
             LET entry == TransitEntry(m.at, m.pkt.dst)
             IN  /\ IsWrapped(m, h) /\ m.at \notin Edges \cup Hosts
                 /\ x.at = Peer(m.at, entry.port)
                 /\ x.at # Nowhere => IsWrapped(x, h)
                 /\ x.pkt.tlv = m.pkt.tlv /\ x.pkt.id = h.id
                 /\ x.pkt.left = IF MovesOn(m, h) THEN 0 ELSE m.pkt.left
                 /\ x.pkt.dst = IF MovesOn(m, h) THEN Function(h)
                                                 ELSE m.pkt.dst
                 /\ PacketOK(x.pkt)
                 /\ inflight \ {m} \subseteq inflight'
                 /\ \A y \in inflight' :
                       \/ y \in inflight /\ y # m
                       \/ y = x /\ x.at # Nowhere
                 /\ \A y \in stranded' :
                       \/ y \in stranded
                       \/ y = x /\ x.at = Nowhere
                 /\ UNCHANGED <<unsent, registers, arrived>>
<1>1. m.at \notin Edges \cup Hosts
  BY DEF TransitForwards
<1>2. PICK h \in HostPackets : IsWrapped(m, h)
  <2>1. PICK h \in HostPackets :
           m = Raw(h) \/ IsWrapped(m, h) \/ IsStripped(m, h)
    BY DEF IInv, FormsInv
  <2> QED  BY <1>1, <2>1, FormsDiffer
<1>3. m.pkt.srv6
  BY <1>2, FormsDiffer
<1>4. PICK list, left, dst, tlv, stamp, p :
         /\ p \in WiredPorts(h)
         /\ m.pkt = Wrapped(h, list, left, dst, tlv, stamp)
         /\ Shape(h, p, list, left, dst, tlv)
         /\ stamp \in Stamps(h)
         /\ dst = m.pkt.dst /\ left = m.pkt.left
  BY <1>2 DEF IsWrapped
<1>5. PICK entry : entry = TransitEntry(m.at, m.pkt.dst)
  OBVIOUS
<1>6. PICK out : out = IF entry.action = "srv6_seg_ep"
                       THEN AtEndpoint(m.pkt) ELSE m.pkt
  OBVIOUS
<1>7. /\ Emit(m, OnPort(entry.port, out))
      /\ UNCHANGED <<unsent, registers, arrived>>
  BY <1>3, <1>5, <1>6 DEF TransitForwards
<1>8. left \in {0, 1, 255} /\ (left = 255 => dst = h.dst)
  BY <1>4 DEF Shape
<1>9. left = 1 => /\ list = Two(Function(h), Segment(h, p))
                  /\ Live(h) /\ Segment(h, p) # NoSegment /\ tlv \in SeqNo
  BY <1>4 DEF Shape
<1>10. left = 255 => entry.action # "srv6_seg_ep"
  BY <1>1, <1>4, <1>5, <1>8 DEF LabIsWired
<1>11. \E l, d : /\ out = Wrapped(h, list, l, d, tlv, stamp)
                 /\ Shape(h, p, list, l, d, tlv)
                 /\ l = IF MovesOn(m, h) THEN 0 ELSE left
                 /\ d = IF MovesOn(m, h) THEN Function(h) ELSE dst
  <2>1. CASE MovesOn(m, h)
    <3>1. left = 1 /\ out = AtEndpoint(m.pkt)
      BY <1>4, <1>5, <1>6, <2>1 DEF MovesOn
    <3>2. out = Wrapped(h, list, 0, Function(h), tlv, stamp)
      BY <1>4, <1>9, <3>1, AtEndpointMeaning
    <3>3. Shape(h, p, list, 0, Function(h), tlv)
      BY <1>9, <3>1 DEF Shape
    <3> QED  BY <2>1, <3>2, <3>3
  <2>2. CASE ~ MovesOn(m, h)
    <3>1. out = m.pkt
      <4>1. CASE entry.action = "srv6_seg_ep"
        <5>1. m.pkt.left = 0
          BY <1>4, <1>5, <1>8, <1>10, <2>2, <4>1 DEF MovesOn
        <5> QED  BY <1>6, <4>1, <5>1 DEF AtEndpoint
      <4>2. CASE entry.action # "srv6_seg_ep"
        BY <1>6, <4>2
      <4> QED  BY <4>1, <4>2
    <3> QED  BY <1>4, <2>2, <3>1
  <2> QED  BY <2>1, <2>2
<1>12. PICK l, d : /\ out = Wrapped(h, list, l, d, tlv, stamp)
                   /\ Shape(h, p, list, l, d, tlv)
                   /\ l = IF MovesOn(m, h) THEN 0 ELSE left
                   /\ d = IF MovesOn(m, h) THEN Function(h) ELSE dst
  BY <1>11
<1>13. /\ out.left = l /\ out.dst = d /\ out.tlv = tlv /\ out.id = h.id
       /\ out.list = list /\ out.stamp = stamp /\ m.pkt.tlv = tlv
  BY <1>4, <1>12, WrappedFields
<1>14. PICK x : x = Sent(m, entry.port, out)
  OBVIOUS
<1>15. x.at = Peer(m.at, entry.port) /\ x.pkt = out
  BY <1>14, SentFields
<1>16. PacketOK(out)
  BY <1>4, <1>12, <1>13, WrappedOK DEF WiredPorts
<1>17. x.at # Nowhere => IsWrapped(x, h)
  <2>1. x.at \notin Hosts
    BY <1>1, <1>15 DEF LabIsWired
  <2>2. Steered(Original(h))
    BY <1>2 DEF IsWrapped
  <2> QED  BY <1>4, <1>12, <1>13, <1>15, <2>1, <2>2 DEF IsWrapped
<1>18. /\ inflight \ {m} \subseteq inflight'
       /\ \A y \in inflight' :
             \/ y \in inflight /\ y # m
             \/ y = x /\ x.at # Nowhere
       /\ \A y \in stranded' :
             \/ y \in stranded
             \/ y = x /\ x.at = Nowhere
  BY <1>7, <1>14, <1>15, EmitOneMeaning
<1>19. /\ x.pkt.left = IF MovesOn(m, h) THEN 0 ELSE m.pkt.left
       /\ x.pkt.dst = IF MovesOn(m, h) THEN Function(h) ELSE m.pkt.dst
       /\ x.pkt.tlv = m.pkt.tlv /\ x.pkt.id = h.id
  BY <1>4, <1>12, <1>13, <1>15
<1> QED  BY <1>1, <1>2, <1>5, <1>7, <1>15, <1>16, <1>17, <1>18, <1>19

\* A host takes what is sent to it.
LEMMA ReceivesStep ==
    ASSUME IInv, NEW m \in inflight, HostReceives(m)
    PROVE  \E h \in HostPackets :
             LET got == [host |-> m.at, pkt |-> m.pkt]
             IN  /\ IsStripped(m, h)
                 /\ got \in Arrivals(h)
                 /\ inflight' = inflight \ {m}
                 /\ arrived' = [arrived EXCEPT ![h.id] = Append(@, got)]
                 /\ UNCHANGED <<unsent, registers, stranded>>
<1>1. m.at \in Hosts
  BY DEF HostReceives
<1>2. PICK h \in HostPackets : IsStripped(m, h)
  BY <1>1, StrippedAtHost
<1>3. m.pkt.id = h.id
  BY <1>2, FormsDiffer
<1>4. [host |-> m.at, pkt |-> m.pkt] \in Arrivals(h)
  BY <1>2 DEF Arrivals, IsStripped
<1> QED  BY <1>2, <1>3, <1>4 DEF HostReceives, Drop
-----------------------------------------------------------------------------
(***************************************************************************)
(* The invariant holds at first and in every step.                         *)
(***************************************************************************)
LEMMA InitIInv == Init => IInv
<1> SUFFICES ASSUME Init PROVE IInv
  OBVIOUS
<1>1. FormsInv
  BY DEF Init, FormsInv
<1>2. RegistersInv
  <2>1. Placeable(0)
    BY WindowAssumption DEF Placeable
  <2>2. 0 \in SeqNo
    BY <2>1, PlaceableInRange
  <2> QED  BY <2>1, <2>2 DEF Init, RegistersInv
<1>3. HistoriesInv
  <2>1. ASSUME NEW h \in HostPackets
        PROVE  arrived[h.id] \in Seq(Arrivals(h))
    <3>1. h.id \in Ids
      BY DEF Ids
    <3>2. arrived[h.id] = << >>
      BY <3>1 DEF Init
    <3> QED  BY <3>2
  <2> QED  BY <2>1 DEF Init, HistoriesInv
<1> QED  BY <1>1, <1>2, <1>3 DEF IInv

LEMMA StepIInv ==
    ASSUME LabIsWired, IInv, [Next]_vars
    PROVE  IInv'
<1> USE DEF IInv
<1>1. ASSUME NEW h \in HostPackets, HostSends(h)
      PROVE  IInv'
  <2>1. inflight' = inflight \cup {Raw(h)} /\ unsent' = unsent \ {h}
        /\ UNCHANGED <<registers, arrived, stranded>>
    BY <1>1 DEF HostSends, Raw, NearEdge
  <2>2. FormsInv'
    BY <2>1 DEF FormsInv, IsWrapped, IsStripped
  <2>3. RegistersInv' /\ HistoriesInv'
    BY <2>1 DEF RegistersInv, HistoriesInv, registers
  <2> QED  BY <2>2, <2>3
<1>2. ASSUME NEW m \in inflight, EdgeSteers(m)
      PROVE  IInv'
  <2>1. PICK h, ports, seq :
           /\ h \in HostPackets /\ ports \in SUBSET Entry(h).ports
           /\ seq \in SeqNo
           /\ seq_n' \in [Edges -> SeqNo]
           /\ ports # {} => Steered(Original(h))
           /\ \A x \in inflight' :
                 \/ x \in inflight
                 \/ \E p \in ports : Peer(NearEdge(h), p) # Nowhere
                                      /\ x = Copy(h, p, seq)
           /\ \A x \in stranded' :
                 \/ x \in stranded
                 \/ \E p \in ports : x = Copy(h, p, seq)
           /\ UNCHANGED <<unsent, flow_window_start, flow_to_bitmap, arrived>>
    BY <1>2, SteersStep
  <2>2. ASSUME NEW x \in inflight', x \notin inflight
        PROVE  IsWrapped(x, h)
    BY <2>1, <2>2, CopyIsWrapped DEF WiredPorts
  <2>3. FormsInv'
    <3>1. h \in HostPackets
      BY <2>1
    <3> QED  BY <2>2, <3>1 DEF FormsInv
  <2>4. RegistersInv'
    BY <2>1 DEF RegistersInv
  <2>5. ASSUME NEW x \in stranded', x \notin stranded
        PROVE  PacketOK(x.pkt)
    <3>1. PICK p \in Entry(h).ports : /\ x = Copy(h, p, seq)
                                      /\ h \in HostPackets /\ seq \in SeqNo
      BY <2>1, <2>5
    <3> QED  BY <3>1, CopyFields, WrappedOK
  <2>6. HistoriesInv'
    BY <2>1, <2>5 DEF HistoriesInv
  <2> QED  BY <2>3, <2>4, <2>6
<1>3. ASSUME NEW m \in inflight, EdgeEnds(m)
      PROVE  IInv'
  <2>1. PICK h \in HostPackets :
           LET e == m.at
               s == m.pkt.tlv
               x == Delivery(m, h)
           IN  /\ IsWrapped(m, h) /\ e \in Edges
               /\ \A y \in inflight' :
                     y \in inflight \/ (y = x /\ x.at # Nowhere)
               /\ \A y \in stranded' : y \in stranded \/ y = x
               /\ UNCHANGED <<unsent, seq_n, arrived>>
               /\ \/ /\ s \in SeqNo
                     /\ flow_window_start' =
                          [flow_window_start EXCEPT
                              ![e] = NextStart(flow_window_start[e], s)]
                     /\ flow_to_bitmap' =
                          [flow_to_bitmap EXCEPT
                              ![e] = NextBitmap(flow_window_start[e],
                                                flow_to_bitmap[e], s)]
                  \/ UNCHANGED <<flow_window_start, flow_to_bitmap>>
    BY <1>3, EndsStep
  <2>2. ASSUME NEW y \in inflight', y \notin inflight
        PROVE  IsStripped(y, h)
    <3>1. y = Delivery(m, h) /\ y.at # Nowhere
      BY <2>1, <2>2
    <3> QED  BY <2>1, <3>1, DeliveryIsStripped DEF IsWrapped
  <2>3. FormsInv'
    BY <2>2 DEF FormsInv
  <2>4. RegistersInv'
    BY <2>1, RegistersStep DEF RegistersInv
  <2>5. PacketOK(Delivery(m, h).pkt)
    <3>1. h.id \in Ids /\ h.dst # Unspecified
      BY LabAssumption DEF Ids
    <3> QED  BY <3>1, DeliveryFields, StrippedFields DEF PacketOK
  <2>6. HistoriesInv'
    BY <2>1, <2>5 DEF HistoriesInv
  <2> QED  BY <2>3, <2>4, <2>6
<1>4. ASSUME NEW m \in inflight, EdgePasses(m)
      PROVE  IInv'
  <2>1. /\ \A y \in inflight' : y \in inflight
        /\ \A y \in stranded' : y \in stranded \/ PacketOK(y.pkt)
        /\ UNCHANGED <<unsent, registers, arrived>>
    BY <1>4, PassesStep
  <2>2. FormsInv'
    BY <2>1 DEF FormsInv
  <2>3. RegistersInv' /\ HistoriesInv'
    BY <2>1 DEF RegistersInv, HistoriesInv, registers
  <2> QED  BY <2>2, <2>3
<1>5. ASSUME NEW m \in inflight, TransitForwards(m)
      PROVE  IInv'
  <2>1. PICK h, x :
           /\ h \in HostPackets
           /\ x.at # Nowhere => IsWrapped(x, h)
           /\ PacketOK(x.pkt)
           /\ \A y \in inflight' : y \in inflight \/ (y = x /\ x.at # Nowhere)
           /\ \A y \in stranded' : y \in stranded \/ y = x
           /\ UNCHANGED <<unsent, registers, arrived>>
    BY <1>5, TransitStep
  <2>2. FormsInv'
    BY <2>1 DEF FormsInv
  <2>3. RegistersInv' /\ HistoriesInv'
    BY <2>1 DEF RegistersInv, HistoriesInv, registers
  <2> QED  BY <2>2, <2>3
<1>6. ASSUME NEW m \in inflight, HostReceives(m)
      PROVE  IInv'
  <2>1. PICK h, got :
           /\ h \in HostPackets /\ got \in Arrivals(h)
           /\ inflight' = inflight \ {m}
           /\ arrived' = [arrived EXCEPT ![h.id] = Append(@, got)]
           /\ UNCHANGED <<unsent, registers, stranded>>
    BY <1>6, ReceivesStep
  <2>2. FormsInv'
    BY <2>1 DEF FormsInv
  <2>3. RegistersInv'
    BY <2>1 DEF RegistersInv, registers
  <2>4. ASSUME NEW g \in HostPackets
        PROVE  arrived'[g.id] \in Seq(Arrivals(g))
    <3>1. g.id \in DOMAIN arrived /\ arrived[g.id] \in Seq(Arrivals(g))
      BY DEF HistoriesInv, Ids
    <3>2. CASE g.id = h.id
      <4>1. g = h
        BY <2>1, <3>2, SameId
      <4>2. arrived'[g.id] = Append(arrived[g.id], got)
        BY <2>1, <3>1, <3>2
      <4>3. got \in Arrivals(g)
        BY <2>1, <4>1
      <4> QED  BY <3>1, <4>2, <4>3
    <3>3. CASE g.id # h.id
      BY <2>1, <3>1, <3>3
    <3> QED  BY <3>2, <3>3
  <2>5. HistoriesInv'
    BY <2>1, <2>4 DEF HistoriesInv
  <2> QED  BY <2>2, <2>3, <2>5
<1>7. CASE UNCHANGED vars
  BY <1>7 DEF vars, FormsInv, RegistersInv, HistoriesInv
<1> QED  BY <1>1, <1>2, <1>3, <1>4, <1>5, <1>6, <1>7 DEF Next

LEMMA AlwaysIInv == ASSUME LabIsWired PROVE Spec => []IInv
<1>1. IInv /\ [Next]_vars => IInv'
  BY StepIInv
<1> QED  BY <1>1, InitIInv, PTL DEF Spec

\* The headers keep their widths and packets their address, in flight or
\* sent to nobody, and so do the registers of the edges.
THEOREM LabTypeCorrect == ASSUME LabIsWired PROVE Spec => []TypeOK
<1>1. IInv => TypeOK
  <2> SUFFICES ASSUME IInv PROVE TypeOK
    OBVIOUS
  <2>1. ASSUME NEW m \in inflight PROVE PacketOK(m.pkt)
    <3>1. PICK h \in HostPackets :
             m = Raw(h) \/ IsWrapped(m, h) \/ IsStripped(m, h)
      BY DEF IInv, FormsInv
    <3>2. h.id \in Ids /\ h.dst # Unspecified
      BY LabAssumption DEF Ids
    <3>3. CASE m = Raw(h)
      BY <3>2, <3>3, RawFields DEF PacketOK
    <3>4. CASE IsWrapped(m, h)
      BY <3>4, WrappedOK DEF IsWrapped, WiredPorts
    <3>5. CASE IsStripped(m, h)
      BY <3>2, <3>5, StrippedFields DEF PacketOK, IsStripped
    <3> QED  BY <3>1, <3>3, <3>4, <3>5
  <2>2. ASSUME NEW m \in stranded PROVE PacketOK(m.pkt)
    BY DEF IInv, HistoriesInv
  <2> QED  BY <2>1, <2>2 DEF TypeOK, PacketOK, IInv, RegistersInv, HistoriesInv
<1> QED  BY <1>1, AlwaysIInv, PTL

\* payload_len is what follows the header on every link, whatever the edges
\* pushed or stripped.
THEOREM LengthIsKept == ASSUME LabIsWired PROVE Spec => []LengthIsHonest
<1>1. IInv => LengthIsHonest
  <2> SUFFICES ASSUME IInv, NEW m \in inflight,
                      m.pkt.id \notin {g.id : g \in Tunnelled}
               PROVE  m.pkt.len = BytesOf(m.pkt)
    BY DEF LengthIsHonest
  <2>1. PICK h \in HostPackets :
           m = Raw(h) \/ IsWrapped(m, h) \/ IsStripped(m, h)
    BY DEF IInv, FormsInv
  <2>2. m.pkt.id = h.id
    BY <2>1, FormsDiffer
  <2>3. h.inner = NoInner
    BY <2>2 DEF Tunnelled
  <2>4. LenOf(h) = PayloadBytes
    BY <2>3 DEF LenOf, PayloadBytes
  <2>5. CASE m = Raw(h)
    BY <2>3, <2>4, <2>5, RawFields DEF BytesOf, PayloadBytes
  <2>6. CASE IsWrapped(m, h)
    <3>1. PICK list, left, dst, tlv, stamp, p :
             /\ m.pkt = Wrapped(h, list, left, dst, tlv, stamp)
             /\ Shape(h, p, list, left, dst, tlv)
      BY <2>6 DEF IsWrapped
    <3>2. OwnHeader(h) # NoInner
      BY LabAssumption, OriginalMeaning, EncapsulatedMeaning, LenOfIsNat
         DEF OwnHeader, Srv6, Packet
    <3>3. Len(list) \in Nat
      BY <3>1, Lists DEF Shape
    <3>4. /\ m.pkt.srv6 /\ m.pkt.list = list /\ m.pkt.tlv = tlv
          /\ m.pkt.inner # NoInner
          /\ m.pkt.len = LenOf(h) + Ipv6Bytes + Srv6Bytes
                           + SegmentBytes * Len(list)
                           + (IF tlv # NoTlv THEN TlvBytes ELSE 0)
      BY <3>1, <3>2, WrappedFields
    <3> QED  BY <2>4, <3>3, <3>4
             DEF BytesOf, PayloadBytes, Ipv6Bytes, Srv6Bytes, SegmentBytes,
                 TlvBytes
  <2>7. CASE IsStripped(m, h)
    BY <2>4, <2>7, StrippedFields DEF IsStripped, BytesOf, PayloadBytes
  <2> QED  BY <2>1, <2>5, <2>6, <2>7
<1> QED  BY <1>1, AlwaysIInv, PTL

LEMMA ArrivalFields ==
    ASSUME NEW h, NEW got \in Arrivals(h)
    PROVE  /\ got.host # h.host
           /\ \E stamp \in Stamps(h) : got.pkt = Stripped(h, stamp)
BY DEF Arrivals

LEMMA StrippedWithoutStamp ==
    ASSUME NEW h, NEW stamp
    PROVE  [Stripped(h, stamp) EXCEPT !.stamp = NoStamp]
             = [Original(h) EXCEPT !.inner = NoInner]
<1>1. ASSUME NEW dst, NEW len, NEW inner, NEW proto, NEW id,
             NEW p, p = Bare(dst, len, NoInner, proto, stamp, id),
             NEW q, q = Bare(dst, len, inner, proto, NoStamp, id)
      PROVE  [p EXCEPT !.stamp = NoStamp] = [q EXCEPT !.inner = NoInner]
  <2>1. PICK p1 : p1 = [p EXCEPT !.stamp = NoStamp]
    OBVIOUS
  <2>2. PICK q1 : q1 = [q EXCEPT !.inner = NoInner]
    OBVIOUS
  <2>3. p1 = Bare(dst, len, NoInner, proto, NoStamp, id)
    BY <1>1, <2>1 DEF Bare, Packet
  <2>4. q1 = Bare(dst, len, NoInner, proto, NoStamp, id)
    BY <1>1, <2>2 DEF Bare, Packet
  <2> QED  BY <2>1, <2>2, <2>3, <2>4
<1> QED  BY <1>1, OriginalMeaning DEF Stripped

\* A host gets what the other one sent, with the headers it had, whatever the
\* switches between pushed, followed and stripped.
THEOREM PacketsArriveIntact == ASSUME LabIsWired PROVE Spec => []ArrivesIntact
<1>1. IInv => ArrivesIntact
  <2> SUFFICES ASSUME IInv, NEW h \in HostPackets \ Tunnelled,
                      NEW i \in 1 .. Len(arrived[h.id])
               PROVE  LET got == arrived[h.id][i]
                      IN  /\ got.host # h.host
                          /\ [got.pkt EXCEPT !.stamp = NoStamp] = Original(h)
                          /\ h.proto = "tcp" => got.pkt.stamp = NoStamp
    BY DEF ArrivesIntact
  <2>1. PICK got \in Arrivals(h) : got = arrived[h.id][i]
    BY DEF IInv, HistoriesInv
  <2>2. PICK stamp \in Stamps(h) : got.pkt = Stripped(h, stamp)
    BY ArrivalFields
  <2>3. h.inner = NoInner
    BY DEF Tunnelled
  <2>4. [Original(h) EXCEPT !.inner = NoInner] = Original(h)
    BY <2>3, OriginalMeaning DEF Bare, Packet
  <2>5. h.proto = "tcp" => stamp = NoStamp
    BY <2>2 DEF Stamps
  <2>6. [got.pkt EXCEPT !.stamp = NoStamp] = Original(h)
    BY <2>2, <2>4, StrippedWithoutStamp
  <2>7. got.host # h.host /\ got.pkt.stamp = stamp
    BY <2>2, ArrivalFields, StrippedFields
  <2> QED  BY <2>1, <2>5, <2>6, <2>7
<1> QED  BY <1>1, AlwaysIInv, PTL

\* Whatever way it goes, an IPv6-in-IPv6 packet loses its inner header.
THEOREM TunnelsLoseTheirHeader ==
    ASSUME LabIsWired PROVE Spec => []TunnelLosesHeader
<1>1. IInv => TunnelLosesHeader
  <2> SUFFICES ASSUME IInv, NEW h \in Tunnelled,
                      NEW i \in 1 .. Len(arrived[h.id])
               PROVE  LET got == arrived[h.id][i]
                      IN  /\ got.host # h.host
                          /\ [got.pkt EXCEPT !.stamp = NoStamp] =
                                 [Original(h) EXCEPT !.inner = NoInner]
    BY DEF TunnelLosesHeader
  <2>1. PICK got \in Arrivals(h) : got = arrived[h.id][i]
    BY DEF IInv, HistoriesInv, Tunnelled
  <2>2. PICK stamp \in Stamps(h) : got.pkt = Stripped(h, stamp)
    BY ArrivalFields
  <2> QED  BY <2>1, <2>2, ArrivalFields, StrippedWithoutStamp
<1> QED  BY <1>1, AlwaysIInv, PTL

\* The edge of h has a segment for each of its ports, or adds the function on
\* each of them: no list stays empty.
HasSegments(h) ==
    \A p \in WiredPorts(h) : Live(h) \/ Segment(h, p) # NoSegment

\* The counters of every packet on its way are those of its list, if no edge
\* steers packets into a path with nothing to push.
THEOREM CountersAreRight ==
    ASSUME LabIsWired, \A h \in HostPackets : HasSegments(h)
    PROVE  Spec => []CountersMatchList
<1>1. IInv => CountersMatchList
  <2> SUFFICES ASSUME IInv, NEW m \in Travelling
               PROVE  /\ m.pkt.last + 1 = Len(m.pkt.list)
                      /\ m.pkt.left <= m.pkt.last
    BY DEF CountersMatchList
  <2>1. PICK h \in HostPackets : IsWrapped(m, h)
    <3>1. m \in inflight /\ m.pkt.srv6
      BY DEF Travelling
    <3>2. PICK h \in HostPackets :
             m = Raw(h) \/ IsWrapped(m, h) \/ IsStripped(m, h)
      BY <3>1 DEF IInv, FormsInv
    <3> QED  BY <3>1, <3>2, FormsDiffer
  <2>2. PICK list, left, dst, tlv, stamp, p :
           /\ m.pkt = Wrapped(h, list, left, dst, tlv, stamp)
           /\ Shape(h, p, list, left, dst, tlv) /\ p \in WiredPorts(h)
    BY <2>1 DEF IsWrapped
  <2>3. m.pkt.last = CounterOf(list) /\ m.pkt.list = list /\ m.pkt.left = left
    BY <2>2, WrappedFields
  <2>4. Live(h) \/ Segment(h, p) # NoSegment
    BY <2>2 DEF HasSegments
  <2>5. /\ Len(One(Function(h))) = 1 /\ CounterOf(One(Function(h))) = 0
        /\ Len(One(Segment(h, p))) = 1 /\ CounterOf(One(Segment(h, p))) = 0
        /\ Len(Two(Function(h), Segment(h, p))) = 2
        /\ CounterOf(Two(Function(h), Segment(h, p))) = 1
    BY Lists
  <2>6. PICK n, len : n = CounterOf(list) /\ len = Len(list)
    OBVIOUS
  <2>7. \/ n = 0 /\ len = 1 /\ left = 0
        \/ n = 1 /\ len = 2 /\ left \in {0, 1}
    BY <2>2, <2>4, <2>5, <2>6 DEF Shape
  <2>8. n + 1 = len /\ left <= n
    BY <2>7
  <2> QED  BY <2>3, <2>6, <2>8
<1> QED  BY <1>1, AlwaysIInv, PTL

\* A packet on its way goes to the segment its counter points at, if the edges
\* have a segment for every port they steer to: where they have none the
\* packet keeps the address of the host and visits no segment.
THEOREM DestinationsAreSegments ==
    ASSUME LabIsWired,
           \A h \in HostPackets :
               \A p \in WiredPorts(h) : Segment(h, p) # NoSegment
    PROVE  Spec => []DestinationIsActive
<1>1. IInv => DestinationIsActive
  <2> SUFFICES ASSUME IInv, NEW m \in Travelling
               PROVE  m.pkt.dst = m.pkt.list[m.pkt.left + 1]
    BY DEF DestinationIsActive
  <2>1. PICK h \in HostPackets : IsWrapped(m, h)
    <3>1. m \in inflight /\ m.pkt.srv6
      BY DEF Travelling
    <3>2. PICK h \in HostPackets :
             m = Raw(h) \/ IsWrapped(m, h) \/ IsStripped(m, h)
      BY <3>1 DEF IInv, FormsInv
    <3> QED  BY <3>1, <3>2, FormsDiffer
  <2>2. PICK list, left, dst, tlv, stamp, p :
           /\ m.pkt = Wrapped(h, list, left, dst, tlv, stamp)
           /\ Shape(h, p, list, left, dst, tlv) /\ p \in WiredPorts(h)
    BY <2>1 DEF IsWrapped
  <2>3. m.pkt.dst = dst /\ m.pkt.list = list /\ m.pkt.left = left
    BY <2>2, WrappedFields
  <2>4. Segment(h, p) # NoSegment
    BY <2>2
  <2>5. /\ One(Segment(h, p))[1] = Segment(h, p)
        /\ Two(Function(h), Segment(h, p))[1] = Function(h)
        /\ Two(Function(h), Segment(h, p))[2] = Segment(h, p)
    BY Lists
  <2>6. dst = list[left + 1]
    BY <2>2, <2>4, <2>5 DEF Shape
  <2> QED  BY <2>3, <2>6
<1> QED  BY <1>1, AlwaysIInv, PTL
-----------------------------------------------------------------------------
(***************************************************************************)
(* Packets from a source for which the edges have no entry of its own.     *)
(***************************************************************************)
Foreign(h) == h.src \notin {g.dst : g \in HostPackets}

\* The default entry spreads them over paths with nothing to push.
ForeignGetNothing ==
    \A h \in HostPackets : Foreign(h) =>
        ~ Live(h) /\ \A p \in WiredPorts(h) : Segment(h, p) = NoSegment

ForeignInv ==
    \A h \in HostPackets : Foreign(h) =>
        /\ arrived[h.id] = << >>
        /\ \A m \in inflight : ~ IsStripped(m, h)

\* No counter of a foreign packet is ever 0.
LEMMA ForeignNeverEnds ==
    ASSUME ForeignGetNothing, NEW h \in HostPackets, Foreign(h),
           NEW m, IsWrapped(m, h)
    PROVE  m.pkt.left # 0
BY DEF IsWrapped, Shape, ForeignGetNothing

LEMMA ForeignStep ==
    ASSUME LabIsWired, ForeignGetNothing, IInv, ForeignInv, [Next]_vars
    PROVE  ForeignInv'
<1> SUFFICES ASSUME NEW h \in HostPackets, Foreign(h)
             PROVE  /\ (arrived[h.id] = << >>)'
                    /\ \A m \in inflight' : ~ IsStripped(m, h)
  BY DEF ForeignInv
<1>1. arrived[h.id] = << >> /\ \A m \in inflight : ~ IsStripped(m, h)
  BY DEF ForeignInv
<1>2. ASSUME NEW g \in HostPackets, HostSends(g)
      PROVE  /\ (arrived[h.id] = << >>)'
             /\ \A m \in inflight' : ~ IsStripped(m, h)
  <2>1. inflight' = inflight \cup {Raw(g)} /\ UNCHANGED arrived
    BY <1>2 DEF HostSends, Raw, NearEdge
  <2>2. ~ IsStripped(Raw(g), h)
    BY RawFields, NoHostAtEdge, FormsDiffer
  <2> QED  BY <1>1, <2>1, <2>2
<1>3. ASSUME NEW m \in inflight, EdgeSteers(m)
      PROVE  /\ (arrived[h.id] = << >>)'
             /\ \A x \in inflight' : ~ IsStripped(x, h)
  <2>1. PICK g, ports, seq :
           /\ g \in HostPackets /\ ports \in SUBSET Entry(g).ports
           /\ seq \in SeqNo
           /\ ports # {} => Steered(Original(g))
           /\ \A x \in inflight' :
                 \/ x \in inflight
                 \/ \E p \in ports : Peer(NearEdge(g), p) # Nowhere
                                      /\ x = Copy(g, p, seq)
           /\ UNCHANGED arrived
    BY <1>3, SteersStep
  <2>2. ASSUME NEW x \in inflight', x \notin inflight
        PROVE  IsWrapped(x, g)
    BY <2>1, <2>2, CopyIsWrapped DEF WiredPorts
  <2> QED  BY <1>1, <2>1, <2>2, FormsDiffer
<1>4. ASSUME NEW m \in inflight, EdgeEnds(m)
      PROVE  /\ (arrived[h.id] = << >>)'
             /\ \A x \in inflight' : ~ IsStripped(x, h)
  <2>1. PICK g \in HostPackets :
           /\ IsWrapped(m, g) /\ m.pkt.left = 0
           /\ \A y \in inflight' : y \in inflight \/ y = Delivery(m, g)
           /\ UNCHANGED arrived
    BY <1>4, EndsStep
  <2>2. ~ IsStripped(Delivery(m, g), h)
    <3>1. SUFFICES ASSUME IsStripped(Delivery(m, g), h)
                   PROVE  FALSE
      OBVIOUS
    <3>2. g = h
      BY <3>1, DeliveryFields, FormsDiffer, SameId
    <3> QED  BY <2>1, <3>2, ForeignNeverEnds
  <2> QED  BY <1>1, <2>1, <2>2
<1>5. ASSUME NEW m \in inflight, EdgePasses(m)
      PROVE  /\ (arrived[h.id] = << >>)'
             /\ \A x \in inflight' : ~ IsStripped(x, h)
  BY <1>1, <1>5, PassesStep
<1>6. ASSUME NEW m \in inflight, TransitForwards(m)
      PROVE  /\ (arrived[h.id] = << >>)'
             /\ \A x \in inflight' : ~ IsStripped(x, h)
  <2>1. PICK g, x :
           /\ g \in HostPackets
           /\ x.at # Nowhere => IsWrapped(x, g)
           /\ \A y \in inflight' : y \in inflight \/ (y = x /\ x.at # Nowhere)
           /\ UNCHANGED arrived
    BY <1>6, TransitStep
  <2> QED  BY <1>1, <2>1, FormsDiffer
<1>7. ASSUME NEW m \in inflight, HostReceives(m)
      PROVE  /\ (arrived[h.id] = << >>)'
             /\ \A x \in inflight' : ~ IsStripped(x, h)
  <2>1. PICK g, got :
           /\ g \in HostPackets /\ IsStripped(m, g)
           /\ inflight' = inflight \ {m}
           /\ arrived' = [arrived EXCEPT ![g.id] = Append(@, got)]
    BY <1>7, ReceivesStep
  <2>2. g.id # h.id
    BY <1>1, <2>1, SameId
  <2>3. arrived'[h.id] = arrived[h.id]
    BY <2>1, <2>2
  <2> QED  BY <1>1, <2>1, <2>3
<1>8. CASE UNCHANGED vars
  BY <1>1, <1>8 DEF vars
<1> QED  BY <1>2, <1>3, <1>4, <1>5, <1>6, <1>7, <1>8 DEF Next

\* Where the default entry pushes nothing, no packet from a source without an
\* entry of its own reaches a host.
THEOREM ForeignPacketsAreLost ==
    ASSUME LabIsWired, ForeignGetNothing
    PROVE  Spec => []ForeignIsLost
<1>1. Init => ForeignInv
  BY DEF Init, ForeignInv, Ids
<1>2. IInv /\ ForeignInv /\ [Next]_vars => ForeignInv'
  BY ForeignStep
<1>3. ForeignInv => ForeignIsLost
  BY DEF ForeignInv, ForeignIsLost, Foreign
<1> QED  BY <1>1, <1>2, <1>3, AlwaysIInv, PTL DEF Spec
-----------------------------------------------------------------------------
(***************************************************************************)
(* Nothing arrives twice.                                                  *)
(***************************************************************************)

\* Only the far edge has a way to the host h is for, and what is copied meets
\* the function there.
CopiesAreChecked ==
    \A h \in HostPackets :
        /\ Live(h) => Function(h) \in Functions
        /\ \A e \in Edges :
              Peer(e, HostPort(e, h.dst)) # Nowhere => e = FarEdge(h)

\* What is on its way of h, whether the far edge would refuse number n, and
\* whether h is through the far edge.
Ours(h) == {m \in inflight : m.pkt.id = h.id}
Remembers(h, n) ==
    Seen(flow_window_start[FarEdge(h)], flow_to_bitmap[FarEdge(h)], n)
Through(h) == arrived[h.id] # << >> \/ \E m \in Ours(h) : IsStripped(m, h)

\* A packet is with its host, alone on its way to the edge, or copied; all the
\* copies have one number, and one packet without a number has no copies.
\* Once a copy is through, the far edge remembers the number of the others.
OnceFor(h) ==
    /\ h \in unsent => Ours(h) = {} /\ arrived[h.id] = << >>
    /\ Raw(h) \in inflight => Ours(h) = {Raw(h)} /\ arrived[h.id] = << >>
    /\ \A m, n \in Ours(h) :
          IsWrapped(m, h) /\ IsWrapped(n, h) =>
              m.pkt.tlv = n.pkt.tlv /\ (m.pkt.tlv = NoTlv => m = n)
    /\ \A m, n \in Ours(h) : IsStripped(m, h) /\ IsStripped(n, h) => m = n
    /\ \A m \in Ours(h) : IsStripped(m, h) => arrived[h.id] = << >>
    /\ Len(arrived[h.id]) <= 1
    /\ \A m \in Ours(h) :
          IsWrapped(m, h) /\ Through(h) =>
              m.pkt.tlv # NoTlv /\ Remembers(h, m.pkt.tlv)

OnceInv == \A h \in HostPackets : OnceFor(h)

LEMMA WrappedNumber ==
    ASSUME NEW h \in HostPackets, NEW m, IsWrapped(m, h)
    PROVE  /\ m.pkt.tlv \in SeqNo \cup {NoTlv}
           /\ Live(h) <=> m.pkt.tlv # NoTlv
BY LabAssumption DEF IsWrapped, Shape

\* What the far edge remembers it goes on to remember.
LEMMA RemembersOn ==
    ASSUME RegistersInv, NEW h \in HostPackets, NEW n \in SeqNo,
           Remembers(h, n), NEW e \in Edges, NEW s,
           \/ /\ s \in SeqNo
              /\ flow_window_start' =
                   [flow_window_start EXCEPT
                       ![e] = NextStart(flow_window_start[e], s)]
              /\ flow_to_bitmap' =
                   [flow_to_bitmap EXCEPT
                       ![e] = NextBitmap(flow_window_start[e],
                                         flow_to_bitmap[e], s)]
           \/ UNCHANGED <<flow_window_start, flow_to_bitmap>>
    PROVE  Remembers(h, n)'
<1>1. FarEdge(h) \in Edges
  BY DEF FarEdge, Edges
<1>2. CASE UNCHANGED <<flow_window_start, flow_to_bitmap>>
  BY <1>2 DEF Remembers
<1>3. CASE /\ s \in SeqNo
           /\ flow_window_start' =
                [flow_window_start EXCEPT
                    ![e] = NextStart(flow_window_start[e], s)]
           /\ flow_to_bitmap' =
                [flow_to_bitmap EXCEPT
                    ![e] = NextBitmap(flow_window_start[e],
                                      flow_to_bitmap[e], s)]
  <2>1. CASE e = FarEdge(h)
    <3>1. /\ Placeable(flow_window_start[e])
          /\ flow_to_bitmap[e] \in SUBSET Index
      BY DEF RegistersInv
    <3>2. /\ flow_window_start'[e] = NextStart(flow_window_start[e], s)
          /\ flow_to_bitmap'[e] =
               NextBitmap(flow_window_start[e], flow_to_bitmap[e], s)
      BY <1>3 DEF RegistersInv
    <3>3. Seen(flow_window_start[e], flow_to_bitmap[e], n)
      BY <2>1 DEF Remembers
    <3>4. Seen(flow_window_start'[e], flow_to_bitmap'[e], n)
      BY <1>3, <3>1, <3>2, <3>3, NextRemembers
    <3> QED  BY <2>1, <3>4 DEF Remembers
  <2>2. CASE e # FarEdge(h)
    <3>1. /\ flow_window_start'[FarEdge(h)] = flow_window_start[FarEdge(h)]
          /\ flow_to_bitmap'[FarEdge(h)] = flow_to_bitmap[FarEdge(h)]
      BY <1>1, <1>3, <2>2 DEF RegistersInv
    <3> QED  BY <3>1 DEF Remembers
  <2> QED  BY <2>1, <2>2
<1> QED  BY <1>2, <1>3

\* A step that adds nothing to what there is of h.
LEMMA OnceIsKept ==
    ASSUME NEW h \in HostPackets, OnceFor(h),
           Ours(h)' \subseteq Ours(h), arrived'[h.id] = arrived[h.id],
           h \in unsent' => h \in unsent,
           \A n \in SeqNo : Remembers(h, n) => Remembers(h, n)'
    PROVE  OnceFor(h)'
<1>1. Raw(h) \in inflight' => /\ Raw(h) \in inflight
                              /\ Ours(h)' = {Raw(h)}
                              /\ arrived'[h.id] = << >>
  <2>1. SUFFICES ASSUME Raw(h) \in inflight'
                 PROVE  /\ Raw(h) \in inflight
                        /\ Ours(h)' = {Raw(h)}
                        /\ arrived'[h.id] = << >>
    OBVIOUS
  <2>2. Raw(h) \in Ours(h)'
    BY <2>1, RawFields DEF Ours
  <2>3. Raw(h) \in inflight
    BY <2>2 DEF Ours
  <2> QED  BY <2>2, <2>3 DEF OnceFor
<1>2. Through(h)' => Through(h)
  BY DEF Through
<1>3. ASSUME NEW m \in Ours(h)', IsWrapped(m, h), Through(h)'
      PROVE  m.pkt.tlv # NoTlv /\ Remembers(h, m.pkt.tlv)'
  <2>1. m.pkt.tlv # NoTlv /\ Remembers(h, m.pkt.tlv)
    BY <1>2, <1>3 DEF OnceFor
  <2>2. m.pkt.tlv \in SeqNo
    BY <1>3, <2>1, WrappedNumber
  <2> QED  BY <2>1, <2>2
<1> QED  BY <1>1, <1>3 DEF OnceFor

\* The packet in the place of m is of another host packet.
LEMMA OursOfOthers ==
    ASSUME NEW g \in HostPackets, NEW h \in HostPackets, g # h,
           \A x \in inflight' : x \in inflight \/ x.pkt.id = h.id
    PROVE  Ours(g)' \subseteq Ours(g)
BY SameId DEF Ours

LEMMA SendsOnce ==
    ASSUME OnceInv, NEW h \in HostPackets, HostSends(h),
           NEW g \in HostPackets
    PROVE  OnceFor(g)'
<1>1. /\ h \in unsent /\ unsent' = unsent \ {h}
      /\ inflight' = inflight \cup {Raw(h)}
      /\ UNCHANGED <<arrived, flow_window_start, flow_to_bitmap>>
  BY DEF HostSends, Raw, NearEdge, registers
<1>2. Raw(h).pkt.id = h.id
  BY RawFields
<1>3. \A n \in SeqNo : Remembers(g, n) => Remembers(g, n)'
  BY <1>1 DEF Remembers
<1>4. CASE g # h
  <2>1. Ours(g)' \subseteq Ours(g)
    BY <1>1, <1>2, <1>4, OursOfOthers
  <2> QED  BY <1>1, <1>3, <2>1, OnceIsKept DEF OnceInv
<1>5. CASE g = h
  <2>1. Ours(h)' = {Raw(h)} /\ arrived'[h.id] = << >> /\ h \notin unsent'
    BY <1>1, <1>2 DEF Ours, OnceInv, OnceFor
  <2>2. ~ IsStripped(Raw(h), h) /\ ~ IsWrapped(Raw(h), h)
    BY RawFields, NoHostAtEdge, FormsDiffer
  <2> QED  BY <1>5, <2>1, <2>2 DEF OnceFor
<1> QED  BY <1>4, <1>5

LEMMA SteersOnce ==
    ASSUME LabIsWired, IInv, OnceInv, NEW m \in inflight, EdgeSteers(m),
           NEW g \in HostPackets
    PROVE  OnceFor(g)'
<1>1. PICK h, ports, seq :
         /\ h \in HostPackets /\ ports \in SUBSET Entry(h).ports
         /\ m = Raw(h) /\ seq \in SeqNo
         /\ ports # {} => Steered(Original(h))
         /\ ~ Live(h) => \A p, q \in ports : p = q
         /\ \A x \in inflight' :
               \/ x \in inflight /\ x # m
               \/ \E p \in ports : Peer(NearEdge(h), p) # Nowhere
                                    /\ x = Copy(h, p, seq)
         /\ UNCHANGED <<unsent, flow_window_start, flow_to_bitmap, arrived>>
  BY SteersStep
<1>2. \A n \in SeqNo : Remembers(g, n) => Remembers(g, n)'
  BY <1>1 DEF Remembers
<1>3. CASE g # h
  <2>1. Ours(g)' \subseteq Ours(g)
    BY <1>1, <1>3, CopyFields, OursOfOthers
  <2> QED  BY <1>1, <1>2, <2>1, OnceIsKept DEF OnceInv
<1>4. CASE g = h
  <2>1. /\ Ours(h) = {m} /\ arrived[h.id] = << >> /\ h \notin unsent
    <3>1. m.pkt.id = h.id
      BY <1>1, RawFields
    <3> QED  BY <1>1, <3>1 DEF OnceInv, OnceFor, Ours
  <2>2. ASSUME NEW x \in Ours(h)'
        PROVE  /\ IsWrapped(x, h)
               /\ \E p \in ports : x = Copy(h, p, seq)
    <3>1. x \in inflight' /\ x.pkt.id = h.id
      BY DEF Ours
    <3>2. PICK p \in ports : /\ Peer(NearEdge(h), p) # Nowhere
                             /\ x = Copy(h, p, seq)
      BY <1>1, <2>1, <3>1 DEF Ours
    <3> QED  BY <1>1, <3>2, CopyIsWrapped DEF WiredPorts
  <2>3. \A x \in Ours(h)' : ~ IsStripped(x, h) /\ x # Raw(h)
    BY <2>2, FormsDiffer
  <2>4. ~ Through(h)'
    BY <1>1, <2>1, <2>3 DEF Through
  <2>5. Raw(h) \notin inflight'
    BY <2>3, RawFields DEF Ours
  <2>6. ASSUME NEW x \in Ours(h)', NEW y \in Ours(h)'
        PROVE  x.pkt.tlv = y.pkt.tlv /\ (x.pkt.tlv = NoTlv => x = y)
    <3>1. PICK p \in ports : x = Copy(h, p, seq)
      BY <2>2
    <3>2. PICK q \in ports : y = Copy(h, q, seq)
      BY <2>2
    <3>3. CASE Live(h)
      <4>1. x.pkt.tlv = seq /\ y.pkt.tlv = seq /\ seq # NoTlv
        BY <1>1, <3>1, <3>2, <3>3, CopyFields, LabAssumption
      <4> QED  BY <4>1
    <3>4. CASE ~ Live(h)
      BY <1>1, <3>1, <3>2, <3>4
    <3> QED  BY <3>3, <3>4
  <2>7. arrived'[h.id] = << >> /\ h \notin unsent'
    BY <1>1, <2>1
  <2> QED  BY <1>4, <2>3, <2>4, <2>5, <2>6, <2>7 DEF OnceFor
<1> QED  BY <1>3, <1>4

\* What leaves the far edge is the first of its copies to pass.
LEMMA EndsOnce ==
    ASSUME LabIsWired, CopiesAreChecked, IInv, OnceInv,
           NEW m \in inflight, EdgeEnds(m), NEW g \in HostPackets
    PROVE  OnceFor(g)'
<1> DEFINE e == m.at
           s == m.pkt.tlv
<1>1. PICK h \in HostPackets :
         /\ IsWrapped(m, h) /\ e \in Edges
         /\ \A y \in inflight' :
               \/ y \in inflight /\ y # m
               \/ y = Delivery(m, h) /\ Delivery(m, h).at # Nowhere
         /\ UNCHANGED <<unsent, seq_n, arrived>>
         /\ \/ /\ Live(h) /\ s \in SeqNo
               /\ flow_window_start' =
                    [flow_window_start EXCEPT
                        ![e] = NextStart(flow_window_start[e], s)]
               /\ flow_to_bitmap' =
                    [flow_to_bitmap EXCEPT
                        ![e] = NextBitmap(flow_window_start[e],
                                          flow_to_bitmap[e], s)]
               /\ Refused(flow_window_start[e], flow_to_bitmap[e], s)
                    => \A y \in inflight' : y \in inflight /\ y # m
            \/ /\ Live(h) => Function(h) \notin Functions
               /\ UNCHANGED <<flow_window_start, flow_to_bitmap>>
  BY EndsStep
<1>2. \A n \in SeqNo : Remembers(g, n) => Remembers(g, n)'
  BY <1>1, RemembersOn DEF IInv
<1>3. ASSUME Ours(g)' \subseteq Ours(g)
      PROVE  OnceFor(g)'
  BY <1>1, <1>2, <1>3, OnceIsKept DEF OnceInv
<1>4. CASE g # h
  BY <1>1, <1>3, <1>4, DeliveryFields, OursOfOthers
<1>5. CASE \A y \in inflight' : y \in inflight
  BY <1>3, <1>5 DEF Ours
<1>6. CASE g = h /\ ~ \A y \in inflight' : y \in inflight
  <2> DEFINE x == Delivery(m, h)
  <2>1. /\ x \in inflight' /\ x.at # Nowhere
    BY <1>1, <1>6
  <2>2. e = FarEdge(h)
    BY <1>1, <2>1, DeliveryFields DEF CopiesAreChecked
  <2>3. IsStripped(x, h)
    BY <1>1, <2>1, DeliveryIsStripped DEF IsWrapped
  <2>4. m \in Ours(h) /\ x \in Ours(h)'
    BY <1>1, <2>1, <2>3, FormsDiffer DEF Ours
  <2>5. \A y \in Ours(h)' : y = x \/ (y \in Ours(h) /\ y # m)
    BY <1>1 DEF Ours
  <2>6. /\ ~ Through(h)
        /\ \A y \in Ours(h) :
              IsWrapped(y, h) /\ y # m =>
                  y.pkt.tlv # NoTlv /\ Remembers(h, y.pkt.tlv)'
    <3>1. ASSUME NEW y \in Ours(h), IsWrapped(y, h)
          PROVE  y.pkt.tlv = s /\ (s = NoTlv => y = m)
      BY <1>1, <2>4, <3>1 DEF OnceInv, OnceFor
    <3>2. Through(h) => s # NoTlv /\ Remembers(h, s)
      BY <1>1, <2>4 DEF OnceInv, OnceFor
    <3>3. CASE ~ Live(h)
      <4>1. s = NoTlv
        BY <1>1, <3>3, WrappedNumber
      <4> QED  BY <3>1, <3>2, <4>1
    <3>4. CASE Live(h)
      <4>1. /\ flow_window_start' =
                 [flow_window_start EXCEPT
                     ![e] = NextStart(flow_window_start[e], s)]
            /\ flow_to_bitmap' =
                 [flow_to_bitmap EXCEPT
                     ![e] = NextBitmap(flow_window_start[e],
                                       flow_to_bitmap[e], s)]
            /\ s \in SeqNo /\ s # NoTlv
            /\ ~ Refused(flow_window_start[e], flow_to_bitmap[e], s)
        BY <1>1, <1>6, <3>4, LabAssumption DEF CopiesAreChecked
      <4>2. /\ Placeable(flow_window_start[e])
            /\ flow_to_bitmap[e] \in SUBSET Index
        BY <1>1 DEF IInv, RegistersInv
      <4>3. /\ flow_window_start'[e] = NextStart(flow_window_start[e], s)
            /\ flow_to_bitmap'[e] =
                 NextBitmap(flow_window_start[e], flow_to_bitmap[e], s)
        BY <1>1, <4>1 DEF IInv, RegistersInv
      <4>4. /\ ~ Seen(flow_window_start[e], flow_to_bitmap[e], s)
            /\ Seen(flow_window_start'[e], flow_to_bitmap'[e], s)
        BY <4>1, <4>2, <4>3, AcceptedIsFresh
      <4>5. ~ Remembers(h, s) /\ Remembers(h, s)'
        BY <2>2, <4>4 DEF Remembers
      <4> QED  BY <3>1, <3>2, <4>1, <4>5
    <3> QED  BY <3>3, <3>4
  <2>7. arrived'[h.id] = << >> /\ \A y \in Ours(h) : ~ IsStripped(y, h)
    BY <1>1, <2>6 DEF Through
  <2>8. h \notin unsent' /\ Raw(h) \notin inflight'
    <3>1. h \notin unsent
      BY <2>4 DEF OnceInv, OnceFor
    <3>2. Raw(h) \notin inflight
      BY <1>1, <2>4, FormsDiffer, RawFields DEF OnceInv, OnceFor
    <3>3. Raw(h) # x
      BY <2>3, RawFields, NoHostAtEdge, FormsDiffer
    <3> QED  BY <1>1, <3>1, <3>2, <3>3
  <2>9. \A y \in Ours(h)' :
           /\ IsStripped(y, h) => y = x
           /\ IsWrapped(y, h) => /\ y \in Ours(h) /\ y # m
                                 /\ y.pkt.tlv # NoTlv
                                 /\ Remembers(h, y.pkt.tlv)'
    BY <2>3, <2>5, <2>6, <2>7, FormsDiffer
  <2>10. \A y, z \in Ours(h)' :
            IsWrapped(y, h) /\ IsWrapped(z, h) =>
                y.pkt.tlv = z.pkt.tlv /\ (y.pkt.tlv = NoTlv => y = z)
    BY <2>9 DEF OnceInv, OnceFor
  <2> QED  BY <1>6, <2>7, <2>8, <2>9, <2>10 DEF OnceFor
<1> QED  BY <1>4, <1>5, <1>6

LEMMA TransitOnce ==
    ASSUME LabIsWired, IInv, OnceInv, NEW m \in inflight, TransitForwards(m),
           NEW g \in HostPackets
    PROVE  OnceFor(g)'
<1>1. PICK h, x :
         /\ h \in HostPackets
         /\ IsWrapped(m, h)
         /\ x.at # Nowhere => IsWrapped(x, h)
         /\ x.pkt.tlv = m.pkt.tlv /\ x.pkt.id = h.id
         /\ \A y \in inflight' :
               \/ y \in inflight /\ y # m
               \/ y = x /\ x.at # Nowhere
         /\ UNCHANGED <<unsent, registers, arrived>>
  BY TransitStep
<1>2. \A n \in SeqNo : Remembers(g, n) => Remembers(g, n)'
  BY <1>1 DEF Remembers, registers
<1>3. CASE g # h
  <2>1. Ours(g)' \subseteq Ours(g)
    BY <1>1, <1>3, OursOfOthers
  <2> QED  BY <1>1, <1>2, <2>1, OnceIsKept DEF OnceInv
<1>4. CASE g = h
  <2>1. m \in Ours(h)
    BY <1>1, FormsDiffer DEF Ours
  <2>2. \A y \in Ours(h)' : \/ y \in Ours(h) /\ y # m
                            \/ y = x /\ IsWrapped(x, h)
    BY <1>1 DEF Ours
  <2>3. ~ IsStripped(x, h) \/ ~ IsWrapped(x, h)
    BY FormsDiffer
  <2>4. /\ h \notin unsent' /\ Raw(h) \notin inflight'
        /\ arrived'[h.id] = arrived[h.id]
    <3>1. h \notin unsent
      BY <1>1, <2>1 DEF OnceInv, OnceFor
    <3>2. Raw(h) \notin inflight
      BY <1>1, <2>1, FormsDiffer, RawFields DEF OnceInv, OnceFor
    <3>3. ~ IsWrapped(Raw(h), h)
      BY RawFields, FormsDiffer
    <3> QED  BY <1>1, <3>1, <3>2, <3>3
  <2>5. Through(h)' => Through(h)
    BY <2>2, <2>3, <2>4 DEF Through
  <2>6. ASSUME NEW y \in Ours(h)', IsWrapped(y, h)
        PROVE  /\ y.pkt.tlv = m.pkt.tlv
               /\ m.pkt.tlv = NoTlv => y = x
    BY <1>1, <2>1, <2>2, <2>6 DEF OnceInv, OnceFor
  <2>7. ASSUME NEW y \in Ours(h)', IsWrapped(y, h), Through(h)'
        PROVE  y.pkt.tlv # NoTlv /\ Remembers(h, y.pkt.tlv)'
    <3>1. m.pkt.tlv # NoTlv /\ Remembers(h, m.pkt.tlv)
      BY <1>1, <2>1, <2>5, <2>7 DEF OnceInv, OnceFor
    <3>2. m.pkt.tlv \in SeqNo
      BY <1>1, <3>1, WrappedNumber
    <3> QED  BY <1>2, <1>4, <2>6, <2>7, <3>1, <3>2
  <2>8. \A y \in Ours(h)' : IsStripped(y, h) => y \in Ours(h)
    BY <2>2, <2>3
  <2>9. /\ \A y, z \in Ours(h)' :
              IsStripped(y, h) /\ IsStripped(z, h) => y = z
        /\ \A y \in Ours(h)' : IsStripped(y, h) => arrived'[h.id] = << >>
        /\ Len(arrived'[h.id]) <= 1
    BY <1>1, <2>4, <2>8 DEF OnceInv, OnceFor
  <2>10. \A y, z \in Ours(h)' :
            IsWrapped(y, h) /\ IsWrapped(z, h) =>
                y.pkt.tlv = z.pkt.tlv /\ (y.pkt.tlv = NoTlv => y = z)
    BY <2>6
  <2> QED  BY <1>4, <2>4, <2>7, <2>9, <2>10 DEF OnceFor
<1> QED  BY <1>3, <1>4

LEMMA ReceivesOnce ==
    ASSUME IInv, OnceInv, NEW m \in inflight, HostReceives(m),
           NEW g \in HostPackets
    PROVE  OnceFor(g)'
<1>1. PICK h, got :
         /\ h \in HostPackets /\ IsStripped(m, h)
         /\ inflight' = inflight \ {m}
         /\ arrived' = [arrived EXCEPT ![h.id] = Append(@, got)]
         /\ UNCHANGED <<unsent, registers>>
  BY ReceivesStep
<1>2. \A n \in SeqNo : Remembers(g, n) => Remembers(g, n)'
  BY <1>1 DEF Remembers, registers
<1>3. Ours(g)' \subseteq Ours(g)
  BY <1>1 DEF Ours
<1>4. CASE g # h
  <2>1. g.id # h.id
    BY <1>1, <1>4, SameId
  <2>2. arrived'[g.id] = arrived[g.id]
    BY <1>1, <2>1
  <2> QED  BY <1>1, <1>2, <1>3, <2>2, OnceIsKept DEF OnceInv
<1>5. CASE g = h
  <2>1. m \in Ours(h) /\ m \notin Ours(h)'
    BY <1>1, FormsDiffer DEF Ours
  <2>2. Through(h)
    BY <1>1, <2>1 DEF Through
  <2>3. arrived[h.id] = << >> /\ h.id \in DOMAIN arrived
    BY <1>1, <2>1 DEF OnceInv, OnceFor, IInv, HistoriesInv, Ids
  <2>4. Len(arrived'[h.id]) <= 1
    <3>1. arrived'[h.id] = Append(<< >>, got)
      BY <1>1, <2>3
    <3>2. Append(<< >>, got) = <<got>>
      OBVIOUS
    <3> QED  BY <3>1, <3>2
  <2>5. \A y \in Ours(h)' : ~ IsStripped(y, h)
    BY <1>1, <1>3, <1>5, <2>1 DEF OnceInv, OnceFor
  <2>6. ASSUME NEW y \in Ours(h)', IsWrapped(y, h)
        PROVE  y.pkt.tlv # NoTlv /\ Remembers(h, y.pkt.tlv)'
    <3>1. y \in Ours(h)
      BY <1>3, <1>5
    <3>2. y.pkt.tlv # NoTlv /\ Remembers(h, y.pkt.tlv)
      BY <1>1, <2>2, <2>6, <3>1 DEF OnceInv, OnceFor
    <3>3. y.pkt.tlv \in SeqNo
      BY <1>1, <2>6, <3>2, WrappedNumber
    <3> QED  BY <1>2, <1>5, <3>2, <3>3
  <2>7. h \notin unsent' /\ Raw(h) \notin inflight'
    <3>1. h \notin unsent
      BY <1>1, <2>1 DEF OnceInv, OnceFor
    <3>2. Raw(h) \notin inflight
      BY <1>1, <2>1, NoHostAtEdge, FormsDiffer, RawFields
         DEF OnceInv, OnceFor
    <3> QED  BY <1>1, <3>1, <3>2
  <2>8. \A y, z \in Ours(h)' :
            IsWrapped(y, h) /\ IsWrapped(z, h) =>
                y.pkt.tlv = z.pkt.tlv /\ (y.pkt.tlv = NoTlv => y = z)
    BY <1>1, <1>3, <1>5 DEF OnceInv, OnceFor
  <2> QED  BY <1>5, <2>4, <2>5, <2>6, <2>7, <2>8 DEF OnceFor
<1> QED  BY <1>4, <1>5

\* Where copies meet the function at the far edge, and only there, a host gets
\* no packet twice, however many ports it was copied to.
THEOREM PacketsArriveOnce ==
    ASSUME LabIsWired, CopiesAreChecked
    PROVE  Spec => []ArrivesOnce
<1>1. Init => OnceInv
  <2> SUFFICES ASSUME Init, NEW h \in HostPackets PROVE OnceFor(h)
    BY DEF OnceInv
  <2>1. h.id \in Ids
    BY DEF Ids
  <2>2. Ours(h) = {} /\ inflight = {} /\ arrived[h.id] = << >>
    BY <2>1 DEF Init, Ours
  <2> QED  BY <2>2 DEF OnceFor
<1>2. IInv /\ OnceInv /\ [Next]_vars => OnceInv'
  <2> SUFFICES ASSUME IInv, OnceInv, [Next]_vars, NEW g \in HostPackets
               PROVE  OnceFor(g)'
    BY DEF OnceInv
  <2>1. ASSUME NEW h \in HostPackets, HostSends(h) PROVE OnceFor(g)'
    BY <2>1, SendsOnce
  <2>2. ASSUME NEW m \in inflight, EdgeSteers(m) PROVE OnceFor(g)'
    BY <2>2, SteersOnce
  <2>3. ASSUME NEW m \in inflight, EdgeEnds(m) PROVE OnceFor(g)'
    BY <2>3, EndsOnce
  <2>4. ASSUME NEW m \in inflight, EdgePasses(m) PROVE OnceFor(g)'
    <3>1. /\ \A y \in inflight' : y \in inflight
          /\ UNCHANGED <<unsent, registers, arrived>>
      BY <2>4, PassesStep
    <3>2. Ours(g)' \subseteq Ours(g)
      BY <3>1 DEF Ours
    <3>3. \A n \in SeqNo : Remembers(g, n) => Remembers(g, n)'
      BY <3>1 DEF Remembers, registers
    <3> QED  BY <3>1, <3>2, <3>3, OnceIsKept DEF OnceInv
  <2>5. ASSUME NEW m \in inflight, TransitForwards(m) PROVE OnceFor(g)'
    BY <2>5, TransitOnce
  <2>6. ASSUME NEW m \in inflight, HostReceives(m) PROVE OnceFor(g)'
    BY <2>6, ReceivesOnce
  <2>7. CASE UNCHANGED vars
    <3>1. Ours(g)' \subseteq Ours(g)
      BY <2>7 DEF vars, Ours
    <3>2. \A n \in SeqNo : Remembers(g, n) => Remembers(g, n)'
      BY <2>7 DEF vars, Remembers
    <3> QED  BY <2>7, <3>1, <3>2, OnceIsKept DEF vars, OnceInv
  <2> QED  BY <2>1, <2>2, <2>3, <2>4, <2>5, <2>6, <2>7 DEF Next
<1>3. OnceInv => ArrivesOnce
  BY DEF OnceInv, OnceFor, ArrivesOnce, Ids
<1> QED  BY <1>1, <1>2, <1>3, AlwaysIInv, PTL DEF Spec
-----------------------------------------------------------------------------
(***************************************************************************)
(* Where packets go.  A hop of h is a node, the destination h has there    *)
(* and the counter; Hops[h] holds the hops the tables lead h to.           *)
(***************************************************************************)
Hop(at, dst, left) == <<at, dst, left>>

\* The hop behind port p of its edge, and the one behind another hop.
FirstHop(h, p) ==
    Hop(Peer(NearEdge(h), p),
        IF Segment(h, p) # NoSegment THEN Segment(h, p) ELSE h.dst,
        CASE Live(h) /\ Segment(h, p) # NoSegment -> 1
          [] ~ Live(h) /\ Segment(h, p) = NoSegment -> 255
          [] OTHER -> 0)

NextHop(h, at, dst, left) ==
    LET entry == TransitEntry(at, dst)
        moves == entry.action = "srv6_seg_ep" /\ left = 1
    IN  Hop(Peer(at, entry.port),
            IF moves THEN Function(h) ELSE dst,
            IF moves THEN 0 ELSE left)

\* Hops holds all of them, and at an edge no segment is left.
TablesLead(Hops) ==
    \A h \in HostPackets :
        /\ \A p \in WiredPorts(h) : FirstHop(h, p) \in Hops[h]
        /\ \A at, dst, left : Hop(at, dst, left) \in Hops[h] =>
              IF at \in Edges
              THEN left = 0
              ELSE \/ NextHop(h, at, dst, left) \in Hops[h]
                   \/ Peer(at, TransitEntry(at, dst).port) = Nowhere

\* Hops never leads to a port with nothing behind it.
TablesReach(Hops) ==
    \A h \in HostPackets :
        /\ \A p \in Entry(h).ports : Peer(NearEdge(h), p) # Nowhere
        /\ \A at, dst, left : Hop(at, dst, left) \in Hops[h] =>
              IF at \in Edges
              THEN Peer(at, HostPort(at, h.dst)) # Nowhere
              ELSE Peer(at, TransitEntry(at, dst).port) # Nowhere

OnRoute(Hops) ==
    \A m \in inflight : \A h \in HostPackets :
        IsWrapped(m, h) => Hop(m.at, m.pkt.dst, m.pkt.left) \in Hops[h]

LEMMA CopyIsOnRoute ==
    ASSUME NEW Hops, TablesLead(Hops), NEW h \in HostPackets,
           NEW p \in WiredPorts(h), NEW seq \in SeqNo,
           NEW x, x = Copy(h, p, seq)
    PROVE  Hop(x.at, x.pkt.dst, x.pkt.left) \in Hops[h]
<1>1. PICK list, left, dst, tlv :
         /\ x.at = Peer(NearEdge(h), p)
         /\ x.pkt.dst = dst /\ x.pkt.left = left
         /\ Shape(h, p, list, left, dst, tlv)
         /\ left = CounterOf(list)
  BY CopyFields
<1>2. /\ CounterOf(None) = 255
      /\ CounterOf(Two(Function(h), Segment(h, p))) = 1
  BY Lists
<1>3. left = CASE Live(h) /\ Segment(h, p) # NoSegment -> 1
               [] ~ Live(h) /\ Segment(h, p) = NoSegment -> 255
               [] OTHER -> 0
  BY <1>1, <1>2 DEF Shape
<1>4. dst = IF Segment(h, p) # NoSegment THEN Segment(h, p) ELSE h.dst
  BY <1>1, <1>2 DEF Shape
<1>5. Hop(x.at, dst, left) = FirstHop(h, p)
  BY <1>1, <1>3, <1>4 DEF FirstHop
<1> QED  BY <1>1, <1>5 DEF TablesLead

LEMMA RouteStep ==
    ASSUME NEW Hops, TablesLead(Hops), LabIsWired, IInv, OnRoute(Hops),
           [Next]_vars
    PROVE  OnRoute(Hops)'
<1> SUFFICES ASSUME NEW y \in inflight', NEW h \in HostPackets,
                    IsWrapped(y, h), y \notin inflight
             PROVE  Hop(y.at, y.pkt.dst, y.pkt.left) \in Hops[h]
  BY DEF OnRoute
<1>1. ASSUME NEW g \in HostPackets, HostSends(g)
      PROVE  Hop(y.at, y.pkt.dst, y.pkt.left) \in Hops[h]
  <2>1. y = Raw(g)
    BY <1>1 DEF HostSends, Raw, NearEdge
  <2> QED  BY <2>1, RawFields, FormsDiffer
<1>2. ASSUME NEW m \in inflight, EdgeSteers(m)
      PROVE  Hop(y.at, y.pkt.dst, y.pkt.left) \in Hops[h]
  <2>1. PICK g, ports, seq :
           /\ g \in HostPackets /\ ports \in SUBSET Entry(g).ports
           /\ seq \in SeqNo
           /\ \A x \in inflight' :
                 \/ x \in inflight
                 \/ \E p \in ports : Peer(NearEdge(g), p) # Nowhere
                                      /\ x = Copy(g, p, seq)
    BY <1>2, SteersStep
  <2>2. PICK p \in WiredPorts(g) : y = Copy(g, p, seq)
    BY <2>1 DEF WiredPorts
  <2>3. g = h
    BY <2>1, <2>2, CopyFields, FormsDiffer, SameId
  <2> QED  BY <2>1, <2>2, <2>3, CopyIsOnRoute
<1>3. ASSUME NEW m \in inflight, EdgeEnds(m)
      PROVE  Hop(y.at, y.pkt.dst, y.pkt.left) \in Hops[h]
  <2>1. PICK g \in HostPackets :
           /\ IsWrapped(m, g) /\ m.at \in Edges
           /\ y = Delivery(m, g) /\ Delivery(m, g).at # Nowhere
    BY <1>3, EndsStep
  <2>2. IsStripped(y, g)
    BY <2>1, DeliveryIsStripped DEF IsWrapped
  <2> QED  BY <2>2, FormsDiffer
<1>4. ASSUME NEW m \in inflight, EdgePasses(m)
      PROVE  Hop(y.at, y.pkt.dst, y.pkt.left) \in Hops[h]
  BY <1>4, PassesStep
<1>5. ASSUME NEW m \in inflight, TransitForwards(m)
      PROVE  Hop(y.at, y.pkt.dst, y.pkt.left) \in Hops[h]
  <2>1. PICK g, x :
           LET entry == TransitEntry(m.at, m.pkt.dst)
           IN  /\ g \in HostPackets
               /\ IsWrapped(m, g) /\ m.at \notin Edges \cup Hosts
               /\ x.at = Peer(m.at, entry.port)
               /\ x.pkt.id = g.id
               /\ x.pkt.left = IF MovesOn(m, g) THEN 0 ELSE m.pkt.left
               /\ x.pkt.dst = IF MovesOn(m, g) THEN Function(g)
                                               ELSE m.pkt.dst
               /\ \A z \in inflight' :
                     \/ z \in inflight
                     \/ z = x /\ x.at # Nowhere
    BY <1>5, TransitStep
  <2>2. y = x /\ x.at # Nowhere
    BY <2>1
  <2>3. g = h
    BY <2>1, <2>2, FormsDiffer, SameId
  <2>4. Hop(m.at, m.pkt.dst, m.pkt.left) \in Hops[h]
    BY <2>1, <2>3 DEF OnRoute
  <2>5. NextHop(h, m.at, m.pkt.dst, m.pkt.left) \in Hops[h]
    BY <2>1, <2>2, <2>4 DEF TablesLead
  <2>6. NextHop(h, m.at, m.pkt.dst, m.pkt.left)
          = Hop(y.at, y.pkt.dst, y.pkt.left)
    BY <2>1, <2>2, <2>3 DEF NextHop, MovesOn
  <2> QED  BY <2>5, <2>6
<1>6. ASSUME NEW m \in inflight, HostReceives(m)
      PROVE  Hop(y.at, y.pkt.dst, y.pkt.left) \in Hops[h]
  BY <1>6, ReceivesStep
<1>7. CASE UNCHANGED vars
  BY <1>7 DEF vars
<1> QED  BY <1>1, <1>2, <1>3, <1>4, <1>5, <1>6, <1>7 DEF Next

LEMMA AlwaysOnRoute ==
    ASSUME NEW Hops, TablesLead(Hops), LabIsWired
    PROVE  Spec => []OnRoute(Hops)
<1>1. Init => OnRoute(Hops)
  BY DEF Init, OnRoute
<1>2. IInv /\ OnRoute(Hops) /\ [Next]_vars => OnRoute(Hops)'
  BY RouteStep
<1> QED  BY <1>1, <1>2, AlwaysIInv, PTL DEF Spec

\* Where the tables lead every packet to an edge with no segment left, and no
\* segment is a function, the far edge meets a function exactly with a TLV.
THEOREM FunctionsMeetTheirTlv ==
    ASSUME NEW CONSTANT Hops, TablesLead(Hops), LabIsWired,
           \A h \in HostPackets : \A p \in WiredPorts(h) :
               Segment(h, p) \notin {FunctionOf(e) : e \in Edges}
    PROVE  Spec => []FunctionMeetsTlv
<1>1. IInv /\ OnRoute(Hops) => FunctionMeetsTlv
  <2> SUFFICES ASSUME IInv, OnRoute(Hops), NEW m \in Travelling,
                      m.at \in Edges
               PROVE  /\ m.pkt.left = 0
                      /\ m.pkt.tlv # NoTlv <=>
                           Head(m.pkt.list) \in {FunctionOf(e) : e \in Edges}
    BY DEF FunctionMeetsTlv
  <2>1. m \in inflight /\ m.pkt.srv6
    BY DEF Travelling
  <2>2. PICK h \in HostPackets : IsWrapped(m, h)
    BY <2>1, WrappedBetween, NoHostAtEdge
  <2>3. m.pkt.left = 0
    BY <2>1, <2>2 DEF OnRoute, TablesLead
  <2>4. PICK p \in WiredPorts(h) :
           Shape(h, p, m.pkt.list, m.pkt.left, m.pkt.dst, m.pkt.tlv)
    BY <2>2 DEF IsWrapped
  <2>5. \/ Live(h) /\ Head(m.pkt.list) = Function(h) /\ m.pkt.tlv \in SeqNo
        \/ ~ Live(h) /\ Head(m.pkt.list) = Segment(h, p) /\ m.pkt.tlv = NoTlv
    BY <2>3, <2>4, HeadOfShape
  <2>6. Function(h) \in {FunctionOf(e) : e \in Edges}
    BY RawFields DEF Function
  <2>7. NoTlv \notin SeqNo
    BY LabAssumption
  <2> QED  BY <2>3, <2>5, <2>6, <2>7
<1> QED  BY <1>1, AlwaysIInv, AlwaysOnRoute, PTL

LEMMA StrandsNothing ==
    ASSUME NEW Hops, TablesLead(Hops), TablesReach(Hops), LabIsWired, IInv,
           OnRoute(Hops), [Next]_vars
    PROVE  stranded' \subseteq stranded
<1> SUFFICES ASSUME NEW y \in stranded', y \notin stranded PROVE FALSE
  OBVIOUS
<1>1. ASSUME NEW h \in HostPackets, HostSends(h) PROVE FALSE
  BY <1>1 DEF HostSends
<1>2. ASSUME NEW m \in inflight, EdgeSteers(m) PROVE FALSE
  <2>1. PICK h, p :
           /\ h \in HostPackets /\ p \in Entry(h).ports
           /\ Peer(NearEdge(h), p) = Nowhere
    BY <1>2, SteersStep
  <2> QED  BY <2>1 DEF TablesReach
<1>3. ASSUME NEW m \in inflight, EdgeEnds(m) PROVE FALSE
  <2>1. PICK h \in HostPackets :
           /\ IsWrapped(m, h) /\ m.at \in Edges
           /\ Delivery(m, h).at = Nowhere
    BY <1>3, EndsStep
  <2>2. Hop(m.at, m.pkt.dst, m.pkt.left) \in Hops[h]
    BY <2>1 DEF OnRoute
  <2> QED  BY <2>1, <2>2, DeliveryFields DEF TablesReach
<1>4. ASSUME NEW m \in inflight, EdgePasses(m) PROVE FALSE
  <2>1. PICK h \in HostPackets :
           IsWrapped(m, h) /\ m.at \in Edges /\ m.pkt.left # 0
    BY <1>4, PassesStep
  <2>2. Hop(m.at, m.pkt.dst, m.pkt.left) \in Hops[h]
    BY <2>1 DEF OnRoute
  <2> QED  BY <2>1, <2>2 DEF TablesLead
<1>5. ASSUME NEW m \in inflight, TransitForwards(m) PROVE FALSE
  <2>1. PICK h \in HostPackets :
           /\ IsWrapped(m, h) /\ m.at \notin Edges
           /\ Peer(m.at, TransitEntry(m.at, m.pkt.dst).port) = Nowhere
    BY <1>5, TransitStep
  <2>2. Hop(m.at, m.pkt.dst, m.pkt.left) \in Hops[h]
    BY <2>1 DEF OnRoute
  <2> QED  BY <2>1, <2>2 DEF TablesReach
<1>6. ASSUME NEW m \in inflight, HostReceives(m) PROVE FALSE
  BY <1>6, ReceivesStep
<1>7. CASE UNCHANGED vars
  BY <1>7 DEF vars
<1> QED  BY <1>1, <1>2, <1>3, <1>4, <1>5, <1>6, <1>7 DEF Next

\* Where the tables lead every packet on, no switch sends one out of a port
\* with nothing behind it.
THEOREM NothingIsStranded ==
    ASSUME NEW CONSTANT Hops, TablesLead(Hops), TablesReach(Hops), LabIsWired
    PROVE  Spec => []NothingStranded
<1>1. Init => NothingStranded
  BY DEF Init, NothingStranded
<1>2. /\ IInv /\ OnRoute(Hops) /\ NothingStranded /\ [Next]_vars
      => NothingStranded'
  BY StrandsNothing DEF NothingStranded
<1> QED  BY <1>1, <1>2, AlwaysIInv, AlwaysOnRoute, PTL DEF Spec
=============================================================================
