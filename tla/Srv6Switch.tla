----------------------------- MODULE Srv6Switch -----------------------------
(***************************************************************************)
(* What the two P4 programs do to one packet, as operators: the edge       *)
(* program p4src/srv6_livelive.p4, the transit program                     *)
(* p4src/srv6_forward.p4, and the parser and deparser they share.          *)
(*                                                                         *)
(* A packet is the record of the headers the programs read or write:       *)
(*   dst, len     destination and payload_len of the first IPv6 header     *)
(*   srv6         whether the segment routing header is there; if so       *)
(*   list         its segments, srv6_list[0] first                         *)
(*   left, last   segment_left and last_entry, bit<8>                      *)
(*   tlv          the sequence number of the live-live TLV (tag is 1), or  *)
(*                NoTlv (tag is 0)                                         *)
(*   inner        [dst, len] of the inner IPv6 header, or NoInner          *)
(*   proto        the transport header: "tcp", "udp" or "other"            *)
(*   stamp        the number written over the first bytes of the payload,  *)
(*                or NoStamp                                               *)
(*   id           the payload, one value for every packet of a host        *)
(***************************************************************************)
EXTENDS DedupWindow, Sequences

CONSTANTS NoTlv, NoInner, NoStamp, NoSegment, Unspecified

\* minSizeInBytes of the headers, and a payload.
Ipv6Bytes == 40
Srv6Bytes == 8
SegmentBytes == 16
TlvBytes == 8
PayloadBytes == 20

ToByte(n) == n % 256

\* The bytes a packet really has behind its first IPv6 header.
BytesOf(pkt) ==
    (IF pkt.srv6 THEN Srv6Bytes + SegmentBytes * Len(pkt.list) ELSE 0)
    + (IF pkt.tlv # NoTlv THEN TlvBytes ELSE 0)
    + (IF pkt.inner # NoInner THEN Ipv6Bytes ELSE 0)
    + PayloadBytes

\* A packet as a host sends it; inner is another header of the host's own.
HostPacket(id, dst, proto, inner) ==
    LET bare == [dst |-> dst, len |-> 0, srv6 |-> FALSE, list |-> << >>,
                 left |-> 0, last |-> 0, tlv |-> NoTlv, inner |-> inner,
                 proto |-> proto, stamp |-> NoStamp, id |-> id]
    IN  [bare EXCEPT !.len = BytesOf(bare)]
-----------------------------------------------------------------------------
\* The edge program, ingress.

\* The host packets the edge steers; it drops the others.
Steered(pkt) == pkt.proto \in {"tcp", "udp"} \/ pkt.inner # NoInner

\* Mutant: payload_len is not charged for the segment routing header.
EncapsulatedShort(pkt) ==
    [pkt EXCEPT !.len = @ + Ipv6Bytes,
                !.srv6 = TRUE, !.left = 0, !.last = 0, !.tlv = NoTlv,
                !.inner = [dst |-> pkt.dst, len |-> pkt.len]]

\* Mutant: a header the host put there itself is kept.
EncapsulatedKeepsInner(pkt) ==
    [pkt EXCEPT !.len = @ + Ipv6Bytes + Srv6Bytes,
                !.srv6 = TRUE, !.left = 0, !.last = 0, !.tlv = NoTlv,
                !.inner = IF @ # NoInner THEN @
                          ELSE [dst |-> pkt.dst, len |-> pkt.len]]

\* encapsulate_srv6: the first header is copied to the inner one, over the
\* one a host may have put there itself.
Encapsulated(pkt) ==
    [pkt EXCEPT !.len = @ + Ipv6Bytes + Srv6Bytes,
                !.srv6 = TRUE, !.left = 0, !.last = 0, !.tlv = NoTlv,
                !.inner = [dst |-> pkt.dst, len |-> pkt.len]]

\* Mutant: the outer length survives the outer header.
DecapsulatedLong(pkt) ==
    [pkt EXCEPT !.dst = pkt.inner.dst,
                !.srv6 = FALSE, !.list = << >>, !.left = 0, !.last = 0,
                !.tlv = NoTlv, !.inner = NoInner]

\* The outer headers are set invalid and the deparser emits the rest: the
\* inner header is the first one of the packet that leaves.
Decapsulated(pkt) ==
    [pkt EXCEPT !.dst = pkt.inner.dst, !.len = pkt.inner.len,
                !.srv6 = FALSE, !.list = << >>, !.left = 0, !.last = 0,
                !.tlv = NoTlv, !.inner = NoInner]

\* The edge program, egress, for a packet with segment routing header.

\* Mutant: the segment is pushed, the destination stays.
WithDestSegmentOnly(pkt, dst) ==
    IF dst = NoSegment
    THEN pkt
    ELSE [pkt EXCEPT !.list = <<dst>> \o @, !.len = @ + SegmentBytes]

\* add_srv6_dest_segment, if the port has an entry.
WithDestSegment(pkt, dst) ==
    IF dst = NoSegment
    THEN pkt
    ELSE [pkt EXCEPT !.dst = dst, !.list = <<dst>> \o @,
                     !.len = @ + SegmentBytes]

\* Mutants: the TLV is missing in payload_len, or missing altogether.
WithFunctionShort(pkt, func, seq) ==
    [pkt EXCEPT !.list = <<func>> \o @, !.tlv = seq,
                !.len = @ + SegmentBytes,
                !.stamp = IF pkt.proto = "udp" THEN seq ELSE @]
WithFunctionNoTlv(pkt, func, seq) ==
    [pkt EXCEPT !.list = <<func>> \o @, !.len = @ + SegmentBytes]

\* add_srv6_ll_segment, for the copies of a multicast group: the number from
\* the bridge header goes to the TLV and over the first bytes of UDP payload.
WithFunction(pkt, func, seq) ==
    [pkt EXCEPT !.list = <<func>> \o @, !.tlv = seq,
                !.len = @ + SegmentBytes + TlvBytes,
                !.stamp = IF pkt.proto = "udp" THEN seq ELSE @]

\* Mutant: the counters are the number of segments.
CountedOneMore(pkt) ==
    IF pkt.srv6
    THEN [pkt EXCEPT !.left = Len(pkt.list), !.last = Len(pkt.list)]
    ELSE pkt

\* The end of the egress: n_segments - 1 in eight bits.
Counted(pkt) ==
    IF pkt.srv6
    THEN [pkt EXCEPT !.left = ToByte(Len(pkt.list) - 1),
                     !.last = ToByte(Len(pkt.list) - 1)]
    ELSE pkt
-----------------------------------------------------------------------------
\* The transit program.

\* Mutant: the counter is compared to the number of segments read, not to the
\* index of the last of them.
NextSidTooEarly(pkt) ==
    IF pkt.left - 1 \in 1 .. Len(pkt.list)
    THEN pkt.list[pkt.left - 1]
    ELSE Unspecified

\* The parser walks the segments up to last_entry and remembers the one at
\* index segment_left - 1; the metadata is zero if there is none.
NextSid(pkt) ==
    IF pkt.left \in 1 .. Len(pkt.list) /\ pkt.left - 1 <= pkt.last
    THEN pkt.list[pkt.left]
    ELSE Unspecified

\* Mutant: the destination moves on, the counter stays.
AtEndpointStays(pkt) ==
    IF pkt.left > 0 THEN [pkt EXCEPT !.dst = NextSid(pkt)] ELSE pkt

\* srv6_seg_ep moves on to the next segment, srv6_noop only forwards.
AtEndpoint(pkt) ==
    IF pkt.left > 0
    THEN [pkt EXCEPT !.dst = NextSid(pkt), !.left = @ - 1]
    ELSE pkt
=============================================================================
