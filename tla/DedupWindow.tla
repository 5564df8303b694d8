----------------------------- MODULE DedupWindow -----------------------------
(***************************************************************************)
(* The arithmetic of the live-live de-duplication window, lines 133-165 of *)
(* p4src/srv6_livelive.p4, as pure operators.  The bitmap register is the  *)
(* set of the positions of its one bits: bit i of flow_to_bitmap stands    *)
(* for sequence number flow_window_start + i.  All of the arithmetic is    *)
(* that of the source's bit<16> and bit<8> values, so it wraps.            *)
(***************************************************************************)
EXTENDS Integers

CONSTANTS
    WINDOW_SIZE,    \* bits in a bitmap register: 64 in the source
    IDX_MOD,        \* values of shift_idx and window_idx, bit<8>: 256
    SEQ_MOD         \* values of a sequence number, bit<16>: 65536

ASSUME WindowAssumption ==
    /\ WINDOW_SIZE \in Nat \ {0}
    /\ IDX_MOD \in Nat
    /\ SEQ_MOD \in Nat
    /\ WINDOW_SIZE <= IDX_MOD
    /\ IDX_MOD <= SEQ_MOD

SeqNo == 0 .. SEQ_MOD - 1
Index == 0 .. WINDOW_SIZE - 1

\* Mutant: a sequence number that does not wrap.
ToSeqNoWide(n) == n

\* The two conversions of the source: to bit<16>, and to bit<8>.
ToSeqNo(n) == n % SEQ_MOD
ToIdx(n) == n % IDX_MOD

\* seq_n > start_value + (WINDOW_SIZE - 1): the packet is past the window.
Ahead(start, s) == s > ToSeqNo(start + (WINDOW_SIZE - 1))

\* Mutants: the else-if is missing, or spares the number below the window.
BehindNever(start, s) == FALSE
BehindOffByOne(start, s) == ~ Ahead(start, s) /\ s < start - 1

\* The else-if of the window test: the packet is too old for the window.
Behind(start, s) == ~ Ahead(start, s) /\ s < start

\* The distance the window has to slide, as its bit<16> value and as the
\* bit<8> value the code keeps of it.
Jump(start, s) == ToSeqNo(s - (WINDOW_SIZE - 1) - start)
ShiftIdx(start, s) == ToIdx(Jump(start, s))

\* Mutant: a slide of one less than the distance.
SlidOneLess(bitmap, k) == {i \in Index : (i + k) - 1 \in bitmap}

\* curr_bitmap >> k, with the code's own test for a shift past the bitmap.
Slid(bitmap, k) ==
    IF k > WINDOW_SIZE - 1 THEN {} ELSE {i \in Index : i + k \in bitmap}

\* Mutants: the packet becomes the start of the window, or the window is
\* placed for every packet.
PlacedStartAtPacket(start, s) == IF Ahead(start, s) THEN s ELSE start
PlacedStartAlways(start, s) == s - (WINDOW_SIZE - 1)

\* start_value and curr_bitmap once the window has been placed for s.
PlacedStart(start, s) ==
    IF Ahead(start, s) THEN ToSeqNo(s - (WINDOW_SIZE - 1)) ELSE start

PlacedBitmap(start, bitmap, s) ==
    IF Ahead(start, s) THEN Slid(bitmap, ShiftIdx(start, s)) ELSE bitmap

\* The position of s in the placed window.  A shift of 1 by more than the
\* width of the bitmap leaves no bit, hence the intersection with Index.
WindowIdx(start, s) == ToIdx(ToSeqNo(s - PlacedStart(start, s)))
IdxBitmask(start, s) == {WindowIdx(start, s)} \cap Index

\* Mutant: the bit is read from the bitmap before it slides.
AlreadyReceivedStale(start, bitmap, s) == WindowIdx(start, s) \in bitmap

AlreadyReceived(start, bitmap, s) ==
    WindowIdx(start, s) \in PlacedBitmap(start, bitmap, s)

\* The branch of mark_to_drop, and the branch that sets the bit and decaps.
Refused(start, bitmap, s) ==
    AlreadyReceived(start, bitmap, s) \/ Behind(start, s)

\* The two registers after the packet: flow_window_start is written inside
\* the Ahead branch whatever happens next, flow_to_bitmap only on acceptance.
NextStart(start, s) == PlacedStart(start, s)

\* Mutant: the slide is written back without the bit of the packet.
NextBitmapUnmarked(start, bitmap, s) ==
    IF Refused(start, bitmap, s)
    THEN bitmap
    ELSE PlacedBitmap(start, bitmap, s)

NextBitmap(start, bitmap, s) ==
    IF Refused(start, bitmap, s)
    THEN bitmap
    ELSE PlacedBitmap(start, bitmap, s) \cup IdxBitmask(start, s)

\* A slide whose bit<8> distance is not its real distance and is small enough
\* to keep bits of the old bitmap: those bits now stand for other packets.
Aliases(start, s) ==
    /\ Ahead(start, s)
    /\ ShiftIdx(start, s) # Jump(start, s)
    /\ ShiftIdx(start, s) < WINDOW_SIZE
==============================================================================
