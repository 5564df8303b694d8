-------------------------- MODULE DedupWindowProofs --------------------------
(***************************************************************************)
(* Lemmas about the window arithmetic, for every width of the window, of   *)
(* the shift and of the sequence numbers that meets WindowAssumption.      *)
(***************************************************************************)
EXTENDS DedupWindow, TLAPS

\* A value that fits its width is not changed by the conversion to it.
LEMMA ModFits == ASSUME NEW m \in Nat \ {0}, NEW n \in 0 .. m - 1
                 PROVE  n % m = n
OBVIOUS

LEMMA ModRange == ASSUME NEW m \in Nat \ {0}, NEW n \in Int
                  PROVE  n % m \in 0 .. m - 1
OBVIOUS

\* A window that fits below the largest number; the only ones there are.
Placeable(start) == start \in Nat /\ start + WINDOW_SIZE <= SEQ_MOD

LEMMA PlaceableInRange ==
    ASSUME NEW start, Placeable(start)
    PROVE  start \in SeqNo
BY WindowAssumption DEF Placeable, SeqNo

LEMMA AheadMeaning ==
    ASSUME NEW start, Placeable(start), NEW s \in SeqNo
    PROVE  Ahead(start, s) <=> s > start + (WINDOW_SIZE - 1)
<1>1. start + (WINDOW_SIZE - 1) \in 0 .. SEQ_MOD - 1
  BY WindowAssumption DEF Placeable
<1>2. ToSeqNo(start + (WINDOW_SIZE - 1)) = start + (WINDOW_SIZE - 1)
  BY <1>1, ModFits, WindowAssumption DEF ToSeqNo
<1> QED  BY <1>2 DEF Ahead

LEMMA JumpMeaning ==
    ASSUME NEW start, Placeable(start), NEW s \in SeqNo, Ahead(start, s)
    PROVE  /\ Jump(start, s) = s - (WINDOW_SIZE - 1) - start
           /\ Jump(start, s) \in Nat \ {0}
           /\ PlacedStart(start, s) = start + Jump(start, s)
           /\ PlacedStart(start, s) = s - (WINDOW_SIZE - 1)
<1>1. s > start + (WINDOW_SIZE - 1)
  BY AheadMeaning
<1>2. /\ s - (WINDOW_SIZE - 1) - start \in 0 .. SEQ_MOD - 1
      /\ s - (WINDOW_SIZE - 1) \in 0 .. SEQ_MOD - 1
  BY <1>1, WindowAssumption DEF Placeable, SeqNo
<1>3. /\ Jump(start, s) = s - (WINDOW_SIZE - 1) - start
      /\ PlacedStart(start, s) = s - (WINDOW_SIZE - 1)
  BY <1>2, ModFits, WindowAssumption DEF Jump, ToSeqNo, PlacedStart
<1> QED  BY <1>1, <1>3, WindowAssumption DEF Placeable, SeqNo

\* A packet that is not too old has a place of its own in the placed window.
LEMMA IdxMeaning ==
    ASSUME NEW start, Placeable(start), NEW s \in SeqNo, ~ Behind(start, s)
    PROVE  /\ WindowIdx(start, s) = s - PlacedStart(start, s)
           /\ WindowIdx(start, s) \in Index
           /\ IdxBitmask(start, s) = {WindowIdx(start, s)}
<1>1. PlacedStart(start, s) \in Nat /\ s - PlacedStart(start, s) \in Index
  <2>1. CASE Ahead(start, s)
    <3>1. PlacedStart(start, s) = s - (WINDOW_SIZE - 1)
      BY <2>1, JumpMeaning
    <3>2. s > start + (WINDOW_SIZE - 1)
      BY <2>1, AheadMeaning
    <3> QED  BY <3>1, <3>2, WindowAssumption DEF Placeable, SeqNo, Index
  <2>2. CASE ~ Ahead(start, s)
    <3>1. s >= start /\ s <= start + (WINDOW_SIZE - 1)
      BY <2>2, AheadMeaning, WindowAssumption DEF Behind, Placeable, SeqNo
    <3> QED  BY <2>2, <3>1, WindowAssumption
             DEF PlacedStart, Placeable, SeqNo, Index
  <2> QED  BY <2>1, <2>2
<1>2. ToSeqNo(s - PlacedStart(start, s)) = s - PlacedStart(start, s)
  <2>1. s - PlacedStart(start, s) \in 0 .. SEQ_MOD - 1
    BY <1>1, WindowAssumption DEF Index
  <2> QED  BY <2>1, ModFits, WindowAssumption DEF ToSeqNo
<1>3. ToIdx(s - PlacedStart(start, s)) = s - PlacedStart(start, s)
  <2>1. s - PlacedStart(start, s) \in 0 .. IDX_MOD - 1
    BY <1>1, WindowAssumption DEF Index
  <2> QED  BY <2>1, ModFits, WindowAssumption DEF ToIdx
<1> QED  BY <1>1, <1>2, <1>3 DEF WindowIdx, IdxBitmask

\* Truncation leaves a slide alone, or the slide passes the whole bitmap.
LEMMA ShiftMeaning ==
    ASSUME NEW start, Placeable(start), NEW s \in SeqNo, Ahead(start, s)
    PROVE  /\ ShiftIdx(start, s) \in Nat
           /\ \/ ShiftIdx(start, s) = Jump(start, s)
              \/ Jump(start, s) >= IDX_MOD
<1>1. Jump(start, s) \in Nat
  BY JumpMeaning
<1>2. ShiftIdx(start, s) \in Nat
  BY <1>1, ModRange, WindowAssumption DEF ShiftIdx, ToIdx
<1>3. CASE Jump(start, s) < IDX_MOD
  <2>1. Jump(start, s) \in 0 .. IDX_MOD - 1
    BY <1>1, <1>3, WindowAssumption
  <2> QED  BY <1>2, <2>1, ModFits, WindowAssumption DEF ShiftIdx, ToIdx
<1>4. CASE ~ (Jump(start, s) < IDX_MOD)
  BY <1>1, <1>2, <1>4, WindowAssumption
<1> QED  BY <1>3, <1>4

\* The one way a packet past the window is refused: the slide is a multiple
\* of IDX_MOD, so its truncation is no slide at all.
LEMMA RefusedAhead ==
    ASSUME NEW start, Placeable(start), NEW s \in SeqNo, Ahead(start, s),
           NEW bitmap \in SUBSET Index, Refused(start, bitmap, s)
    PROVE  ShiftIdx(start, s) = 0 /\ Aliases(start, s)
<1>1. WindowIdx(start, s) \in Slid(bitmap, ShiftIdx(start, s))
  BY DEF Refused, Behind, AlreadyReceived, PlacedBitmap
<1>2. ~ (ShiftIdx(start, s) > WINDOW_SIZE - 1)
      /\ WindowIdx(start, s) + ShiftIdx(start, s) \in bitmap
  BY <1>1 DEF Slid
<1>3. WindowIdx(start, s) = WINDOW_SIZE - 1
  BY IdxMeaning, JumpMeaning, WindowAssumption DEF Behind, SeqNo
<1>4. ShiftIdx(start, s) = 0
  BY <1>2, <1>3, ShiftMeaning, WindowAssumption DEF Index
<1> QED  BY <1>4, JumpMeaning, WindowAssumption DEF Aliases

\* The registers keep their shape, and the window does not move back.
LEMMA NextRegisters ==
    ASSUME NEW start, Placeable(start), NEW s \in SeqNo,
           NEW bitmap \in SUBSET Index
    PROVE  /\ Placeable(NextStart(start, s))
           /\ NextStart(start, s) >= start
           /\ NextBitmap(start, bitmap, s) \in SUBSET Index
<1>1. Placeable(PlacedStart(start, s)) /\ PlacedStart(start, s) >= start
  <2>1. CASE Ahead(start, s)
    <3>1. /\ PlacedStart(start, s) = s - (WINDOW_SIZE - 1)
          /\ s > start + (WINDOW_SIZE - 1)
      BY <2>1, JumpMeaning, AheadMeaning
    <3> QED  BY <3>1, WindowAssumption DEF Placeable, SeqNo
  <2>2. CASE ~ Ahead(start, s)
    BY <2>2 DEF PlacedStart, Placeable
  <2> QED  BY <2>1, <2>2
<1>2. PlacedBitmap(start, bitmap, s) \in SUBSET Index
  BY DEF PlacedBitmap, Slid
<1>3. IdxBitmask(start, s) \in SUBSET Index
  BY DEF IdxBitmask
<1> QED  BY <1>1, <1>2, <1>3 DEF NextStart, NextBitmap

\* Nothing is forgotten: what the registers hold as seen, they hold as seen
\* after the next packet, whichever branch it takes and however far it slides.
Seen(start, bitmap, n) == n < start \/ n - start \in bitmap

LEMMA NextRemembers ==
    ASSUME NEW start, Placeable(start), NEW s \in SeqNo,
           NEW bitmap \in SUBSET Index, NEW n \in SeqNo, Seen(start, bitmap, n)
    PROVE  Seen(NextStart(start, s), NextBitmap(start, bitmap, s), n)
<1>1. CASE ~ Ahead(start, s)
  BY <1>1 DEF NextStart, NextBitmap, PlacedStart, PlacedBitmap, Seen
<1>2. CASE Ahead(start, s)
  <2> DEFINE j == Jump(start, s)
             k == ShiftIdx(start, s)
  <2>1. j \in Nat \ {0} /\ NextStart(start, s) = start + j
    BY <1>2, JumpMeaning DEF NextStart
  <2>2. k \in Nat /\ (k = j \/ j >= IDX_MOD)
    BY <1>2, ShiftMeaning
  <2>3. n < start + WINDOW_SIZE
    BY WindowAssumption DEF Seen, Index, Placeable, SeqNo
  <2>4. CASE j >= IDX_MOD
    <3>1. n < start + j
      BY <2>1, <2>3, <2>4, WindowAssumption DEF Placeable, SeqNo
    <3> QED  BY <2>1, <3>1 DEF Seen
  <2>5. CASE k = j
    <3>1. ~ Refused(start, bitmap, s)
      BY <1>2, <2>1, <2>5, RefusedAhead
    <3>2. NextBitmap(start, bitmap, s)
            = Slid(bitmap, k) \cup IdxBitmask(start, s)
      BY <1>2, <3>1 DEF NextBitmap, PlacedBitmap
    <3>3. CASE n < start + j
      BY <2>1, <3>3 DEF Seen
    <3>4. CASE ~ (n < start + j)
      <4>1. n - start \in bitmap
        BY <2>1, <3>4 DEF Seen, Placeable, SeqNo
      <4>2. n - (start + j) \in Index /\ (n - (start + j)) + j = n - start
        BY <2>1, <2>3, <3>4, <4>1, WindowAssumption
        DEF Index, Placeable, SeqNo
      <4>3. ~ (k > WINDOW_SIZE - 1)
        BY <2>1, <2>3, <2>5, <3>4, WindowAssumption
        DEF Placeable, SeqNo
      <4>4. n - (start + j) \in Slid(bitmap, k)
        BY <2>5, <4>1, <4>2, <4>3 DEF Slid
      <4> QED  BY <2>1, <3>2, <4>4 DEF Seen
    <3> QED  BY <3>3, <3>4
  <2> QED  BY <2>2, <2>4, <2>5
<1> QED  BY <1>1, <1>2

\* A forwarded packet was not seen before, and is seen from then on.
LEMMA AcceptedIsFresh ==
    ASSUME NEW start, Placeable(start), NEW s \in SeqNo,
           NEW bitmap \in SUBSET Index, ~ Refused(start, bitmap, s)
    PROVE  /\ ~ Seen(start, bitmap, s)
           /\ Seen(NextStart(start, s), NextBitmap(start, bitmap, s), s)
<1>1. ~ Behind(start, s) /\ ~ AlreadyReceived(start, bitmap, s)
  BY DEF Refused
<1>2. /\ WindowIdx(start, s) = s - NextStart(start, s)
      /\ WindowIdx(start, s) \in NextBitmap(start, bitmap, s)
  BY <1>1, IdxMeaning DEF NextStart, NextBitmap
<1>3. ~ Seen(start, bitmap, s)
  <2>1. CASE Ahead(start, s)
    <3>1. s > start + (WINDOW_SIZE - 1)
      BY <2>1, AheadMeaning
    <3> QED  BY <3>1, WindowAssumption DEF Seen, Index, Placeable, SeqNo
  <2>2. CASE ~ Ahead(start, s)
    <3>1. ~ (s < start)
      BY <1>1, <2>2 DEF Behind
    <3>2. s - start \notin bitmap
      BY <1>1, <1>2, <2>2
      DEF AlreadyReceived, PlacedBitmap, NextStart, PlacedStart
    <3> QED  BY <3>1, <3>2 DEF Seen
  <2> QED  BY <2>1, <2>2
<1> QED  BY <1>2, <1>3 DEF Seen

\* Without an aliased slide no bit is invented: a bit of the new window is
\* that of the packet just forwarded, or stood for the same number before.
LEMMA NextInventsNothing ==
    ASSUME NEW start, Placeable(start), NEW s \in SeqNo,
           NEW bitmap \in SUBSET Index, ~ Aliases(start, s),
           NEW i \in NextBitmap(start, bitmap, s)
    PROVE  \/ NextStart(start, s) + i = s /\ ~ Refused(start, bitmap, s)
           \/ /\ (NextStart(start, s) + i) - start \in bitmap
              /\ NextStart(start, s) + i \in Nat
<1>1. i \in Index
  BY NextRegisters
<1>2. CASE Refused(start, bitmap, s)
  <2>1. ~ Ahead(start, s)
    BY <1>2, RefusedAhead
  <2> QED  BY <1>1, <1>2, <2>1
           DEF NextStart, PlacedStart, NextBitmap, Placeable, Index
<1>3. CASE ~ Refused(start, bitmap, s) /\ i \in IdxBitmask(start, s)
  <2>1. i = s - NextStart(start, s)
    BY <1>3, IdxMeaning DEF Refused, NextStart
  <2>2. NextStart(start, s) \in Nat
    BY NextRegisters DEF Placeable
  <2> QED  BY <1>3, <2>1, <2>2 DEF SeqNo
<1>4. CASE ~ Refused(start, bitmap, s) /\ i \in PlacedBitmap(start, bitmap, s)
  <2>1. CASE ~ Ahead(start, s)
    BY <1>1, <1>4, <2>1
    DEF NextStart, PlacedStart, PlacedBitmap, Placeable, Index
  <2>2. CASE Ahead(start, s)
    <3>1. /\ i + ShiftIdx(start, s) \in bitmap
          /\ ~ (ShiftIdx(start, s) > WINDOW_SIZE - 1)
      BY <1>4, <2>2 DEF PlacedBitmap, Slid
    <3>2. ShiftIdx(start, s) = Jump(start, s)
      BY <2>2, <3>1, ShiftMeaning, WindowAssumption DEF Aliases
    <3>3. /\ NextStart(start, s) = start + Jump(start, s)
          /\ Jump(start, s) \in Nat
      BY <2>2, JumpMeaning DEF NextStart
    <3>4. (NextStart(start, s) + i) - start = i + Jump(start, s)
          /\ NextStart(start, s) + i \in Nat
      BY <1>1, <3>3 DEF Placeable, Index
    <3> QED  BY <3>1, <3>2, <3>4
  <2> QED  BY <2>1, <2>2
<1> QED  BY <1>2, <1>3, <1>4 DEF NextBitmap

\* Without an aliased slide, a packet refused though it is not too old is a
\* duplicate of one the bitmap holds.
LEMMA RefusedIsDuplicate ==
    ASSUME NEW start, Placeable(start), NEW s \in SeqNo,
           NEW bitmap \in SUBSET Index, Refused(start, bitmap, s),
           ~ Aliases(start, s), ~ Behind(start, s)
    PROVE  s - start \in bitmap
<1>1. ~ Ahead(start, s)
  BY RefusedAhead
<1>2. WindowIdx(start, s) \in bitmap
  BY <1>1 DEF Refused, AlreadyReceived, PlacedBitmap
<1> QED  BY <1>1, <1>2, IdxMeaning DEF PlacedStart
==============================================================================
