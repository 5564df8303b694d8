------------------------- MODULE DeduplicatorProofs -------------------------
(***************************************************************************)
(* Proofs about Deduplicator, for every width of the window, of the shift  *)
(* and of the sequence numbers that meets WindowAssumption.                *)
(***************************************************************************)
EXTENDS Deduplicator, DedupWindowProofs

(***************************************************************************)
(* The inductive invariant.  AtMostOnce alone is not inductive: that the   *)
(* next copy of a forwarded number is refused rests on the registers       *)
(* remembering it, and that in turn on the window arithmetic not wrapping. *)
(***************************************************************************)
IInv ==
    /\ TypeOK
    /\ WindowBelowWrap
    /\ DeliveredIsRemembered
    /\ AtMostOnce
    /\ BitmapIsExact
    /\ NoFalseRefusal

LEMMA InitIInv == Init => IInv
<1> SUFFICES ASSUME Init PROVE IInv
  OBVIOUS
<1>1. TypeOK
  <2>1. Placeable(0)
    BY WindowAssumption DEF Placeable
  <2>2. 0 \in SeqNo
    BY <2>1, PlaceableInRange
  <2> QED  BY <2>2 DEF Init, TypeOK
<1>2. WindowBelowWrap
  BY WindowAssumption DEF Init, WindowBelowWrap
<1>3. DeliveredIsRemembered /\ AtMostOnce
  BY DEF Init, DeliveredIsRemembered, AtMostOnce
<1>4. BitmapIsExact /\ NoFalseRefusal
  BY DEF Init, BitmapIsExact, NoFalseRefusal
<1> QED  BY <1>1, <1>2, <1>3, <1>4 DEF IInv

\* What both outcomes of a packet do to the registers.
LEMMA UpdateMeaning ==
    ASSUME IInv, NEW s \in Arrivals, UpdateRegisters(s)
    PROVE  /\ Placeable(flow_window_start) /\ Placeable(flow_window_start')
           /\ flow_window_start' \in SeqNo
           /\ flow_window_start' >= flow_window_start
           /\ flow_to_bitmap \in SUBSET Index
           /\ flow_to_bitmap' \in SUBSET Index
           /\ aliased' \in BOOLEAN
           /\ s \in SeqNo
<1>1. Placeable(flow_window_start) /\ flow_to_bitmap \in SUBSET Index
  BY DEF IInv, TypeOK, WindowBelowWrap, Placeable, SeqNo
<1>2. s \in SeqNo
  BY ArrivalsAssumption
<1>3. /\ Placeable(flow_window_start')
      /\ flow_window_start' >= flow_window_start
      /\ flow_to_bitmap' \in SUBSET Index
  BY <1>1, <1>2, NextRegisters DEF UpdateRegisters
<1>4. flow_window_start' \in SeqNo
  BY <1>3, PlaceableInRange
<1>5. aliased' \in BOOLEAN
  BY DEF UpdateRegisters, IInv, TypeOK
<1> QED  BY <1>1, <1>2, <1>3, <1>4, <1>5

LEMMA AcceptKeepsIInv ==
    ASSUME IInv, NEW s \in Arrivals, Accept(s)
    PROVE  IInv'
<1> USE DEF Accept
<1>1. UpdateRegisters(s)
  OBVIOUS
<1>2. /\ delivered \in [Arrivals -> Nat]
      /\ delivered' = [delivered EXCEPT ![s] = @ + 1]
  BY DEF IInv, TypeOK
<1>3. ~ Seen(flow_window_start, flow_to_bitmap, s)
      /\ Seen(flow_window_start', flow_to_bitmap', s)
  BY <1>1, UpdateMeaning, AcceptedIsFresh DEF UpdateRegisters
<1>4. delivered[s] = 0
  BY <1>2, <1>3 DEF IInv, DeliveredIsRemembered, Seen
<1>5. TypeOK'
  BY <1>1, <1>2, UpdateMeaning DEF TypeOK, IInv
<1>6. WindowBelowWrap'
  BY <1>1, UpdateMeaning DEF WindowBelowWrap, Placeable
<1>7. DeliveredIsRemembered'
  <2> SUFFICES ASSUME NEW n \in Arrivals, delivered'[n] > 0
               PROVE  Seen(flow_window_start', flow_to_bitmap', n)
    BY DEF DeliveredIsRemembered, Seen
  <2>1. CASE n = s
    BY <1>3, <2>1
  <2>2. CASE n # s
    <3>1. delivered[n] > 0
      BY <1>2, <2>2
    <3>2. Seen(flow_window_start, flow_to_bitmap, n)
      BY <3>1 DEF IInv, DeliveredIsRemembered, Seen
    <3> QED  BY <1>1, <3>2, UpdateMeaning, NextRemembers, ArrivalsAssumption
             DEF UpdateRegisters
  <2> QED  BY <2>1, <2>2
<1>8. AtMostOnce'
  BY <1>2, <1>4 DEF AtMostOnce, IInv
<1>9. BitmapIsExact'
  <2> SUFFICES ASSUME ~ aliased', NEW i \in flow_to_bitmap'
               PROVE  /\ flow_window_start' + i \in Arrivals
                      /\ delivered'[flow_window_start' + i] = 1
    BY DEF BitmapIsExact
  <2>1. ~ aliased /\ ~ Aliases(flow_window_start, s)
    BY <1>1 DEF UpdateRegisters
  <2>2. \/ flow_window_start' + i = s
        \/ /\ (flow_window_start' + i) - flow_window_start \in flow_to_bitmap
           /\ flow_window_start' + i \in Nat
    BY <1>1, <2>1, UpdateMeaning, NextInventsNothing DEF UpdateRegisters
  <2>3. CASE flow_window_start' + i = s
    BY <1>2, <1>4, <2>3
  <2>4. CASE /\ (flow_window_start' + i) - flow_window_start \in flow_to_bitmap
             /\ flow_window_start' + i \in Nat
    <3> DEFINE n == flow_window_start' + i
    <3>1. flow_window_start + (n - flow_window_start) = n
      BY <1>1, <2>4, UpdateMeaning DEF Placeable
    <3>2. n \in Arrivals /\ delivered[n] = 1
      <4> DEFINE k == n - flow_window_start
      <4>1. k \in flow_to_bitmap
        BY <2>4
      <4>2. flow_window_start + k \in Arrivals
            /\ delivered[flow_window_start + k] = 1
        BY <2>1, <4>1 DEF IInv, BitmapIsExact
      <4> QED  BY <3>1, <4>2
    <3>3. n # s
      BY <1>4, <3>2
    <3> QED  BY <1>2, <3>2, <3>3
  <2> QED  BY <2>2, <2>3, <2>4
<1>10. NoFalseRefusal'
  BY <1>1 DEF IInv, NoFalseRefusal, UpdateRegisters
<1> QED  BY <1>5, <1>6, <1>7, <1>8, <1>9, <1>10 DEF IInv

LEMMA RefuseKeepsIInv ==
    ASSUME IInv, NEW s \in Arrivals, Refuse(s)
    PROVE  IInv'
<1> USE DEF Refuse
<1>1. UpdateRegisters(s) /\ delivered' = delivered
  OBVIOUS
<1>2. TypeOK'
  BY <1>1, UpdateMeaning DEF TypeOK, IInv
<1>3. WindowBelowWrap'
  BY <1>1, UpdateMeaning DEF WindowBelowWrap, Placeable
<1>4. DeliveredIsRemembered'
  <2> SUFFICES ASSUME NEW n \in Arrivals, delivered[n] > 0
               PROVE  Seen(flow_window_start', flow_to_bitmap', n)
    BY <1>1 DEF DeliveredIsRemembered, Seen
  <2>1. Seen(flow_window_start, flow_to_bitmap, n)
    BY DEF IInv, DeliveredIsRemembered, Seen
  <2> QED  BY <1>1, <2>1, UpdateMeaning, NextRemembers, ArrivalsAssumption
           DEF UpdateRegisters
<1>5. AtMostOnce'
  BY <1>1 DEF AtMostOnce, IInv
<1>6. BitmapIsExact'
  <2> SUFFICES ASSUME ~ aliased', NEW i \in flow_to_bitmap'
               PROVE  /\ flow_window_start' + i \in Arrivals
                      /\ delivered[flow_window_start' + i] = 1
    BY <1>1 DEF BitmapIsExact
  <2>1. ~ aliased /\ ~ Aliases(flow_window_start, s)
    BY <1>1 DEF UpdateRegisters
  <2>2. /\ (flow_window_start' + i) - flow_window_start \in flow_to_bitmap
        /\ flow_window_start' + i \in Nat
    BY <1>1, <2>1, UpdateMeaning, NextInventsNothing DEF UpdateRegisters
  <2> DEFINE n == flow_window_start' + i
  <2>3. flow_window_start + (n - flow_window_start) = n
    BY <1>1, <2>2, UpdateMeaning DEF Placeable
  <2> DEFINE k == n - flow_window_start
  <2>4. k \in flow_to_bitmap
    BY <2>2
  <2>5. flow_window_start + k \in Arrivals
        /\ delivered[flow_window_start + k] = 1
    BY <2>1, <2>4 DEF IInv, BitmapIsExact
  <2> QED  BY <2>3, <2>5
<1>7. NoFalseRefusal'
  <2> SUFFICES ASSUME ~ aliased' PROVE misjudged' = {}
    BY DEF NoFalseRefusal
  <2>1. /\ ~ aliased /\ ~ Aliases(flow_window_start, s)
        /\ misjudged = {}
    BY <1>1 DEF UpdateRegisters, IInv, NoFalseRefusal
  <2>2. ASSUME ~ Behind(flow_window_start, s) PROVE delivered[s] = 1
    <3>1. s - flow_window_start \in flow_to_bitmap
      BY <1>1, <2>1, <2>2, UpdateMeaning, RefusedIsDuplicate
    <3>2. flow_window_start + (s - flow_window_start) = s
      BY <1>1, UpdateMeaning DEF Placeable, SeqNo
    <3> QED  BY <2>1, <3>1, <3>2 DEF IInv, BitmapIsExact
  <2> QED  BY <2>1, <2>2
<1> QED  BY <1>2, <1>3, <1>4, <1>5, <1>6, <1>7 DEF IInv

LEMMA NextIInv == IInv /\ [Next]_vars => IInv'
<1> SUFFICES ASSUME IInv, [Next]_vars PROVE IInv'
  OBVIOUS
<1>1. ASSUME NEW s \in Arrivals, Accept(s) PROVE IInv'
  BY <1>1, AcceptKeepsIInv
<1>2. ASSUME NEW s \in Arrivals, Refuse(s) PROVE IInv'
  BY <1>2, RefuseKeepsIInv
<1>3. CASE UNCHANGED vars
  BY <1>3 DEF vars, IInv, TypeOK, WindowBelowWrap, DeliveredIsRemembered,
              AtMostOnce, BitmapIsExact, NoFalseRefusal
<1> QED  BY <1>1, <1>2, <1>3 DEF Next

LEMMA AlwaysIInv == Spec => []IInv
BY InitIInv, NextIInv, PTL DEF Spec

\* The registers and the history keep their types.
THEOREM TypeCorrect == Spec => []TypeOK
<1>1. IInv => TypeOK
  BY DEF IInv
<1> QED  BY <1>1, AlwaysIInv, PTL

\* No sequence number is ever forwarded twice, for windows of any size and
\* arrivals in any order, aliased slides included.
THEOREM ForwardedAtMostOnce == Spec => []AtMostOnce
<1>1. IInv => AtMostOnce
  BY DEF IInv
<1> QED  BY <1>1, AlwaysIInv, PTL

\* The registers never forget a number they forwarded.
THEOREM NeverForgets == Spec => []DeliveredIsRemembered
<1>1. IInv => DeliveredIsRemembered
  BY DEF IInv
<1> QED  BY <1>1, AlwaysIInv, PTL

\* The window test of the code is exact: start_value + 63 does not overflow.
THEOREM NoWindowOverflow == Spec => []WindowBelowWrap
<1>1. IInv => WindowBelowWrap
  BY DEF IInv
<1> QED  BY <1>1, AlwaysIInv, PTL

\* As long as no slide was truncated, the bitmap holds what was forwarded and
\* nothing else: no bit stands for a packet the host never got.
THEOREM BitsAreForwarded == Spec => []BitmapIsExact
<1>1. IInv => BitmapIsExact
  BY DEF IInv
<1> QED  BY <1>1, AlwaysIInv, PTL

\* Fresh packets inside or past the window are refused only after a slide
\* that the bit<8> shift_idx truncated.
THEOREM FreshIsNotRefused == Spec => []NoFalseRefusal
<1>1. IInv => NoFalseRefusal
  BY DEF IInv
<1> QED  BY <1>1, AlwaysIInv, PTL

\* The window only ever slides forward.
THEOREM WindowIsMonotone == Spec => WindowNeverRegresses
<1>1. IInv /\ [Next]_vars => [flow_window_start' >= flow_window_start]_vars
  <2> SUFFICES ASSUME IInv, Next PROVE flow_window_start' >= flow_window_start
    OBVIOUS
  <2>1. PICK s \in Arrivals : Accept(s) \/ Refuse(s)
    BY DEF Next
  <2>2. UpdateRegisters(s)
    BY <2>1 DEF Accept, Refuse
  <2> QED  BY <2>2, UpdateMeaning
<1> QED  BY <1>1, AlwaysIInv, PTL DEF Spec, WindowNeverRegresses

\* With the window at the top and every bit set, any number a copy may carry
\* is a duplicate or below the window.
LEMMA ExhaustedRefuses ==
    ASSUME IInv, Exhausted, NEW s \in Arrivals
    PROVE  /\ Refused(flow_window_start, flow_to_bitmap, s)
           /\ NextStart(flow_window_start, s) = flow_window_start
<1>1. s \in SeqNo /\ Placeable(flow_window_start)
  BY ArrivalsAssumption DEF IInv, TypeOK, WindowBelowWrap, Placeable, SeqNo
<1>2. ~ Ahead(flow_window_start, s)
  BY <1>1, AheadMeaning, WindowAssumption DEF Exhausted, SeqNo, Placeable
<1>3. CASE Behind(flow_window_start, s)
  BY <1>2, <1>3 DEF Refused, NextStart, PlacedStart
<1>4. CASE ~ Behind(flow_window_start, s)
  <2>1. WindowIdx(flow_window_start, s) \in flow_to_bitmap
    BY <1>1, <1>4, IdxMeaning DEF Exhausted
  <2> QED  BY <1>2, <2>1
           DEF Refused, AlreadyReceived, PlacedBitmap, NextStart, PlacedStart
<1> QED  BY <1>3, <1>4

\* A flow whose sender used up the numbers is dead: the function forwards
\* nothing of it any more, whatever arrives.
THEOREM DeadFlowStaysDead == Spec => ExhaustedForever
<1>1. IInv /\ [Next]_vars
        => [Exhausted => Exhausted' /\ delivered' = delivered]_vars
  <2> SUFFICES ASSUME IInv, Next, Exhausted
               PROVE  Exhausted' /\ delivered' = delivered
    OBVIOUS
  <2>1. PICK s \in Arrivals : Accept(s) \/ Refuse(s)
    BY DEF Next
  <2>2. /\ Refused(flow_window_start, flow_to_bitmap, s)
        /\ NextStart(flow_window_start, s) = flow_window_start
    BY ExhaustedRefuses
  <2>3. delivered' = delivered /\ UNCHANGED registers
    BY <2>1, <2>2
    DEF Accept, Refuse, UpdateRegisters, NextBitmap, registers
  <2> QED  BY <2>3 DEF Exhausted, registers
<1> QED  BY <1>1, AlwaysIInv, PTL DEF Spec, ExhaustedForever
=============================================================================
