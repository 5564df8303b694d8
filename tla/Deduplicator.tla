---------------------------- MODULE Deduplicator ----------------------------
(***************************************************************************)
(* One slot of the de-duplication registers of an edge switch (srv6        *)
(* function 0x55 of p4src/srv6_livelive.p4) on its own: copies with any    *)
(* sequence numbers arrive in any order, which is what a set of lossy      *)
(* paths with unrelated delays, and a sender whose 16-bit counter wraps,   *)
(* can produce.  The switch runs one packet of a port at a time through    *)
(* its ingress, so reading and writing the registers is one step.          *)
(***************************************************************************)
EXTENDS DedupWindow

CONSTANT Arrivals       \* the sequence numbers copies may carry

ASSUME ArrivalsAssumption == Arrivals \subseteq SeqNo

VARIABLES
    flow_window_start,  \* the register: the lowest number of the window
    flow_to_bitmap,     \* the register: positions accepted in the window
    delivered,          \* history: how often each number was forwarded
    misjudged,          \* history: numbers refused though in the window and
                        \* never forwarded
    aliased             \* history: whether a slide kept bits it should not

registers == <<flow_window_start, flow_to_bitmap>>
vars == <<flow_window_start, flow_to_bitmap, delivered, misjudged, aliased>>

\* Registers are zero when the switch starts.
Init ==
    /\ flow_window_start = 0
    /\ flow_to_bitmap = {}
    /\ delivered = [s \in Arrivals |-> 0]
    /\ misjudged = {}
    /\ aliased = FALSE

UpdateRegisters(s) ==
    /\ flow_window_start' = NextStart(flow_window_start, s)
    /\ flow_to_bitmap' = NextBitmap(flow_window_start, flow_to_bitmap, s)
    /\ aliased' = (aliased \/ Aliases(flow_window_start, s))

\* The packet is fresh: its bit is set, it is decapsulated and forwarded.
Accept(s) ==
    /\ ~ Refused(flow_window_start, flow_to_bitmap, s)
    /\ UpdateRegisters(s)
    /\ delivered' = [delivered EXCEPT ![s] = @ + 1]
    /\ UNCHANGED misjudged

\* mark_to_drop: a duplicate, or a number below the window.
Refuse(s) ==
    /\ Refused(flow_window_start, flow_to_bitmap, s)
    /\ UpdateRegisters(s)
    /\ misjudged' = IF delivered[s] = 0 /\ ~ Behind(flow_window_start, s)
                    THEN misjudged \cup {s}
                    ELSE misjudged
    /\ UNCHANGED delivered

Next == \E s \in Arrivals : Accept(s) \/ Refuse(s)

Spec == Init /\ [][Next]_vars
-----------------------------------------------------------------------------
TypeOK ==
    /\ flow_window_start \in SeqNo
    /\ flow_to_bitmap \in SUBSET Index
    /\ delivered \in [Arrivals -> Nat]
    /\ misjudged \in SUBSET Arrivals
    /\ aliased \in BOOLEAN

(***************************************************************************)
(* The purpose of the function: whatever arrives, in whatever order and    *)
(* however often, a sequence number is forwarded to the host at most once. *)
(* It has to survive both the bit<8> truncation of shift_idx and the slide *)
(* whose packet is refused, where only one of the registers is written.    *)
(***************************************************************************)
AtMostOnce == \A s \in Arrivals : delivered[s] <= 1

\* What the registers remember: a forwarded number is below the window, or
\* its bit is set.  Forgetting one would let its next copy through.
DeliveredIsRemembered ==
    \A s \in Arrivals :
        delivered[s] > 0 =>
            s < flow_window_start \/ s - flow_window_start \in flow_to_bitmap

\* The window never reaches past the largest number, so start_value +
\* (WINDOW_SIZE - 1) of the window test never wraps.
WindowBelowWrap == flow_window_start + WINDOW_SIZE <= SEQ_MOD

\* As long as no slide was truncated to a shorter one, a set bit stands for a
\* number that was really forwarded.
BitmapIsExact ==
    ~ aliased =>
        \A i \in flow_to_bitmap :
            /\ flow_window_start + i \in Arrivals
            /\ delivered[flow_window_start + i] = 1

\* A packet that is not too old is refused only as a duplicate, unless a
\* slide of IDX_MOD numbers or more, truncated to bit<8>, kept stale bits.
NoFalseRefusal == ~ aliased => misjudged = {}

\* The window slides forward only: a number that became too old stays so.
WindowNeverRegresses == [][flow_window_start' >= flow_window_start]_vars

\* Once every number the registers can hold was forwarded or passed by, which
\* is where a sender that wraps its bit<16> counter leads, the flow is dead:
\* no packet is forwarded again.
Exhausted ==
    /\ flow_window_start + WINDOW_SIZE = SEQ_MOD
    /\ flow_to_bitmap = Index
ExhaustedForever == [][Exhausted => Exhausted' /\ delivered' = delivered]_vars
=============================================================================
