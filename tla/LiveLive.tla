------------------------------ MODULE LiveLive ------------------------------
(***************************************************************************)
(* One direction of the live-live service (p4src/srv6_livelive.p4 on both  *)
(* edges): host packets enter edge e1, are spread over the paths, lost or  *)
(* carried in order by each path, and leave edge e2 towards the far host.  *)
(* The other direction uses the other registers of the same two switches   *)
(* and is the same module again.                                           *)
(*                                                                         *)
(* Packets are numbered by their arrival at e1.  A path is the sequence of *)
(* the packets on it; the headers a copy carries do not change on the way  *)
(* and are those log gives for its packet.                                 *)
(***************************************************************************)
EXTENDS DedupWindow, Sequences, FiniteSets

CONSTANTS
    Paths,          \* ports of e1 behind which a path to e2 begins
    LossyPaths,     \* paths that may lose packets
    Entries,        \* entries the control plane puts in the steering table
    Deduplicate,    \* whether srv6_function of e2 holds the live-live function
    MaxPackets,     \* bound on the packets of the host
    MaxLag          \* how far a path may lag behind, in packets sent

ASSUME LiveLiveAssumption ==
    /\ LossyPaths \subseteq Paths
    /\ Deduplicate \in BOOLEAN
    /\ MaxPackets \in Nat
    /\ MaxLag \in Nat

Packets == 1 .. MaxPackets

\* The sets of ports an entry can send a packet to: live_live_mcast copies to
\* every port of its group, the two other actions pick a single port.
Spread(e) ==
    IF e.action = "live_live_mcast" THEN {e.ports} ELSE {{q} : q \in e.ports}

VARIABLES
    entry,              \* e1: the entry of check_live_live_enabled in force
    seq_n,              \* e1: the register of the last sequence number used
    log,                \* history: headers and ports of every packet sent
    link,               \* packets on each path, oldest first
    lost,               \* history: where copies of a packet were lost
    flow_window_start,  \* e2: the register
    flow_to_bitmap,     \* e2: the register
    received,           \* history: how often the far host got each packet
    aliased             \* history: as in Deduplicator

e1_vars == <<entry, seq_n, log>>
e2_vars == <<flow_window_start, flow_to_bitmap, received, aliased>>
vars == <<entry, seq_n, log, link, lost,
          flow_window_start, flow_to_bitmap, received, aliased>>

Init ==
    /\ entry \in Entries
    /\ seq_n = 0
    /\ log = << >>
    /\ link = [p \in Paths |-> << >>]
    /\ lost = [id \in Packets |-> {}]
    /\ flow_window_start = 0
    /\ flow_to_bitmap = {}
    /\ received = [id \in Packets |-> 0]
    /\ aliased = FALSE
-----------------------------------------------------------------------------
\* The CLI replaces the steering entry of the flow; packets keep flying.
SetEntry(e) ==
    /\ e # entry
    /\ entry' = e
    /\ UNCHANGED <<seq_n, log, link, lost, e2_vars>>

\* Mutant: the register is not written back.
NextSeqNoUnwritten(n) == n

\* The number after the last one, written back to the register.
NextSeqNo(n) == ToSeqNo(n + 1)

\* No path is more than MaxLag packets behind the one about to be sent.
WithinLag(id) ==
    \A p \in Paths : link[p] # << >> => id - Head(link[p]) <= MaxLag

\* A host packet crosses e1: it is numbered if the entry is live-live, and a
\* copy of it is queued on every port chosen.  A port with no path behind it
\* is the end of the packet.
Send ==
    LET id == Len(log) + 1
        live == entry.action = "live_live_mcast"
        seq == IF live THEN NextSeqNo(seq_n) ELSE seq_n
    IN  /\ id <= MaxPackets
        /\ WithinLag(id)
        /\ \E ports \in Spread(entry) :
              /\ log' = Append(log, [live |-> live, seq |-> seq,
                                     ports |-> ports])
              /\ link' = [p \in Paths |-> IF p \in ports
                                          THEN Append(link[p], id)
                                          ELSE link[p]]
              /\ lost' = [lost EXCEPT ![id] = ports \ Paths]
        /\ seq_n' = seq
        /\ UNCHANGED <<entry, e2_vars>>

\* A path drops a packet: random loss, or a full queue.  Which paths may is a
\* constant.  The experiments' netem is on eth0 to eth{n-1} of e1: all paths but
\* the last, and the link to e1's own host, which lies behind this module.
Lose(p) ==
    /\ p \in LossyPaths
    /\ link[p] # << >>
    /\ link' = [link EXCEPT ![p] = Tail(@)]
    /\ lost' = [lost EXCEPT ![Head(link[p])] = @ \cup {p}]
    /\ UNCHANGED <<e1_vars, e2_vars>>

Forward(id) == received' = [received EXCEPT ![id] = @ + 1]

\* srv6_function hits, its key being the low half of the first segment: the
\* live-live function's in the packets e1 numbered, if e2 has the entry.
Numbered(id) == Deduplicate /\ log[id].live

\* The window decides.
Deduplicated(id) ==
    LET s == log[id].seq
    IN  /\ flow_window_start' = NextStart(flow_window_start, s)
        /\ flow_to_bitmap' = NextBitmap(flow_window_start, flow_to_bitmap, s)
        /\ aliased' = (aliased \/ Aliases(flow_window_start, s))
        /\ IF Refused(flow_window_start, flow_to_bitmap, s)
           THEN UNCHANGED received
           ELSE Forward(id)

\* srv6_function misses: the packet is decapsulated and forwarded.
Decapsulated(id) ==
    /\ Forward(id)
    /\ UNCHANGED <<flow_window_start, flow_to_bitmap, aliased>>

\* The oldest packet of a path reaches e2.
Arrive(p) ==
    /\ link[p] # << >>
    /\ link' = [link EXCEPT ![p] = Tail(@)]
    /\ LET id == Head(link[p])
       IN  IF Numbered(id)
           THEN Deduplicated(id)
           ELSE Decapsulated(id)
    /\ UNCHANGED <<e1_vars, lost>>

Next ==
    \/ \E e \in Entries : SetEntry(e)
    \/ Send
    \/ \E p \in Paths : Lose(p)
    \/ \E p \in Paths : Arrive(p)

Spec == Init /\ [][Next]_vars

\* Switches forward what waits in front of them; hosts and the control plane
\* may stop at any time.
FairSpec == Spec /\ \A p \in Paths : WF_vars(Arrive(p))
-----------------------------------------------------------------------------
Sent == 1 .. Len(log)
OnPath(id, p) == \E i \in 1 .. Len(link[p]) : link[p][i] = id
Gone(id) == \A p \in Paths : ~ OnPath(id, p)

\* The copies of a packet that left their path for the far edge.
CameThrough(id) == {p \in log[id].ports \ lost[id] : ~ OnPath(id, p)}

Ports == Paths \cup UNION {e.ports : e \in Entries}

Header == [live : BOOLEAN, seq : SeqNo,
           ports : UNION {Spread(e) : e \in Entries}]

TypeOK ==
    /\ entry \in Entries
    /\ seq_n \in SeqNo
    /\ log \in Seq(Header)
    /\ Len(log) <= MaxPackets
    /\ link \in [Paths -> Seq(Sent)]
    /\ lost \in [Packets -> SUBSET Ports]
    /\ flow_window_start \in SeqNo
    /\ flow_to_bitmap \in SUBSET Index
    /\ received \in [Packets -> Nat]
    /\ aliased \in BOOLEAN

(***************************************************************************)
(* The far host gets a packet at most once, however many copies the paths  *)
(* carry and however they interleave, across switches of the steering      *)
(* entry with copies in flight and across a wrap of the sequence numbers.  *)
(***************************************************************************)
AtMostOnceToHost == Deduplicate => \A id \in Packets : received[id] <= 1

\* Without the function at e2 (the no-deduplicate experiment) the host gets
\* every copy no path lost, and no more.
EveryCopyOnce ==
    ~ Deduplicate =>
        \A id \in Sent :
            Gone(id) =>
                received[id] = Cardinality(log[id].ports \ lost[id])

(***************************************************************************)
(* The point of sending copies: once no copy is in flight, a packet the    *)
(* host did not get was lost on every path it was sent to.  It needs a     *)
(* sender that stays within the window of the slowest path and below the   *)
(* limits of the counters, which the constants of a run fix.               *)
(***************************************************************************)
SurvivorIsDelivered ==
    \A id \in Sent :
        Gone(id) /\ lost[id] # log[id].ports => received[id] > 0

\* A packet with a number higher by a whole window has come to the far edge.
Overtaken(id) ==
    \E other \in Sent :
        /\ log[other].live
        /\ CameThrough(other) # {}
        /\ log[other].seq - log[id].seq >= WINDOW_SIZE

\* The same without those limits: a packet of which a copy survived and that
\* the host did not get was overtaken by a whole window, shares its number with
\* another packet the host got, or met a bitmap left by a truncated slide.
LossIsExplained ==
    Deduplicate =>
        \A id \in Sent :
            Gone(id) /\ lost[id] # log[id].ports /\ received[id] = 0 =>
                \/ Overtaken(id)
                \/ \E other \in Sent \ {id} :
                      /\ log[other].live
                      /\ log[other].seq = log[id].seq
                      /\ received[other] > 0
                \/ aliased

\* A sequence number serves one packet in the life of the switches: after the
\* sender's counter wraps, the packets that reuse a number are lost.
OnePacketPerSeqNo ==
    Deduplicate =>
        \A i, j \in {id \in Sent : log[id].live /\ received[id] > 0} :
            log[i].seq = log[j].seq => i = j

\* With de-duplication the service as a whole is the channel it promises.
Channel == INSTANCE HostChannel WITH submitted <- Len(log), got <- received
ImplementsChannel == Channel!Spec

\* Of a packet with a copy on a path that loses nothing, one reaches the host.
EventuallyReceived ==
    \A id \in Packets :
        (id \in Sent /\ log[id].ports \ LossyPaths # {}) ~> received[id] > 0
=============================================================================
