------------------------------- MODULE SdWan -------------------------------
(***************************************************************************)
(* The SD-WAN controller of the simulation (lines 291-732 of               *)
(* live-live-sdwan.cc) for its one live-live flow: it measures at e2 the   *)
(* gaps between packets, and replaces the flow's /128 entries of           *)
(* check_live_live_enabled on both edges.  Simulated time advances in      *)
(* ticks; an event of the simulator is one step.                           *)
(***************************************************************************)
EXTENDS Integers, Sequences, FiniteSets

CONSTANTS
    Paths,          \* ports of e2 that lead to e1: 1 active, 2 backup
    Mode,           \* sdWanMode
    CliFails,       \* whether a command of the P4 command line may fail
    CheckInterval,  \* SDWAN_LATENCY_CHECK_INTERVAL, in ticks
    ProbeInterval,  \* the second during which the paths are compared, in ticks
    TargetLatency,  \* SDWAN_TARGET_LATENCY, in ticks
    Threshold,      \* N_RETRANSMISSIONS_THRESHOLD
    MaxAge,         \* bound: a gap of MaxAge ticks stands for all longer ones
    MaxSamples,     \* bound on the gaps measured between two checks
    MaxInFlight     \* bound on the packets on a path and on a receiver's link

FallbackPort == 1   \* of the /64 entries installed with the pipeline
BackupPort == 2     \* the port tcpRx changes to

ASSUME SdWanAssumption ==
    /\ Paths \subseteq Nat \ {0}
    /\ {FallbackPort, BackupPort} \subseteq Paths
    /\ Mode \in {"latency", "tcp"}
    /\ CliFails \in BOOLEAN
    /\ CheckInterval \in Nat \ {0}
    /\ ProbeInterval \in Nat \ {0}
    /\ TargetLatency \in Nat
    /\ Threshold \in Nat \ {0}
    /\ MaxAge \in Nat
    /\ MaxSamples \in Nat
    /\ MaxInFlight \in Nat

Edges == {"e1", "e2"}

\* Routes of a /128 entry besides the port of ipv6_encap_forward_port.
LiveLiveMcast == 0
Absent == -1
Routes == Paths \cup {LiveLiveMcast, Absent}

\* Handles the controller keeps for an entry.  bmv2 puts a version into a
\* handle that changes when the entry is deleted; one bit of it is enough to
\* tell the present entry from the one before.
NoHandle == -1          \* flow2Handles has no such key
EmptyHandle == -2       \* runP4CommandAndGetHandle found no handle in the reply
Versions == 0 .. 1

\* The measurements: flowPrevTs and flowLatencies under Plain, the maps that
\* llPrevTs and llLatencies hold for the context of path p under p.
Plain == 0
Monitors == Paths \cup {Plain}
NoTs == -1

VARIABLES
    edge,           \* per edge: the flow's entry, and the controller's handle
    up,             \* edges whose pipeline has been initialised
    llChecking,     \* as in the source
    timers,         \* events scheduled, with the ticks until they are due
    prevTs,         \* per monitor: ticks since the first packet of a gap
    latencies,      \* per monitor: whether there is a list, its sum and size
    oooPkts,        \* as in the source
    link,           \* packets from e1 to e2 on each path, oldest first
    atReceiver,     \* packets from e2 to the receiver's socket
    nullPipeline,   \* a command was run on a pipeline that does not exist
    stopped,        \* m_stop of the simulator
    carried,        \* history: monitors whose gap began before the last check
    heard           \* history: paths that delivered a copy in this comparison

controller == <<edge, llChecking, timers>>
measures == <<prevTs, latencies, carried, heard>>
vars == <<edge, up, llChecking, timers, prevTs, latencies, oooPkts, link,
          atReceiver, nullPipeline, stopped, carried, heard>>

NoList == [known |-> FALSE, sum |-> 0, size |-> 0]
EmptyList == [known |-> TRUE, sum |-> 0, size |-> 0]

After(handler, ticks) == [handler |-> handler, in |-> ticks]

Init ==
    /\ edge = [e \in Edges |->
                   [route |-> Absent, version |-> 0, handle |-> NoHandle]]
    /\ up = {}
    /\ llChecking = FALSE
    /\ timers = {After("checkLatency", CheckInterval)}
    /\ prevTs = [m \in Monitors |-> NoTs]
    /\ latencies = [m \in Monitors |-> NoList]
    /\ oooPkts = 0
    /\ link = [p \in Paths |-> << >>]
    /\ atReceiver = 0
    /\ nullPipeline = FALSE
    /\ stopped = FALSE
    /\ carried = {}
    /\ heard = {}

(***************************************************************************)
(* Commands.  A command that fails is not executed and has an empty reply. *)
(***************************************************************************)
Outcomes == IF CliFails THEN BOOLEAN ELSE {TRUE}

\* Mutant of Deleted: the key is not erased from flow2Handles.
DeletedNotErased(e, ok) ==
    IF e.handle = e.version /\ e.route # Absent /\ ok
    THEN [e EXCEPT !.route = Absent, !.version = 1 - @]
    ELSE e

\* Mutant of Deleted: any handle is that of the entry in force.
DeletedAnyHandle(e, ok) ==
    IF e.handle = NoHandle THEN e
    ELSE [route |-> IF ok THEN Absent ELSE e.route,
          version |-> IF ok THEN 1 - e.version ELSE e.version,
          handle |-> NoHandle]

\* table_delete with the handle kept for the flow, which is then forgotten.
Deleted(e, ok) ==
    LET hit == ok /\ e.route # Absent /\ e.handle = e.version
    IN  IF e.handle = NoHandle THEN e
        ELSE [route |-> IF hit THEN Absent ELSE e.route,
              version |-> IF hit THEN 1 - e.version ELSE e.version,
              handle |-> NoHandle]

\* table_add, refused when there is an entry for the flow.  The handle is
\* inserted into the map, which leaves a key that is there alone.
Added(e, r, ok) ==
    LET done == ok /\ e.route = Absent
    IN  [route |-> IF done THEN r ELSE e.route,
         version |-> e.version,
         handle |-> IF e.handle # NoHandle THEN e.handle
                    ELSE IF done THEN e.version ELSE EmptyHandle]

\* Mutant of EnableLiveLive: the entry in force is not deleted first.
EnableLiveLiveNoDelete ==
    /\ llChecking' = TRUE
    /\ \E add \in Outcomes : edge' = [edge EXCEPT !["e1"] = Added(@, LiveLiveMcast, add)]
    /\ nullPipeline' = ("e1" \notin up)

EnableLiveLive ==
    /\ llChecking' = TRUE
    /\ \E del, add \in Outcomes :
           edge' = [edge EXCEPT !["e1"] = Added(Deleted(@, del), LiveLiveMcast, add)]
    /\ nullPipeline' = ("e1" \notin up)

\* Mutant of ChangeFlowRoute: the entry of e2 is not deleted first.
ChangeFlowRouteKeepsReverse(sw, port) ==
    /\ \E del, add \in [Edges -> Outcomes] :
           edge' = [e \in Edges |->
               Added(IF e = "e1" THEN Deleted(sw[e], del[e]) ELSE sw[e], port, add[e])]
    /\ nullPipeline' = (up # Edges)

\* changeFlowRoute, from edges whose entries are those of sw.
ChangeFlowRoute(sw, port) ==
    /\ \E del, add \in [Edges -> Outcomes] :
           edge' = [e \in Edges |-> Added(Deleted(sw[e], del[e]), port, add[e])]
    /\ nullPipeline' = (up # Edges)

(***************************************************************************)
(* Packets.  The host's packet takes the flow's entry of e1, or the /64    *)
(* entry below it; queues overflow and links lose packets.                 *)
(***************************************************************************)
CurrentRoute ==
    IF edge["e1"].route = Absent THEN FallbackPort ELSE edge["e1"].route

Kind == IF CurrentRoute = LiveLiveMcast THEN "live" ELSE "plain"

Ports == IF CurrentRoute = LiveLiveMcast THEN Paths ELSE {CurrentRoute}

HostSends ==
    /\ ~stopped
    /\ \E queued \in SUBSET Ports :
           /\ \A p \in queued : Len(link[p]) < MaxInFlight
           /\ link' = [p \in Paths |-> IF p \in queued THEN Append(link[p], Kind)
                                       ELSE link[p]]
    /\ up' = up \cup {"e1"}
    /\ UNCHANGED <<controller, measures, oooPkts, atReceiver, nullPipeline, stopped>>

\* One packet of a gap begins it, the next one ends it; the third begins
\* another.
Measured(m) ==
    IF prevTs[m] = NoTs
    THEN /\ prevTs' = [prevTs EXCEPT ![m] = 0]
         /\ UNCHANGED <<latencies, carried>>
    ELSE /\ latencies[m].size < MaxSamples
         /\ latencies' = [latencies EXCEPT
                ![m] = [known |-> TRUE, sum |-> @.sum + prevTs[m], size |-> @.size + 1]]
         /\ prevTs' = [prevTs EXCEPT ![m] = NoTs]
         /\ carried' = carried \ {m}

\* tracePktRxNetDevice at e2, and e2 sending the packet on.  Plain packets are
\* measured while llChecking is off, copies while it is on, per path.
MonitorOf(p) == IF llChecking THEN p ELSE Plain

PacketArrives(p) ==
    /\ ~stopped
    /\ link[p] # << >>
    /\ link' = [link EXCEPT ![p] = Tail(@)]
    /\ IF (Head(link[p]) = "live") = llChecking
       THEN Measured(MonitorOf(p))
       ELSE UNCHANGED <<prevTs, latencies, carried>>
    /\ heard' = IF Head(link[p]) = "live" THEN heard \cup {p} ELSE heard
    /\ up' = up \cup {"e2"}
    /\ IF Mode = "tcp"
       THEN /\ atReceiver < MaxInFlight
            /\ atReceiver' = atReceiver + 1
       ELSE UNCHANGED atReceiver
    /\ UNCHANGED <<controller, oooPkts, nullPipeline, stopped>>

(***************************************************************************)
(* Events of the controller.                                               *)
(***************************************************************************)
\* The simulator runs the events in order of time until it is stopped.
Due(handler) == ~stopped /\ After(handler, 0) \in timers

\* Mutant of Rescheduled: the check re-arms itself even when it turns live-live on.
RescheduledAlways(handler, next) ==
    (timers \ {After(handler, 0)}) \cup {next, After("checkLatency", CheckInterval)}

\* Events other than the one of handler that runs, and the one it schedules.
Rescheduled(handler, next) == (timers \ {After(handler, 0)}) \cup {next}

\* Mutant of Restarted: the time of the last packet is not erased.
RestartedKeepsTimes(ms) ==
    /\ latencies' = [m \in Monitors |->
           IF m \in ms /\ latencies[m].known THEN EmptyList
           ELSE latencies[m]]
    /\ carried' = carried \cup {m \in ms : prevTs[m] # NoTs}
    /\ UNCHANGED prevTs

\* Mutant of Restarted: the lists are not emptied.
RestartedKeepsLists(ms) ==
    LET forget == {m \in ms : latencies[m].known}
    IN  /\ prevTs' = [m \in Monitors |-> IF m \in forget THEN NoTs ELSE prevTs[m]]
        /\ carried' = (carried \ forget) \cup {m \in ms \ forget : prevTs[m] # NoTs}
        /\ UNCHANGED latencies

\* Both checks end by emptying the lists of the monitors in ms and, where
\* there was a list, forgetting the packet that began the next gap.
Restarted(ms) ==
    LET forget == {m \in ms : latencies[m].known}
    IN  /\ latencies' = [m \in Monitors |->
               IF m \in forget THEN EmptyList ELSE latencies[m]]
        /\ prevTs' = [m \in Monitors |-> IF m \in forget THEN NoTs ELSE prevTs[m]]
        /\ carried' = (carried \ forget)
                          \cup {m \in ms \ forget : prevTs[m] # NoTs}

\* Mutant of AverageTooHigh: a flow without packets counts as slow.
AverageTooHighOrNone ==
    latencies[Plain].sum >= TargetLatency * latencies[Plain].size

AverageTooHigh ==
    /\ latencies[Plain].size > 0
    /\ latencies[Plain].sum >= TargetLatency * latencies[Plain].size

\* Mutant of LatencyIsHigh: the comparison is not scheduled.
LatencyIsHighUnscheduled ==
    /\ Due("checkLatency")
    /\ Mode = "latency" /\ AverageTooHigh
    /\ timers' = timers \ {After("checkLatency", 0)}
    /\ EnableLiveLive
    /\ Restarted({Plain})
    /\ heard' = {}
    /\ UNCHANGED <<up, oooPkts, link, atReceiver, stopped>>

\* checkLatency turns live-live on.
LatencyIsHigh ==
    /\ Due("checkLatency")
    /\ Mode = "latency" /\ AverageTooHigh
    /\ timers' = Rescheduled("checkLatency", After("checkLiveLiveLatency", ProbeInterval))
    /\ EnableLiveLive
    /\ Restarted({Plain})
    /\ heard' = {}
    /\ UNCHANGED <<up, oooPkts, link, atReceiver, stopped>>

\* checkLatency leaves the route alone.
LatencyIsFine ==
    /\ Due("checkLatency")
    /\ ~(Mode = "latency" /\ AverageTooHigh)
    /\ timers' = Rescheduled("checkLatency", After("checkLatency", CheckInterval))
    /\ Restarted({Plain})
    /\ UNCHANGED <<edge, up, llChecking, oooPkts, link, atReceiver,
                   nullPipeline, stopped, heard>>

HasAverage == {p \in Paths : latencies[p].size > 0}

Faster(p, q) ==
    latencies[p].sum * latencies[q].size < latencies[q].sum * latencies[p].size

\* No measured path is faster.  minLatency is a float and the averages are
\* doubles: which of two that are equal in ticks wins depends on the rounding
\* and on the order of the contexts, and is left open.
IsBest(p) == p \in HasAverage /\ \A q \in HasAverage : ~Faster(q, p)

\* Mutant of DisableLiveLive: the answers' entry is deleted as well.
DisableLiveLiveBothEdges(ok) == [e \in Edges |-> Deleted(edge[e], ok)]

\* The entries after disableLiveLive, which deletes the flow's entry of e1.
DisableLiveLive(ok) == [edge EXCEPT !["e1"] = Deleted(@, ok)]

\* checkLiveLiveLatency: live-live goes off, and the flow moves to the fastest
\* path if any path was measured.
CheckLiveLiveLatency ==
    /\ Due("checkLiveLiveLatency")
    /\ timers' = Rescheduled("checkLiveLiveLatency", After("checkLatency", CheckInterval))
    /\ llChecking' = FALSE
    /\ \E del \in Outcomes :
           IF HasAverage = {}
           THEN /\ edge' = DisableLiveLive(del)
                /\ nullPipeline' = ("e1" \notin up)
           ELSE \E p \in Paths : IsBest(p) /\ ChangeFlowRoute(DisableLiveLive(del), p)
    /\ Restarted(Paths)
    /\ UNCHANGED <<up, oooPkts, link, atReceiver, stopped, heard>>

\* tcpRx for a segment that moves the highest sequence number on, or for one
\* that does not: a retransmission or a segment out of order.
TcpRx(advances) ==
    /\ ~stopped
    /\ atReceiver > 0
    /\ atReceiver' = atReceiver - 1
    /\ IF advances \/ oooPkts + 1 < Threshold
       THEN /\ oooPkts' = IF advances THEN oooPkts ELSE oooPkts + 1
            /\ UNCHANGED <<edge, nullPipeline>>
       ELSE /\ ChangeFlowRoute(edge, BackupPort)
            /\ oooPkts' = 0
    /\ UNCHANGED <<up, llChecking, timers, measures, link, stopped>>

\* Simulated time does not pass an event that is due.
Older(t) == IF t = NoTs THEN NoTs ELSE IF t < MaxAge THEN t + 1 ELSE t

Tick ==
    /\ ~stopped
    /\ \A t \in timers : t.in > 0
    /\ timers' = {After(t.handler, t.in - 1) : t \in timers}
    /\ prevTs' = [m \in Monitors |-> Older(prevTs[m])]
    /\ UNCHANGED <<edge, up, llChecking, latencies, oooPkts, link, atReceiver,
                   nullPipeline, stopped, carried, heard>>

\* Simulator::Stop, at the end time given on the command line: at any moment,
\* before or after the other events of that moment.  What was scheduled is lost.
Stop ==
    /\ ~stopped
    /\ stopped' = TRUE
    /\ UNCHANGED <<controller, measures, up, oooPkts, link, atReceiver, nullPipeline>>

Next ==
    \/ HostSends
    \/ \E p \in Paths : PacketArrives(p)
    \/ LatencyIsHigh
    \/ LatencyIsFine
    \/ CheckLiveLiveLatency
    \/ \E advances \in BOOLEAN : TcpRx(advances)
    \/ Tick
    \/ Stop

Spec == Init /\ [][Next]_vars

\* Until it is stopped the simulator runs the events it has scheduled, in order
\* of time.  Nothing makes it stop.
FairSpec ==
    /\ Spec
    /\ WF_vars(Tick)
    /\ WF_vars(LatencyIsHigh \/ LatencyIsFine)
    /\ WF_vars(CheckLiveLiveLatency)
-----------------------------------------------------------------------------
(***************************************************************************)
(* Properties.                                                             *)
(***************************************************************************)
\* The maps, entries, events and counters have the types of the source.
TypeOK ==
    /\ edge \in [Edges -> [route : Routes, version : Versions,
                           handle : Versions \cup {NoHandle, EmptyHandle}]]
    /\ up \subseteq Edges
    /\ llChecking \in BOOLEAN
    /\ timers \subseteq [handler : {"checkLatency", "checkLiveLiveLatency"}, in : Nat]
    /\ prevTs \in [Monitors -> (0 .. MaxAge) \cup {NoTs}]
    /\ latencies \in [Monitors -> [known : BOOLEAN, sum : Nat, size : 0 .. MaxSamples]]
    /\ oooPkts \in 0 .. Threshold - 1
    /\ link \in [Paths -> Seq({"plain", "live"})]
    /\ atReceiver \in 0 .. MaxInFlight
    /\ nullPipeline \in BOOLEAN
    /\ stopped \in BOOLEAN
    /\ carried \subseteq Monitors
    /\ heard \subseteq Paths

\* One check is scheduled at any time, the comparison while llChecking is on
\* and the plain check while it is off: the two chains of events that re-arm
\* each other neither fork nor end.
OneTimer ==
    \E t \in timers :
        /\ timers = {t}
        /\ llChecking <=> t.handler = "checkLiveLiveLatency"

\* Whether packets are copied is what the trace at e2 believes (llChecking).
CopiesAreMeasured == llChecking <=> CurrentRoute = LiveLiveMcast

\* flow2Handles has a handle of the flow for an edge exactly if the edge has an
\* entry, and it is that entry's: a later table_delete finds its entry.
HandlesMatchTables ==
    \A e \in Edges :
        edge[e].handle = IF edge[e].route = Absent THEN NoHandle ELSE edge[e].version

\* When e1 has one path for the flow, e2 sends the answers back over the same.
RoutesAgree ==
    edge["e1"].route \in Paths => edge["e2"].route = edge["e1"].route

\* The path of the answers changes only with that of the flow: by a route change
\* that gives both edges an entry for the same path.  When a comparison without
\* measurements lets the flow fall back, the answers stay where they are.
AnswersMoveWithFlow ==
    [][edge'["e2"].route # edge["e2"].route =>
           /\ edge'["e2"].route \in Paths
           /\ edge'["e1"].route = edge'["e2"].route]_vars

\* No list or gap of one mode is left over when the other begins, so that no
\* gap reaches over a comparison or from one comparison to the next; but a path
\* that never had a list keeps the time of its first copy.
MeasuresMatchMode ==
    IF llChecking THEN latencies[Plain].size = 0 /\ prevTs[Plain] = NoTs
    ELSE \A p \in Paths :
             latencies[p].size = 0 /\ (latencies[p].known => prevTs[p] = NoTs)

\* A gap that began before the last check belongs to a monitor that has never
\* measured one: afterwards every gap lies within one period.
OnlyFirstGapIsCarried == \A m \in carried : prevTs[m] # NoTs /\ ~latencies[m].known

\* A table command never runs before the first packet has created the pipeline
\* (RunPipelineCommands dereferences m_p4_pipeline unchecked).
PipelineExists == ~nullPipeline

\* A comparison moves the flow only to a path that delivered a copy during it.
ChosenPathWasHeard ==
    [][CheckLiveLiveLatency /\ edge'["e1"].route \in Paths
           => edge'["e1"].route \in heard]_vars

\* The latency mode implements the service of RouteControl.
Service == INSTANCE RouteControl
    WITH route <- CurrentRoute, ended <- stopped, AllPaths <- LiveLiveMcast
ImplementsRouteControl == Service!Spec

\* The tcp mode moves the flow to the backup path for good, in both directions:
\* no later move, made while it is already there, ever puts it back.
BackupIsKept ==
    [][edge["e1"].route = BackupPort =>
           \A e \in Edges : edge'[e].route = BackupPort]_vars

\* However commands fail, only a failed addition takes an edge off the backup
\* path, and then the controller keeps an empty handle for it.
BackupLeftOnlyByFailure ==
    [][\A e \in Edges : edge[e].route = BackupPort =>
           edge'[e].route = BackupPort \/ edge'[e].handle = EmptyHandle]_vars

\* An entry whose handle was lost by a failed deletion can never be removed:
\* the edge keeps it until the simulation ends.
Orphan(e) == e.route # Absent /\ e.handle # e.version
OrphanStays ==
    [][\A e \in Edges : Orphan(edge[e]) =>
           Orphan(edge'[e]) /\ edge'[e].route = edge[e].route]_vars
=============================================================================
