---------------------------- MODULE SdWanProofs ----------------------------
(***************************************************************************)
(* Proofs about the SD-WAN controller, for every number of paths, all      *)
(* intervals, targets and thresholds.  What needs table commands to work   *)
(* assumes ~CliFails; the rest holds however commands fail.                *)
(***************************************************************************)
EXTENDS SdWan, TLAPS

\* Ports are positive, so that they differ from the other routes.
LEMMA PathFacts ==
    /\ \A p \in Paths : p \in Nat /\ p # LiveLiveMcast /\ p # Absent
    /\ FallbackPort \in Paths /\ BackupPort \in Paths
    /\ LiveLiveMcast # Absent
    /\ Plain \in Monitors /\ Paths \subseteq Monitors
BY SdWanAssumption, SMT DEF LiveLiveMcast, Absent, Monitors, FallbackPort, BackupPort

-----------------------------------------------------------------------------
(* Commands *)

EdgeState == [route : Routes, version : Versions,
              handle : Versions \cup {NoHandle, EmptyHandle}]

\* A deletion leaves an edge in a state of the types, with the handle gone.
LEMMA DeletedType ==
    ASSUME NEW e \in EdgeState, NEW ok \in BOOLEAN
    PROVE  Deleted(e, ok) \in EdgeState /\ Deleted(e, ok).handle = NoHandle
BY SMT DEF Deleted, EdgeState, Routes, Versions, NoHandle, EmptyHandle

\* An addition leaves an edge in a state of the types.
LEMMA AddedType ==
    ASSUME NEW e \in EdgeState, NEW r \in Routes, NEW ok \in BOOLEAN
    PROVE  Added(e, r, ok) \in EdgeState
BY SMT DEF Added, EdgeState, Versions, NoHandle, EmptyHandle

\* A failed or a successful command has an outcome that is a Boolean.
LEMMA OutcomesType == Outcomes \subseteq BOOLEAN /\ (~CliFails => Outcomes = {TRUE})
BY SdWanAssumption DEF Outcomes

\* The handle kept for an edge is that of its entry.
Consistent(e) == e.handle = IF e.route = Absent THEN NoHandle ELSE e.version

\* A deletion that works empties an edge whose handle is right.
LEMMA DeletedEmpties ==
    ASSUME NEW e \in EdgeState, Consistent(e)
    PROVE  /\ Deleted(e, TRUE).route = Absent
           /\ Deleted(e, TRUE).handle = NoHandle
           /\ Deleted(e, TRUE) \in EdgeState
BY SMT DEF Deleted, Consistent, EdgeState, Routes, Versions, NoHandle, EmptyHandle, Absent

\* An addition that works sets the route of an edge without entry.
LEMMA AddedSets ==
    ASSUME NEW e \in EdgeState, e.route = Absent, e.handle = NoHandle,
           NEW r \in Routes \ {Absent}
    PROVE  /\ Added(e, r, TRUE).route = r
           /\ Consistent(Added(e, r, TRUE))
           /\ Added(e, r, TRUE) \in EdgeState
BY SMT DEF Added, Consistent, EdgeState, Routes, Versions, NoHandle, EmptyHandle, Absent

\* Deleting and adding moves an edge whose handle is right to the new route.
LEMMA Replaced ==
    ASSUME NEW e \in EdgeState, Consistent(e), NEW r \in Routes \ {Absent}
    PROVE  /\ Added(Deleted(e, TRUE), r, TRUE).route = r
           /\ Consistent(Added(Deleted(e, TRUE), r, TRUE))
BY DeletedEmpties, AddedSets

-----------------------------------------------------------------------------
(* Types *)

\* Clearing the lists of some monitors keeps the types.
LEMMA RestartedType ==
    ASSUME TypeOK, NEW ms \in SUBSET Monitors, Restarted(ms)
    PROVE  /\ prevTs' \in [Monitors -> (0 .. MaxAge) \cup {NoTs}]
           /\ latencies' \in [Monitors -> [known : BOOLEAN, sum : Nat, size : 0 .. MaxSamples]]
           /\ carried' \subseteq Monitors
<1> DEFINE L == [known : BOOLEAN, sum : Nat, size : 0 .. MaxSamples]
<1>1. EmptyList \in L
    BY SdWanAssumption, SMT DEF EmptyList
<1>2. latencies' \in [Monitors -> L]
    BY <1>1 DEF Restarted, TypeOK
<1>3. prevTs' \in [Monitors -> (0 .. MaxAge) \cup {NoTs}]
    BY DEF Restarted, TypeOK
<1>4. carried' \subseteq Monitors
    BY DEF Restarted, TypeOK
<1> QED BY <1>2, <1>3, <1>4

\* Measuring keeps the types.
LEMMA MeasuredType ==
    ASSUME TypeOK, NEW m \in Monitors, Measured(m)
    PROVE  /\ prevTs' \in [Monitors -> (0 .. MaxAge) \cup {NoTs}]
           /\ latencies' \in [Monitors -> [known : BOOLEAN, sum : Nat, size : 0 .. MaxSamples]]
           /\ carried' \subseteq Monitors
<1> DEFINE L == [known : BOOLEAN, sum : Nat, size : 0 .. MaxSamples]
           added == [known |-> TRUE, sum |-> latencies[m].sum + prevTs[m],
                     size |-> latencies[m].size + 1]
<1>1. /\ MaxAge \in Nat /\ MaxSamples \in Nat
      /\ prevTs \in [Monitors -> (0 .. MaxAge) \cup {NoTs}]
      /\ latencies \in [Monitors -> L]
      /\ carried \subseteq Monitors
    BY SdWanAssumption DEF TypeOK
<1>2. CASE prevTs[m] = NoTs
    <2>1. prevTs' = [prevTs EXCEPT ![m] = 0] /\ UNCHANGED <<latencies, carried>>
        BY <1>2 DEF Measured
    <2> QED BY <2>1, <1>1
<1>3. CASE prevTs[m] # NoTs
    <2>1. /\ latencies[m].size < MaxSamples
          /\ latencies' = [latencies EXCEPT ![m] = added]
          /\ prevTs' = [prevTs EXCEPT ![m] = NoTs]
          /\ carried' = carried \ {m}
        BY <1>3 DEF Measured
    <2>2. prevTs[m] \in 0 .. MaxAge
        BY <1>1, <1>3
    <2>3. latencies[m] \in L
        BY <1>1
    <2>4. added \in L
        BY <2>1, <2>2, <2>3, <1>1
    <2>5. latencies' \in [Monitors -> L]
        BY <2>1, <2>4, <1>1
    <2> QED BY <2>1, <2>5, <1>1
<1> QED BY <1>2, <1>3

\* Replacing entries keeps the types.
LEMMA ChangeFlowRouteType ==
    ASSUME NEW sw \in [Edges -> EdgeState], NEW port \in Paths,
           ChangeFlowRoute(sw, port)
    PROVE  edge' \in [Edges -> EdgeState] /\ nullPipeline' \in BOOLEAN
<1>1. PICK del \in [Edges -> Outcomes], add \in [Edges -> Outcomes] :
          edge' = [e \in Edges |-> Added(Deleted(sw[e], del[e]), port, add[e])]
    BY DEF ChangeFlowRoute
<1>2. port \in Routes
    BY DEF Routes
<1>3. ASSUME NEW e \in Edges
      PROVE  Added(Deleted(sw[e], del[e]), port, add[e]) \in EdgeState
    <2>1. del[e] \in BOOLEAN /\ add[e] \in BOOLEAN
        BY OutcomesType
    <2> QED BY <2>1, <1>2, DeletedType, AddedType
<1>4. edge' \in [Edges -> EdgeState]
    BY <1>1, <1>3
<1> QED BY <1>4 DEF ChangeFlowRoute

\* Every step keeps the types.
LEMMA TypeStep == ASSUME TypeOK, [Next]_vars PROVE TypeOK'
<1> SUFFICES ASSUME Next PROVE TypeOK'
    BY DEF TypeOK, vars
<1>e. edge \in [Edges -> EdgeState]
    BY DEF TypeOK, EdgeState
<1>1. ASSUME HostSends PROVE TypeOK'
    <2>1. link' \in [Paths -> Seq({"plain", "live"})]
        BY <1>1 DEF HostSends, TypeOK, Kind
    <2> QED BY <1>1, <2>1 DEF HostSends, TypeOK, controller, measures, Edges
<1>2. ASSUME NEW p \in Paths, PacketArrives(p) PROVE TypeOK'
    <2>1. link' \in [Paths -> Seq({"plain", "live"})]
        BY <1>2 DEF PacketArrives, TypeOK
    <2>2. MonitorOf(p) \in Monitors
        BY PathFacts DEF MonitorOf
    <2>3. /\ prevTs' \in [Monitors -> (0 .. MaxAge) \cup {NoTs}]
          /\ latencies' \in [Monitors -> [known : BOOLEAN, sum : Nat, size : 0 .. MaxSamples]]
          /\ carried' \subseteq Monitors
        <3>1. CASE UNCHANGED <<prevTs, latencies, carried>>
            BY <3>1 DEF TypeOK
        <3>2. CASE Measured(MonitorOf(p))
            BY <3>2, <2>2, MeasuredType
        <3> QED BY <1>2, <3>1, <3>2 DEF PacketArrives
    <2>4. atReceiver' \in 0 .. MaxInFlight
        <3>1. \/ atReceiver' = atReceiver
              \/ atReceiver < MaxInFlight /\ atReceiver' = atReceiver + 1
            BY <1>2, Zenon DEF PacketArrives
        <3>2. atReceiver \in 0 .. MaxInFlight /\ MaxInFlight \in Nat
            BY SdWanAssumption DEF TypeOK
        <3> QED BY <3>1, <3>2
    <2> QED BY <1>2, <2>1, <2>3, <2>4 DEF PacketArrives, TypeOK, controller, Edges
<1>3. ASSUME LatencyIsHigh PROVE TypeOK'
    <2>1. PICK del \in Outcomes, add \in Outcomes :
              edge' = [edge EXCEPT !["e1"] = Added(Deleted(@, del), LiveLiveMcast, add)]
        BY <1>3 DEF LatencyIsHigh, EnableLiveLive
    <2>2. Added(Deleted(edge["e1"], del), LiveLiveMcast, add) \in EdgeState
        <3>1. edge["e1"] \in EdgeState /\ LiveLiveMcast \in Routes
            BY <1>e DEF Edges, Routes
        <3> QED BY <3>1, OutcomesType, DeletedType, AddedType
    <2>3. edge' \in [Edges -> EdgeState]
        BY <2>1, <2>2, <1>e
    <2>4. timers' \subseteq [handler : {"checkLatency", "checkLiveLiveLatency"}, in : Nat]
        BY <1>3, SdWanAssumption DEF LatencyIsHigh, Rescheduled, After, TypeOK
    <2>5. {Plain} \in SUBSET Monitors
        BY PathFacts
    <2> QED BY <1>3, <2>3, <2>4, <2>5, RestartedType
            DEF LatencyIsHigh, EnableLiveLive, TypeOK, EdgeState
<1>4. ASSUME LatencyIsFine PROVE TypeOK'
    <2>1. timers' \subseteq [handler : {"checkLatency", "checkLiveLiveLatency"}, in : Nat]
        BY <1>4, SdWanAssumption DEF LatencyIsFine, Rescheduled, After, TypeOK
    <2>2. {Plain} \in SUBSET Monitors
        BY PathFacts
    <2> QED BY <1>4, <2>1, <2>2, RestartedType DEF LatencyIsFine, TypeOK
<1>5. ASSUME CheckLiveLiveLatency PROVE TypeOK'
    <2>1. timers' \subseteq [handler : {"checkLatency", "checkLiveLiveLatency"}, in : Nat]
        BY <1>5, SdWanAssumption DEF CheckLiveLiveLatency, Rescheduled, After, TypeOK
    <2>2. edge' \in [Edges -> EdgeState] /\ nullPipeline' \in BOOLEAN
        <3>1. PICK del \in Outcomes :
                  \/ /\ edge' = [edge EXCEPT !["e1"] = Deleted(@, del)]
                     /\ nullPipeline' = ("e1" \notin up)
                  \/ \E p \in Paths :
                         ChangeFlowRoute([edge EXCEPT !["e1"] = Deleted(@, del)], p)
            BY <1>5 DEF CheckLiveLiveLatency, DisableLiveLive
        <3>2. [edge EXCEPT !["e1"] = Deleted(@, del)] \in [Edges -> EdgeState]
            BY <1>e, DeletedType, OutcomesType DEF Edges
        <3> QED BY <3>1, <3>2, ChangeFlowRouteType
    <2> QED BY <1>5, <2>1, <2>2, RestartedType, PathFacts
            DEF CheckLiveLiveLatency, TypeOK, EdgeState
<1>6. ASSUME NEW advances \in BOOLEAN, TcpRx(advances) PROVE TypeOK'
    <2>1. edge' \in [Edges -> EdgeState] /\ nullPipeline' \in BOOLEAN
        BY <1>6, <1>e, ChangeFlowRouteType, PathFacts DEF TcpRx, TypeOK
    <2>2. oooPkts' \in 0 .. Threshold - 1 /\ atReceiver' \in 0 .. MaxInFlight
        BY <1>6, SdWanAssumption DEF TcpRx, TypeOK
    <2> QED BY <1>6, <2>1, <2>2 DEF TcpRx, TypeOK, EdgeState, measures
<1>7. ASSUME Tick PROVE TypeOK'
    <2>1. timers' \subseteq [handler : {"checkLatency", "checkLiveLiveLatency"}, in : Nat]
        BY <1>7 DEF Tick, After, TypeOK
    <2>2. prevTs' \in [Monitors -> (0 .. MaxAge) \cup {NoTs}]
        <3>1. \A t \in (0 .. MaxAge) \cup {NoTs} : Older(t) \in (0 .. MaxAge) \cup {NoTs}
            BY SdWanAssumption DEF Older, NoTs
        <3>2. prevTs \in [Monitors -> (0 .. MaxAge) \cup {NoTs}]
            BY DEF TypeOK
        <3>3. prevTs' = [m \in Monitors |-> Older(prevTs[m])]
            BY <1>7 DEF Tick
        <3> QED BY <3>1, <3>2, <3>3
    <2> QED BY <1>7, <2>1, <2>2 DEF Tick, TypeOK
<1>8. ASSUME Stop PROVE TypeOK'
    BY <1>8 DEF Stop, TypeOK, controller, measures
<1> QED BY <1>1, <1>2, <1>3, <1>4, <1>5, <1>6, <1>7, <1>8 DEF Next

\* The types hold at the start.
LEMMA InitTypes == Init => TypeOK
<1> SUFFICES ASSUME Init PROVE TypeOK
    OBVIOUS
<1>1. edge \in [Edges -> [route : Routes, version : Versions,
                          handle : Versions \cup {NoHandle, EmptyHandle}]]
    BY DEF Init, Routes, Versions
<1>2. timers \subseteq [handler : {"checkLatency", "checkLiveLiveLatency"}, in : Nat]
    BY SdWanAssumption DEF Init, After
<1>3. NoList \in [known : BOOLEAN, sum : Nat, size : 0 .. MaxSamples]
    BY SdWanAssumption DEF NoList
<1>4. latencies \in [Monitors -> [known : BOOLEAN, sum : Nat, size : 0 .. MaxSamples]]
    BY <1>3 DEF Init
<1>5. oooPkts \in 0 .. Threshold - 1 /\ atReceiver \in 0 .. MaxInFlight
    BY SdWanAssumption DEF Init
<1>6. /\ prevTs \in [Monitors -> (0 .. MaxAge) \cup {NoTs}]
      /\ link \in [Paths -> Seq({"plain", "live"})]
    BY DEF Init
<1>7. /\ up \subseteq Edges /\ carried \subseteq Monitors /\ heard \subseteq Paths
      /\ llChecking \in BOOLEAN /\ nullPipeline \in BOOLEAN /\ stopped \in BOOLEAN
    BY DEF Init
<1> QED BY <1>1, <1>2, <1>4, <1>5, <1>6, <1>7 DEF TypeOK

\* Every variable keeps its type, whatever commands fail.
THEOREM ControllerTypeCorrect == Spec => []TypeOK
BY InitTypes, TypeStep, PTL DEF Spec

-----------------------------------------------------------------------------
(* Events *)

\* Besides OneTimer: the mode decides which actions are possible.
ModeInv ==
    /\ OneTimer
    /\ Mode = "tcp" => ~llChecking
    /\ Mode = "latency" => atReceiver = 0

\* Which check is due tells whether llChecking is on.
LEMMA DueFacts ==
    ASSUME OneTimer
    PROVE  /\ Due("checkLatency") => ~llChecking /\ timers = {After("checkLatency", 0)}
           /\ Due("checkLiveLiveLatency") =>
                  llChecking /\ timers = {After("checkLiveLiveLatency", 0)}
<1>1. PICK t \in timers : timers = {t} /\ (llChecking <=> t.handler = "checkLiveLiveLatency")
    BY DEF OneTimer
<1>2. \A h, n : After(h, n).handler = h
    BY DEF After
<1>3. ASSUME Due("checkLatency")
      PROVE  ~llChecking /\ timers = {After("checkLatency", 0)}
    BY <1>1, <1>2, <1>3 DEF Due
<1>4. ASSUME Due("checkLiveLiveLatency")
      PROVE  llChecking /\ timers = {After("checkLiveLiveLatency", 0)}
    BY <1>1, <1>2, <1>4 DEF Due
<1> QED BY <1>3, <1>4

\* Every step keeps the one event, whatever commands fail.
LEMMA ModeStep == ASSUME ModeInv, [Next]_vars PROVE ModeInv'
<1>0. OneTimer
    BY DEF ModeInv
<1>m. Mode \in {"latency", "tcp"}
    BY SdWanAssumption
<1>a. ASSUME NEW h, NEW n PROVE After(h, n).handler = h
    BY DEF After
<1>1. ASSUME HostSends PROVE ModeInv'
    BY <1>1 DEF HostSends, ModeInv, OneTimer, controller
<1>2. ASSUME NEW p \in Paths, PacketArrives(p) PROVE ModeInv'
    BY <1>2, <1>m DEF PacketArrives, ModeInv, OneTimer, controller
<1>3. ASSUME LatencyIsHigh PROVE ModeInv'
    <2>1. timers' = {After("checkLiveLiveLatency", ProbeInterval)}
        BY <1>3, <1>0, DueFacts DEF LatencyIsHigh, Rescheduled
    <2>2. llChecking' = TRUE /\ Mode = "latency" /\ atReceiver' = atReceiver
        BY <1>3 DEF LatencyIsHigh, EnableLiveLive
    <2> QED BY <2>1, <2>2, <1>a DEF ModeInv, OneTimer
<1>4. ASSUME LatencyIsFine PROVE ModeInv'
    <2>1. timers' = {After("checkLatency", CheckInterval)} /\ ~llChecking
        BY <1>4, <1>0, DueFacts DEF LatencyIsFine, Rescheduled
    <2>2. llChecking' = llChecking /\ atReceiver' = atReceiver
        BY <1>4 DEF LatencyIsFine
    <2> QED BY <2>1, <2>2, <1>a DEF ModeInv, OneTimer
<1>5. ASSUME CheckLiveLiveLatency PROVE ModeInv'
    <2>1. timers' = {After("checkLatency", CheckInterval)}
        BY <1>5, <1>0, DueFacts DEF CheckLiveLiveLatency, Rescheduled
    <2>2. llChecking' = FALSE /\ atReceiver' = atReceiver
        BY <1>5 DEF CheckLiveLiveLatency
    <2> QED BY <2>1, <2>2, <1>a DEF ModeInv, OneTimer
<1>6. ASSUME NEW advances \in BOOLEAN, TcpRx(advances) PROVE ModeInv'
    BY <1>6, <1>m DEF TcpRx, ModeInv, OneTimer
<1>7. ASSUME Tick PROVE ModeInv'
    <2>1. PICK t \in timers :
              timers = {t} /\ (llChecking <=> t.handler = "checkLiveLiveLatency")
        BY <1>0 DEF OneTimer
    <2>2. timers' = {After(t.handler, t.in - 1)}
        BY <1>7, <2>1 DEF Tick
    <2> QED BY <1>7, <2>1, <2>2, <1>a DEF Tick, ModeInv, OneTimer
<1>8. ASSUME Stop \/ UNCHANGED vars PROVE ModeInv'
    BY <1>8 DEF Stop, controller, vars, ModeInv, OneTimer
<1> QED BY <1>1, <1>2, <1>3, <1>4, <1>5, <1>6, <1>7, <1>8 DEF Next

\* ModeInv holds at the start.
LEMMA ModeInit == Init => ModeInv
<1> SUFFICES ASSUME Init PROVE ModeInv
    OBVIOUS
<1>1. timers = {After("checkLatency", CheckInterval)} /\ llChecking = FALSE /\ atReceiver = 0
    BY DEF Init
<1>2. After("checkLatency", CheckInterval).handler = "checkLatency"
    BY DEF After
<1> QED BY <1>1, <1>2 DEF ModeInv, OneTimer

\* There is always exactly one check scheduled, and it is the one llChecking
\* stands for.
THEOREM OneCheckScheduled == Spec => []OneTimer
<1>1. ModeInv => OneTimer
    BY DEF ModeInv
<1> QED BY <1>1, ModeInit, ModeStep, PTL DEF Spec

-----------------------------------------------------------------------------
(* Routes, when commands work *)

\* enableLiveLive gives e1 the entry that copies packets.
LEMMA EnableEffect ==
    ASSUME TypeOK, ~CliFails, HandlesMatchTables, EnableLiveLive
    PROVE  /\ HandlesMatchTables'
           /\ edge'["e1"].route = LiveLiveMcast
           /\ edge'["e2"] = edge["e2"]
<1>1. edge \in [Edges -> EdgeState] /\ \A e \in Edges : Consistent(edge[e])
    BY DEF TypeOK, EdgeState, HandlesMatchTables, Consistent
<1>2. edge' = [edge EXCEPT !["e1"] = Added(Deleted(@, TRUE), LiveLiveMcast, TRUE)]
    BY OutcomesType DEF EnableLiveLive
<1>3. /\ edge'["e1"] = Added(Deleted(edge["e1"], TRUE), LiveLiveMcast, TRUE)
      /\ edge'["e2"] = edge["e2"]
    BY <1>1, <1>2 DEF Edges
<1>4. LiveLiveMcast \in Routes \ {Absent}
    BY PathFacts DEF Routes
<1>5. edge'["e1"].route = LiveLiveMcast /\ Consistent(edge'["e1"])
    BY <1>1, <1>3, <1>4, Replaced DEF Edges
<1> QED BY <1>1, <1>3, <1>5 DEF HandlesMatchTables, Consistent, Edges

\* changeFlowRoute gives both edges an entry for the port.
LEMMA ChangeEffect ==
    ASSUME ~CliFails, NEW sw \in [Edges -> EdgeState],
           \A e \in Edges : Consistent(sw[e]), NEW port \in Paths,
           ChangeFlowRoute(sw, port)
    PROVE  HandlesMatchTables' /\ \A e \in Edges : edge'[e].route = port
<1>1. edge' = [e \in Edges |-> Added(Deleted(sw[e], TRUE), port, TRUE)]
    <2>1. PICK del \in [Edges -> Outcomes], add \in [Edges -> Outcomes] :
              edge' = [e \in Edges |-> Added(Deleted(sw[e], del[e]), port, add[e])]
        BY DEF ChangeFlowRoute
    <2>2. \A e \in Edges : del[e] = TRUE /\ add[e] = TRUE
        BY OutcomesType
    <2> QED BY <2>1, <2>2
<1>2. port \in Routes \ {Absent}
    BY PathFacts DEF Routes
<1>3. \A e \in Edges : edge'[e].route = port /\ Consistent(edge'[e])
    BY <1>1, <1>2, Replaced
<1> QED BY <1>3 DEF HandlesMatchTables, Consistent

\* The comparison leaves e1 without entry and e2 as it is, or both edges with
\* the entry of a path that was measured.
LEMMA CompareEffect ==
    ASSUME TypeOK, ~CliFails, HandlesMatchTables, CheckLiveLiveLatency
    PROVE  /\ HandlesMatchTables'
           /\ \/ edge'["e1"].route = Absent /\ edge'["e2"] = edge["e2"]
              \/ \E p \in HasAverage : \A e \in Edges : edge'[e].route = p
<1> DEFINE disabled == [edge EXCEPT !["e1"] = Deleted(@, TRUE)]
<1>1. edge \in [Edges -> EdgeState] /\ \A e \in Edges : Consistent(edge[e])
    BY DEF TypeOK, EdgeState, HandlesMatchTables, Consistent
<1>2. /\ disabled \in [Edges -> EdgeState]
      /\ disabled["e1"] = Deleted(edge["e1"], TRUE)
      /\ disabled["e2"] = edge["e2"]
    BY <1>1, DeletedType DEF Edges
<1>3. /\ disabled["e1"].route = Absent /\ disabled["e1"].handle = NoHandle
    BY <1>1, <1>2, DeletedEmpties DEF Edges
<1>4. \A e \in Edges : Consistent(disabled[e])
    BY <1>1, <1>2, <1>3 DEF Consistent, Edges
<1>5. \/ edge' = disabled
      \/ \E p \in HasAverage : p \in Paths /\ ChangeFlowRoute(disabled, p)
    <2>1. Outcomes = {TRUE}
        BY OutcomesType
    <2>2. \A p : IsBest(p) => p \in HasAverage
        BY DEF IsBest
    <2> QED BY <2>1, <2>2 DEF CheckLiveLiveLatency, DisableLiveLive
<1>6. ASSUME edge' = disabled
      PROVE  HandlesMatchTables' /\ edge'["e1"].route = Absent /\ edge'["e2"] = edge["e2"]
    <2>1. \A e \in Edges : Consistent(edge'[e])
        BY <1>6, <1>4
    <2>2. edge'["e1"].route = Absent /\ edge'["e2"] = edge["e2"]
        BY <1>6, <1>2, <1>3
    <2> QED BY <2>1, <2>2 DEF HandlesMatchTables, Consistent
<1>7. ASSUME NEW p \in HasAverage, p \in Paths, ChangeFlowRoute(disabled, p)
      PROVE  HandlesMatchTables' /\ \A e \in Edges : edge'[e].route = p
    BY <1>7, <1>2, <1>4, ChangeEffect
<1> QED BY <1>5, <1>6, <1>7

\* The invariant of routes, modes and types.
RouteInv ==
    /\ TypeOK
    /\ ModeInv
    /\ HandlesMatchTables
    /\ RoutesAgree
    /\ CopiesAreMeasured

\* The route of a flow follows from the entry of e1.
LEMMA RouteFacts ==
    /\ edge["e1"].route = Absent => CurrentRoute \in Paths
    /\ edge["e1"].route # Absent => CurrentRoute = edge["e1"].route
    /\ edge'["e1"].route = Absent => CurrentRoute' \in Paths
    /\ edge'["e1"].route # Absent => CurrentRoute' = edge'["e1"].route
BY PathFacts DEF CurrentRoute

\* The flow has one path, or is copied.
LEMMA RouteType == ASSUME TypeOK PROVE CurrentRoute \in Paths \cup {LiveLiveMcast}
<1>1. edge["e1"].route \in Routes
    BY DEF TypeOK, Edges
<1> QED BY <1>1, RouteFacts DEF Routes

\* Every step keeps handles, agreement of the edges and the mode's route.
LEMMA RouteStep == ASSUME ~CliFails, RouteInv, [Next]_vars PROVE RouteInv'
<1>1. TypeOK' /\ ModeInv'
    BY TypeStep, ModeStep DEF RouteInv
<1> SUFFICES HandlesMatchTables' /\ RoutesAgree' /\ CopiesAreMeasured'
    BY <1>1 DEF RouteInv
<1>i. /\ TypeOK /\ ModeInv /\ OneTimer
      /\ HandlesMatchTables /\ RoutesAgree /\ CopiesAreMeasured
    BY DEF RouteInv, ModeInv
<1>2. ASSUME UNCHANGED <<edge, llChecking>>
      PROVE  HandlesMatchTables' /\ RoutesAgree' /\ CopiesAreMeasured'
    BY <1>2, <1>i DEF HandlesMatchTables, RoutesAgree, CopiesAreMeasured, CurrentRoute
<1>3. ASSUME LatencyIsHigh
      PROVE  HandlesMatchTables' /\ RoutesAgree' /\ CopiesAreMeasured'
    <2>1. EnableLiveLive
        BY <1>3 DEF LatencyIsHigh
    <2>2. HandlesMatchTables' /\ edge'["e1"].route = LiveLiveMcast
        BY <2>1, <1>i, EnableEffect
    <2>3. llChecking' = TRUE /\ CurrentRoute' = LiveLiveMcast
        BY <2>1, <2>2, RouteFacts, PathFacts DEF EnableLiveLive
    <2> QED BY <2>2, <2>3, PathFacts DEF RoutesAgree, CopiesAreMeasured
<1>4. ASSUME CheckLiveLiveLatency
      PROVE  HandlesMatchTables' /\ RoutesAgree' /\ CopiesAreMeasured'
    <2>1. /\ HandlesMatchTables'
          /\ \/ edge'["e1"].route = Absent
             \/ \E p \in Paths : \A e \in Edges : edge'[e].route = p
        BY <1>4, <1>i, CompareEffect DEF HasAverage
    <2>2. RoutesAgree' /\ CurrentRoute' \in Paths
        BY <2>1, RouteFacts, PathFacts DEF RoutesAgree, Edges
    <2>3. llChecking' = FALSE
        BY <1>4 DEF CheckLiveLiveLatency
    <2> QED BY <2>1, <2>2, <2>3, PathFacts DEF CopiesAreMeasured
<1>5. ASSUME NEW advances \in BOOLEAN, TcpRx(advances)
      PROVE  HandlesMatchTables' /\ RoutesAgree' /\ CopiesAreMeasured'
    <2>1. CASE edge' = edge
        BY <1>2, <1>5, <2>1 DEF TcpRx
    <2>2. CASE ChangeFlowRoute(edge, BackupPort)
        <3>1. edge \in [Edges -> EdgeState] /\ \A e \in Edges : Consistent(edge[e])
            BY <1>i DEF TypeOK, EdgeState, HandlesMatchTables, Consistent
        <3>2. HandlesMatchTables' /\ \A e \in Edges : edge'[e].route = BackupPort
            BY <2>2, <3>1, PathFacts, ChangeEffect
        <3>3. RoutesAgree' /\ CurrentRoute' = BackupPort
            BY <3>2, RouteFacts, PathFacts DEF RoutesAgree, Edges
        <3>4. ~llChecking /\ llChecking' = llChecking
            <4>1. atReceiver > 0 /\ llChecking' = llChecking
                BY <1>5 DEF TcpRx
            <4>2. Mode = "tcp"
                BY <4>1, <1>i, SdWanAssumption DEF ModeInv
            <4> QED BY <4>1, <4>2, <1>i DEF ModeInv
        <3> QED BY <3>2, <3>3, <3>4, PathFacts DEF CopiesAreMeasured
    <2> QED BY <1>5, <2>1, <2>2 DEF TcpRx
<1>6. ASSUME \/ HostSends \/ \E p \in Paths : PacketArrives(p)
             \/ LatencyIsFine \/ Tick \/ Stop \/ UNCHANGED vars
      PROVE  UNCHANGED <<edge, llChecking>>
    BY <1>6 DEF HostSends, PacketArrives, LatencyIsFine, Tick, Stop, controller, vars
<1> QED BY <1>2, <1>3, <1>4, <1>5, <1>6 DEF Next

\* The invariant holds at the start.
LEMMA RouteInit == Init => RouteInv
<1> SUFFICES ASSUME Init PROVE RouteInv
    OBVIOUS
<1>1. TypeOK /\ ModeInv
    BY InitTypes, ModeInit
<1>2. \A e \in Edges : edge[e].route = Absent /\ edge[e].handle = NoHandle
    BY DEF Init
<1>3. llChecking = FALSE
    BY DEF Init
<1> QED BY <1>1, <1>2, <1>3, PathFacts, RouteFacts
        DEF RouteInv, HandlesMatchTables, RoutesAgree, CopiesAreMeasured, Edges

\* When no command fails, the controller never loses the handle of an entry nor
\* keeps one of an entry that is gone.
THEOREM HandlesAreRight == ASSUME ~CliFails PROVE Spec => []HandlesMatchTables
<1>1. RouteInv => HandlesMatchTables
    BY DEF RouteInv
<1> QED BY <1>1, RouteInit, RouteStep, PTL DEF Spec

\* When no command fails, a flow with a path of its own at e1 has the same one
\* for its answers at e2.
THEOREM DirectionsAgree == ASSUME ~CliFails PROVE Spec => []RoutesAgree
<1>1. RouteInv => RoutesAgree
    BY DEF RouteInv
<1> QED BY <1>1, RouteInit, RouteStep, PTL DEF Spec

\* When no command fails, packets are copied exactly while the trace at e2
\* measures copies.
THEOREM ModeMatchesRoute == ASSUME ~CliFails PROVE Spec => []CopiesAreMeasured
<1>1. RouteInv => CopiesAreMeasured
    BY DEF RouteInv
<1> QED BY <1>1, RouteInit, RouteStep, PTL DEF Spec

\* When no command fails, the answers move to a path only together with the
\* flow, in both modes: falling back moves the flow alone.
THEOREM AnswersOnlyMoveWithFlow == ASSUME ~CliFails PROVE Spec => AnswersMoveWithFlow
<1> DEFINE Together == edge'["e1"].route \in Paths /\ edge'["e2"].route = edge'["e1"].route
           Moved == edge'["e2"].route # edge["e2"].route =>
                        /\ edge'["e2"].route \in Paths
                        /\ edge'["e1"].route = edge'["e2"].route
<1>1. ASSUME RouteInv, [Next]_vars PROVE [Moved]_vars
    <2> SUFFICES ASSUME Next PROVE edge'["e2"] = edge["e2"] \/ Together
        BY <1>1
    <2>i. TypeOK /\ HandlesMatchTables
        BY <1>1 DEF RouteInv
    <2>1. CASE LatencyIsHigh
        BY <2>1, <2>i, EnableEffect DEF LatencyIsHigh
    <2>2. CASE CheckLiveLiveLatency
        BY <2>2, <2>i, CompareEffect DEF HasAverage, Edges
    <2>3. ASSUME NEW advances \in BOOLEAN, TcpRx(advances), edge' # edge
          PROVE  Together
        <3>1. ChangeFlowRoute(edge, BackupPort)
            BY <2>3 DEF TcpRx
        <3>2. edge \in [Edges -> EdgeState] /\ \A e \in Edges : Consistent(edge[e])
            BY <2>i DEF TypeOK, EdgeState, HandlesMatchTables, Consistent
        <3>3. \A e \in Edges : edge'[e].route = BackupPort
            BY <3>1, <3>2, PathFacts, ChangeEffect
        <3> QED BY <3>3, PathFacts DEF Edges
    <2>4. ASSUME \/ HostSends \/ \E p \in Paths : PacketArrives(p)
                 \/ LatencyIsFine \/ Tick \/ Stop
          PROVE  edge' = edge
        BY <2>4 DEF HostSends, PacketArrives, LatencyIsFine, Tick, Stop, controller
    <2> QED BY <2>1, <2>2, <2>3, <2>4 DEF Next
<1> QED BY <1>1, RouteInit, RouteStep, PTL DEF Spec, AnswersMoveWithFlow

\* When no command fails, the tcp mode never takes a flow off the backup path.
THEOREM BackupIsFinal ==
    ASSUME ~CliFails, Mode = "tcp" PROVE Spec => BackupIsKept
<1> DEFINE Kept == edge["e1"].route = BackupPort =>
                       \A e \in Edges : edge'[e].route = BackupPort
<1>1. ASSUME RouteInv, [Next]_vars PROVE [Kept]_vars
    <2> SUFFICES ASSUME Next, edge["e1"].route = BackupPort
                 PROVE  \A e \in Edges : edge'[e].route = BackupPort
        BY <1>1
    <2>1. \A e \in Edges : edge[e].route = BackupPort
        BY <1>1, PathFacts DEF RouteInv, RoutesAgree, Edges
    <2>2. CASE edge' = edge
        BY <2>1, <2>2
    <2>3. ASSUME NEW advances \in BOOLEAN, TcpRx(advances), edge' # edge
          PROVE  \A e \in Edges : edge'[e].route = BackupPort
        <3>1. ChangeFlowRoute(edge, BackupPort)
            BY <2>3 DEF TcpRx
        <3>2. edge \in [Edges -> EdgeState] /\ \A e \in Edges : Consistent(edge[e])
            BY <1>1 DEF RouteInv, TypeOK, EdgeState, HandlesMatchTables, Consistent
        <3> QED BY <3>1, <3>2, PathFacts, ChangeEffect
    <2>4. ~LatencyIsHigh
        BY DEF LatencyIsHigh
    <2>5. ~CheckLiveLiveLatency
        <3>1. OneTimer /\ ~llChecking
            BY <1>1 DEF RouteInv, ModeInv
        <3> QED BY <3>1, DueFacts DEF CheckLiveLiveLatency
    <2>6. ASSUME \/ HostSends \/ \E p \in Paths : PacketArrives(p)
                 \/ LatencyIsFine \/ Tick \/ Stop
          PROVE  edge' = edge
        BY <2>6 DEF HostSends, PacketArrives, LatencyIsFine, Tick, Stop, controller
    <2> QED BY <2>2, <2>3, <2>4, <2>5, <2>6 DEF Next
<1> QED BY <1>1, RouteInit, RouteStep, PTL DEF Spec, BackupIsKept

\* When no command fails, the latency mode changes the path of a flow only by
\* way of a comparison (the safety part of RouteControl).
THEOREM ControllerIsRouteControl ==
    ASSUME ~CliFails, Mode = "latency" PROVE Spec => Service!SafeSpec
<1>1. Init => Service!Init
    <2> SUFFICES ASSUME Init PROVE CurrentRoute \in Paths
        BY DEF Init, Service!Init
    <2>1. edge["e1"].route = Absent
        BY DEF Init, Edges
    <2> QED BY <2>1, RouteFacts
<1>2. ASSUME RouteInv, RouteInv', [Next]_vars
      PROVE  [Service!Next]_<<CurrentRoute, stopped>>
    <2>i. /\ TypeOK /\ TypeOK' /\ ModeInv /\ OneTimer /\ HandlesMatchTables
          /\ CopiesAreMeasured /\ CopiesAreMeasured'
        BY <1>2 DEF RouteInv, ModeInv
    <2>1. CASE UNCHANGED <<edge, stopped>>
        BY <2>1 DEF CurrentRoute
    <2>2. CASE LatencyIsHigh
        <3>1. ~llChecking /\ llChecking' = TRUE
            BY <2>2, <2>i, DueFacts DEF LatencyIsHigh, EnableLiveLive
        <3>2. CurrentRoute \in Paths /\ CurrentRoute' = LiveLiveMcast
            BY <3>1, <2>i, RouteType DEF CopiesAreMeasured
        <3>3. ~stopped /\ stopped' = stopped
            BY <2>2 DEF LatencyIsHigh, Due
        <3> QED BY <3>2, <3>3 DEF Service!Next, Service!Compare
    <2>3. CASE CheckLiveLiveLatency
        <3>1. llChecking
            BY <2>3, <2>i, DueFacts DEF CheckLiveLiveLatency
        <3>2. \/ edge'["e1"].route = Absent
              \/ \E p \in Paths : \A e \in Edges : edge'[e].route = p
            BY <2>3, <2>i, CompareEffect DEF HasAverage
        <3>3. CurrentRoute = LiveLiveMcast /\ CurrentRoute' \in Paths
            BY <3>1, <3>2, <2>i, RouteFacts, PathFacts DEF CopiesAreMeasured, Edges
        <3>4. ~stopped /\ stopped' = stopped
            BY <2>3 DEF CheckLiveLiveLatency, Due
        <3> QED BY <3>3, <3>4 DEF Service!Next, Service!Choose
    <2>4. ASSUME \/ HostSends \/ \E p \in Paths : PacketArrives(p)
                 \/ LatencyIsFine \/ Tick \/ UNCHANGED vars
          PROVE  UNCHANGED <<edge, stopped>>
        BY <2>4 DEF HostSends, PacketArrives, LatencyIsFine, Tick, controller, vars
    <2>5. ~\E advances \in BOOLEAN : TcpRx(advances)
        <3>1. atReceiver = 0
            BY <2>i DEF ModeInv
        <3> QED BY <3>1 DEF TcpRx
    <2>6. CASE Stop
        <3>1. ~stopped /\ stopped' = TRUE /\ edge' = edge
            BY <2>6 DEF Stop, controller
        <3>2. CurrentRoute' = CurrentRoute
            BY <3>1 DEF CurrentRoute
        <3> QED BY <3>1, <3>2 DEF Service!Next, Service!End
    <2> QED BY <1>2, <2>1, <2>2, <2>3, <2>4, <2>5, <2>6 DEF Next
<1> QED BY <1>1, <1>2, RouteInit, RouteStep, PTL DEF Spec, Service!SafeSpec

-----------------------------------------------------------------------------
(* Pipelines, however commands fail *)

\* Whatever makes the controller run a command began with a packet that
\* crossed both edges.
PipelineInv ==
    /\ PipelineExists
    /\ up \subseteq Edges
    /\ \A p \in Paths : link[p] # << >> => "e1" \in up
    /\ \A m \in Monitors : prevTs[m] # NoTs \/ latencies[m].size > 0 => up = Edges
    /\ llChecking \/ atReceiver > 0 => up = Edges

\* Clearing lists creates no measurement.
LEMMA RestartedClears ==
    ASSUME TypeOK, NEW ms \in SUBSET Monitors, Restarted(ms), NEW m \in Monitors
    PROVE  /\ prevTs'[m] # NoTs => prevTs[m] # NoTs
           /\ latencies'[m].size > 0 => latencies[m].size > 0
<1>1. CASE m \in ms /\ latencies[m].known
    <2>1. latencies'[m] = EmptyList /\ prevTs'[m] = NoTs
        BY <1>1 DEF Restarted
    <2>2. EmptyList.size = 0
        BY DEF EmptyList
    <2> QED BY <2>1, <2>2
<1>2. CASE ~(m \in ms /\ latencies[m].known)
    BY <1>2 DEF Restarted
<1> QED BY <1>1, <1>2

\* Every step keeps the pipelines in step with the measurements.
LEMMA PipelineStep ==
    ASSUME TypeOK, TypeOK', ModeInv, PipelineInv, [Next]_vars PROVE PipelineInv'
<1>0. OneTimer
    BY DEF ModeInv
<1>u. up' \subseteq Edges
    BY DEF TypeOK
<1>1. ASSUME HostSends PROVE PipelineInv'
    <2>1. "e1" \in up' /\ up \subseteq up'
        BY <1>1 DEF HostSends
    <2> QED BY <1>1, <1>u, <2>1 DEF HostSends, PipelineInv, PipelineExists, controller, measures
<1>2. ASSUME NEW p \in Paths, PacketArrives(p) PROVE PipelineInv'
    <2>1. up' = Edges /\ nullPipeline' = nullPipeline
        BY <1>2 DEF PacketArrives, PipelineInv, Edges
    <2> QED BY <2>1 DEF PipelineInv, PipelineExists, Edges
<1>3. ASSUME LatencyIsHigh PROVE PipelineInv'
    <2>1. up = Edges /\ up' = up /\ link' = link
        BY <1>3, PathFacts DEF LatencyIsHigh, AverageTooHigh, PipelineInv
    <2>2. nullPipeline' = FALSE
        BY <1>3, <2>1 DEF LatencyIsHigh, EnableLiveLive, Edges
    <2> QED BY <2>1, <2>2 DEF PipelineInv, PipelineExists, Edges
<1>4. ASSUME LatencyIsFine PROVE PipelineInv'
    <2>1. \A m \in Monitors :
              /\ prevTs'[m] # NoTs => prevTs[m] # NoTs
              /\ latencies'[m].size > 0 => latencies[m].size > 0
        BY <1>4, PathFacts, RestartedClears DEF LatencyIsFine
    <2>2. UNCHANGED <<up, llChecking, link, atReceiver, nullPipeline>>
        BY <1>4 DEF LatencyIsFine
    <2> QED BY <2>1, <2>2 DEF PipelineInv, PipelineExists
<1>5. ASSUME CheckLiveLiveLatency PROVE PipelineInv'
    <2>1. up = Edges /\ up' = up /\ link' = link
        BY <1>5, <1>0, DueFacts DEF CheckLiveLiveLatency, PipelineInv
    <2>2. nullPipeline' = FALSE
        BY <1>5, <2>1 DEF CheckLiveLiveLatency, ChangeFlowRoute, Edges
    <2> QED BY <2>1, <2>2 DEF PipelineInv, PipelineExists, Edges
<1>6. ASSUME NEW advances \in BOOLEAN, TcpRx(advances) PROVE PipelineInv'
    <2>1. up = Edges /\ up' = up /\ link' = link
        BY <1>6 DEF TcpRx, PipelineInv
    <2>2. nullPipeline' = FALSE
        BY <1>6, <2>1 DEF TcpRx, ChangeFlowRoute, PipelineInv, PipelineExists
    <2> QED BY <2>1, <2>2 DEF PipelineInv, PipelineExists, Edges
<1>7. ASSUME Tick PROVE PipelineInv'
    <2>1. \A m \in Monitors : prevTs'[m] # NoTs => prevTs[m] # NoTs
        BY <1>7 DEF Tick, Older
    <2> QED BY <1>7, <2>1 DEF Tick, PipelineInv, PipelineExists
<1>8. ASSUME Stop \/ UNCHANGED vars PROVE PipelineInv'
    BY <1>8 DEF Stop, controller, measures, vars, PipelineInv, PipelineExists
<1> QED BY <1>1, <1>2, <1>3, <1>4, <1>5, <1>6, <1>7, <1>8 DEF Next

\* No table command runs before the pipelines exist, in either mode and however
\* commands fail.
THEOREM CommandsFindPipelines == Spec => []PipelineExists
<1>1. Init => PipelineInv
    BY DEF Init, PipelineInv, PipelineExists, NoList
<1>2. PipelineInv => PipelineExists
    BY DEF PipelineInv
<1> QED BY <1>1, <1>2, InitTypes, TypeStep, ModeInit, ModeStep, PipelineStep, PTL DEF Spec

-----------------------------------------------------------------------------
(* Measurements, however commands fail *)

\* Besides the two properties: a list with gaps exists, and during a comparison
\* only paths that delivered a copy have gaps.
MeasureInv ==
    /\ MeasuresMatchMode
    /\ OnlyFirstGapIsCarried
    /\ \A m \in Monitors : latencies[m].size > 0 => latencies[m].known
    /\ llChecking => HasAverage \subseteq heard

\* What the end of a period does to the monitors it concerns.
LEMMA RestartedEffect ==
    ASSUME TypeOK, MeasureInv, NEW ms \in SUBSET Monitors, Restarted(ms)
    PROVE  /\ \A m \in Monitors \ ms : latencies'[m] = latencies[m] /\ prevTs'[m] = prevTs[m]
           /\ \A m \in ms :
                  /\ latencies'[m].size = 0
                  /\ latencies'[m].known = latencies[m].known
                  /\ latencies'[m].known => prevTs'[m] = NoTs
           /\ OnlyFirstGapIsCarried'
<1>1. EmptyList.size = 0 /\ EmptyList.known = TRUE
    BY DEF EmptyList
<1>t. \A m \in Monitors :
          /\ latencies[m].size \in Nat
          /\ latencies[m].known \in BOOLEAN
    BY SdWanAssumption DEF TypeOK
<1>2. ASSUME NEW m \in Monitors \ ms
      PROVE  latencies'[m] = latencies[m] /\ prevTs'[m] = prevTs[m]
    BY <1>2 DEF Restarted
<1>3. ASSUME NEW m \in ms, latencies[m].known
      PROVE  latencies'[m] = EmptyList /\ prevTs'[m] = NoTs /\ m \notin carried'
    BY <1>3 DEF Restarted
<1>4. ASSUME NEW m \in ms, ~latencies[m].known
      PROVE  latencies'[m] = latencies[m] /\ prevTs'[m] = prevTs[m]
    BY <1>4 DEF Restarted
<1>5. ASSUME NEW m \in ms
      PROVE  /\ latencies'[m].size = 0
             /\ latencies'[m].known = latencies[m].known
             /\ latencies'[m].known => prevTs'[m] = NoTs
    <2>1. CASE latencies[m].known
        BY <2>1, <1>1, <1>3, <1>t
    <2>2. CASE ~latencies[m].known
        BY <2>2, <1>4, <1>t DEF MeasureInv
    <2> QED BY <2>1, <2>2
<1>6. ASSUME NEW m \in carried'
      PROVE  prevTs'[m] # NoTs /\ ~latencies'[m].known
    <2>1. CASE m \in ms
        <3>1. ~latencies[m].known
            BY <1>3, <1>6, <2>1
        <3>2. prevTs[m] # NoTs
            BY <1>6, <2>1 DEF Restarted, MeasureInv, OnlyFirstGapIsCarried
        <3> QED BY <1>4, <2>1, <3>1, <3>2
    <2>2. CASE m \notin ms
        <3>1. m \in carried
            BY <1>6, <2>2 DEF Restarted
        <3>2. m \in Monitors
            BY <3>1 DEF TypeOK
        <3> QED BY <1>2, <2>2, <3>1, <3>2 DEF MeasureInv, OnlyFirstGapIsCarried
    <2> QED BY <2>1, <2>2
<1> QED BY <1>2, <1>5, <1>6 DEF OnlyFirstGapIsCarried

\* What measuring a packet does.
LEMMA MeasuredEffect ==
    ASSUME TypeOK, MeasureInv, NEW n \in Monitors, Measured(n)
    PROVE  /\ \A m \in Monitors \ {n} : latencies'[m] = latencies[m] /\ prevTs'[m] = prevTs[m]
           /\ latencies'[n].size > 0 => latencies'[n].known
           /\ OnlyFirstGapIsCarried'
<1>t. /\ prevTs \in [Monitors -> (0 .. MaxAge) \cup {NoTs}]
      /\ latencies \in [Monitors -> [known : BOOLEAN, sum : Nat, size : 0 .. MaxSamples]]
      /\ carried \subseteq Monitors
    BY DEF TypeOK
<1>1. CASE prevTs[n] = NoTs
    <2>1. prevTs' = [prevTs EXCEPT ![n] = 0] /\ UNCHANGED <<latencies, carried>>
        BY <1>1 DEF Measured
    <2>2. n \notin carried
        BY <1>1 DEF MeasureInv, OnlyFirstGapIsCarried
    <2>3. \A m \in carried : prevTs'[m] = prevTs[m]
        BY <2>1, <2>2, <1>t
    <2> QED BY <2>1, <2>3, <1>t DEF MeasureInv, OnlyFirstGapIsCarried
<1>2. CASE prevTs[n] # NoTs
    <2> DEFINE added == [known |-> TRUE, sum |-> latencies[n].sum + prevTs[n],
                         size |-> latencies[n].size + 1]
    <2>1. /\ latencies' = [latencies EXCEPT ![n] = added]
          /\ prevTs' = [prevTs EXCEPT ![n] = NoTs]
          /\ carried' = carried \ {n}
        BY <1>2 DEF Measured
    <2>2. latencies'[n].known
        BY <2>1, <1>t
    <2>3. \A m \in Monitors \ {n} : latencies'[m] = latencies[m] /\ prevTs'[m] = prevTs[m]
        BY <2>1, <1>t
    <2> QED BY <2>1, <2>2, <2>3, <1>t DEF MeasureInv, OnlyFirstGapIsCarried
<1> QED BY <1>1, <1>2

\* Every step keeps the measurements in their mode and period.
LEMMA MeasureStep ==
    ASSUME TypeOK, ModeInv, MeasureInv, [Next]_vars PROVE MeasureInv'
<1>0. OneTimer
    BY DEF ModeInv
<1>p. Plain \in Monitors /\ Paths \subseteq Monitors /\ Plain \notin Paths
    BY PathFacts DEF Plain, LiveLiveMcast
<1>t. \A m \in Monitors : latencies[m].size \in Nat
    BY SdWanAssumption DEF TypeOK
<1>1. ASSUME UNCHANGED <<latencies, prevTs, carried, heard, llChecking>>
      PROVE  MeasureInv'
    BY <1>1 DEF MeasureInv, MeasuresMatchMode, OnlyFirstGapIsCarried, HasAverage
<1>2. ASSUME NEW p \in Paths, PacketArrives(p) PROVE MeasureInv'
    <2>1. llChecking' = llChecking /\ heard \subseteq heard'
        BY <1>2 DEF PacketArrives, controller
    <2>2. CASE UNCHANGED <<prevTs, latencies, carried>>
        BY <2>1, <2>2 DEF MeasureInv, MeasuresMatchMode, OnlyFirstGapIsCarried, HasAverage
    <2>3. CASE Measured(MonitorOf(p)) /\ (Head(link[p]) = "live") = llChecking
        <3> DEFINE n == MonitorOf(p)
        <3>1. n \in Monitors
            BY <1>p DEF MonitorOf
        <3>2. /\ \A m \in Monitors \ {n} :
                     latencies'[m] = latencies[m] /\ prevTs'[m] = prevTs[m]
              /\ latencies'[n].size > 0 => latencies'[n].known
              /\ OnlyFirstGapIsCarried'
            BY <2>3, <3>1, MeasuredEffect
        <3>3. \A m \in Monitors : latencies'[m].size > 0 => latencies'[m].known
            BY <3>2 DEF MeasureInv
        <3>4. CASE llChecking
            <4>1. n = p /\ heard' = heard \cup {p}
                BY <1>2, <2>3, <3>4 DEF PacketArrives, MonitorOf
            <4>2. latencies'[Plain] = latencies[Plain] /\ prevTs'[Plain] = prevTs[Plain]
                BY <3>2, <4>1, <1>p
            <4>3. MeasuresMatchMode'
                BY <2>1, <3>4, <4>2 DEF MeasureInv, MeasuresMatchMode
            <4>4. HasAverage' \subseteq heard'
                BY <3>2, <3>4, <4>1, <1>p DEF MeasureInv, HasAverage
            <4> QED BY <3>2, <3>3, <4>3, <4>4 DEF MeasureInv
        <3>5. CASE ~llChecking
            <4>1. n = Plain
                BY <3>5 DEF MonitorOf
            <4>2. \A q \in Paths : latencies'[q] = latencies[q] /\ prevTs'[q] = prevTs[q]
                BY <3>2, <4>1, <1>p
            <4>3. MeasuresMatchMode'
                BY <2>1, <3>5, <4>2 DEF MeasureInv, MeasuresMatchMode
            <4> QED BY <2>1, <3>2, <3>3, <3>5, <4>3 DEF MeasureInv
        <3> QED BY <3>4, <3>5
    <2> QED BY <1>2, <2>2, <2>3 DEF PacketArrives
<1>3. ASSUME LatencyIsHigh PROVE MeasureInv'
    <2>1. ~llChecking /\ llChecking' = TRUE /\ Restarted({Plain}) /\ latencies[Plain].size > 0
        BY <1>3, <1>0, DueFacts DEF LatencyIsHigh, EnableLiveLive, AverageTooHigh
    <2>2. /\ \A m \in Monitors \ {Plain} : latencies'[m] = latencies[m]
          /\ latencies'[Plain].size = 0
          /\ latencies'[Plain].known => prevTs'[Plain] = NoTs
          /\ latencies'[Plain].known = latencies[Plain].known
          /\ OnlyFirstGapIsCarried'
        BY <2>1, <1>p, RestartedEffect
    <2>3. MeasuresMatchMode'
        BY <2>1, <2>2, <1>p DEF MeasureInv, MeasuresMatchMode
    <2>4. HasAverage' = {}
        BY <2>1, <2>2, <1>p DEF MeasureInv, MeasuresMatchMode, HasAverage
    <2>5. \A m \in Monitors : latencies'[m].size > 0 => latencies'[m].known
        BY <2>2 DEF MeasureInv
    <2> QED BY <2>2, <2>3, <2>4, <2>5 DEF MeasureInv
<1>4. ASSUME LatencyIsFine PROVE MeasureInv'
    <2>1. ~llChecking /\ llChecking' = llChecking /\ Restarted({Plain})
        BY <1>4, <1>0, DueFacts DEF LatencyIsFine
    <2>2. /\ \A m \in Monitors \ {Plain} : latencies'[m] = latencies[m] /\ prevTs'[m] = prevTs[m]
          /\ latencies'[Plain].size = 0
          /\ OnlyFirstGapIsCarried'
        BY <2>1, <1>p, RestartedEffect
    <2>3. MeasuresMatchMode'
        BY <2>1, <2>2, <1>p DEF MeasureInv, MeasuresMatchMode
    <2>4. \A m \in Monitors : latencies'[m].size > 0 => latencies'[m].known
        BY <2>2 DEF MeasureInv
    <2> QED BY <2>1, <2>2, <2>3, <2>4 DEF MeasureInv
<1>5. ASSUME CheckLiveLiveLatency PROVE MeasureInv'
    <2>1. llChecking /\ llChecking' = FALSE /\ Restarted(Paths)
        BY <1>5, <1>0, DueFacts DEF CheckLiveLiveLatency
    <2>2. /\ \A m \in Monitors \ Paths : latencies'[m] = latencies[m]
          /\ \A m \in Paths : /\ latencies'[m].size = 0
                              /\ latencies'[m].known => prevTs'[m] = NoTs
          /\ OnlyFirstGapIsCarried'
        BY <2>1, <1>p, RestartedEffect
    <2>3. MeasuresMatchMode'
        BY <2>1, <2>2 DEF MeasuresMatchMode
    <2>4. \A m \in Monitors : latencies'[m].size > 0 => latencies'[m].known
        BY <2>2 DEF MeasureInv
    <2> QED BY <2>1, <2>2, <2>3, <2>4 DEF MeasureInv
<1>6. ASSUME Tick PROVE MeasureInv'
    <2>1. UNCHANGED <<latencies, carried, heard, llChecking>>
        BY <1>6 DEF Tick
    <2>2. \A m \in Monitors : prevTs'[m] = Older(prevTs[m])
        BY <1>6 DEF Tick
    <2>3. \A t \in (0 .. MaxAge) \cup {NoTs} : Older(t) = NoTs <=> t = NoTs
        BY SdWanAssumption DEF Older, NoTs
    <2>4. \A m \in Monitors : prevTs'[m] = NoTs <=> prevTs[m] = NoTs
        BY <2>2, <2>3 DEF TypeOK
    <2>5. carried \subseteq Monitors
        BY DEF TypeOK
    <2> QED BY <2>1, <2>4, <2>5, <1>p
            DEF MeasureInv, MeasuresMatchMode, OnlyFirstGapIsCarried, HasAverage
<1>7. ASSUME \/ HostSends \/ \E advances \in BOOLEAN : TcpRx(advances)
             \/ Stop \/ UNCHANGED vars
      PROVE  UNCHANGED <<latencies, prevTs, carried, heard, llChecking>>
    BY <1>7 DEF HostSends, TcpRx, Stop, vars, controller, measures
<1> QED BY <1>1, <1>2, <1>3, <1>4, <1>5, <1>6, <1>7 DEF Next

\* The invariant holds at the start.
LEMMA MeasureInit == Init => MeasureInv
<1> SUFFICES ASSUME Init PROVE MeasureInv
    OBVIOUS
<1>1. NoList.size = 0
    BY DEF NoList
<1>2. \A m \in Monitors : latencies[m].size = 0 /\ prevTs[m] = NoTs
    BY <1>1 DEF Init
<1>3. llChecking = FALSE /\ carried = {}
    BY DEF Init
<1> QED BY <1>2, <1>3, PathFacts DEF MeasureInv, MeasuresMatchMode, OnlyFirstGapIsCarried

\* No list outlives its mode, and no gap either once there has been a list.
THEOREM MeasuresKeepToMode == Spec => []MeasuresMatchMode
<1>1. MeasureInv => MeasuresMatchMode
    BY DEF MeasureInv
<1> QED BY <1>1, InitTypes, TypeStep, ModeInit, ModeStep, MeasureInit, MeasureStep, PTL DEF Spec

\* Only the first gap of a monitor can reach over a check.
THEOREM GapsKeepToPeriod == Spec => []OnlyFirstGapIsCarried
<1>1. MeasureInv => OnlyFirstGapIsCarried
    BY DEF MeasureInv
<1> QED BY <1>1, InitTypes, TypeStep, ModeInit, ModeStep, MeasureInit, MeasureStep, PTL DEF Spec

\* When no command fails, a comparison moves the flow only to a path that
\* delivered a copy during it.
THEOREM ChosenPathDelivered == ASSUME ~CliFails PROVE Spec => ChosenPathWasHeard
<1> DEFINE Chosen == CheckLiveLiveLatency /\ edge'["e1"].route \in Paths
                         => edge'["e1"].route \in heard
<1>1. ASSUME RouteInv, MeasureInv, [Next]_vars PROVE [Chosen]_vars
    <2> SUFFICES ASSUME CheckLiveLiveLatency, edge'["e1"].route \in Paths
                 PROVE  edge'["e1"].route \in heard
        OBVIOUS
    <2>1. TypeOK /\ HandlesMatchTables /\ OneTimer
        BY <1>1 DEF RouteInv, ModeInv
    <2>2. HasAverage \subseteq heard
        BY <1>1, <2>1, DueFacts DEF MeasureInv, CheckLiveLiveLatency
    <2>3. edge'["e1"].route \in HasAverage
        BY <2>1, CompareEffect, PathFacts DEF Edges
    <2> QED BY <2>2, <2>3
<1>2. RouteInv => TypeOK /\ ModeInv
    BY DEF RouteInv
<1> QED BY <1>1, <1>2, RouteInit, RouteStep, MeasureInit, MeasureStep, PTL
        DEF Spec, ChosenPathWasHeard

-----------------------------------------------------------------------------
(* Orphans *)

\* An edge in state e that has an orphan has the same one in state f.
KeepsOrphan(e, f) == Orphan(e) => Orphan(f) /\ f.route = e.route

\* Neither command ends an orphan, whether it works or not.
LEMMA CommandsKeepOrphans ==
    ASSUME NEW e \in EdgeState
    PROVE  /\ \A ok \in BOOLEAN : KeepsOrphan(e, Deleted(e, ok))
           /\ \A r \in Routes, ok \in BOOLEAN : KeepsOrphan(e, Added(e, r, ok))
<1>1. ASSUME NEW ok \in BOOLEAN PROVE KeepsOrphan(e, Deleted(e, ok))
    BY SMT DEF KeepsOrphan, Orphan, Deleted, EdgeState, Versions, NoHandle, EmptyHandle, Absent
<1>2. ASSUME NEW r \in Routes, NEW ok \in BOOLEAN PROVE KeepsOrphan(e, Added(e, r, ok))
    BY SMT DEF KeepsOrphan, Orphan, Added, EdgeState, Versions, NoHandle, EmptyHandle, Absent
<1> QED BY <1>1, <1>2

\* Nor does a deletion followed by an addition.
LEMMA ReplacingKeepsOrphans ==
    ASSUME NEW e \in EdgeState, NEW r \in Routes, NEW del \in BOOLEAN, NEW add \in BOOLEAN
    PROVE  KeepsOrphan(e, Added(Deleted(e, del), r, add))
<1>1. Deleted(e, del) \in EdgeState
    BY DeletedType
<1>2. KeepsOrphan(e, Deleted(e, del)) /\ KeepsOrphan(Deleted(e, del), Added(Deleted(e, del), r, add))
    BY <1>1, CommandsKeepOrphans
<1> QED BY <1>2 DEF KeepsOrphan

\* A route change keeps the orphans of the edges it starts from.
LEMMA ChangeKeepsOrphans ==
    ASSUME NEW sw \in [Edges -> EdgeState], NEW port \in Routes, ChangeFlowRoute(sw, port)
    PROVE  \A e \in Edges : KeepsOrphan(sw[e], edge'[e])
<1>1. PICK del \in [Edges -> Outcomes], add \in [Edges -> Outcomes] :
          edge' = [e \in Edges |-> Added(Deleted(sw[e], del[e]), port, add[e])]
    BY DEF ChangeFlowRoute
<1> SUFFICES ASSUME NEW e \in Edges PROVE KeepsOrphan(sw[e], edge'[e])
    OBVIOUS
<1>2. del[e] \in BOOLEAN /\ add[e] \in BOOLEAN /\ sw[e] \in EdgeState
    BY OutcomesType
<1>3. edge'[e] = Added(Deleted(sw[e], del[e]), port, add[e])
    BY <1>1
<1> QED BY <1>2, <1>3, ReplacingKeepsOrphans

\* An entry whose handle was lost stays for ever, in both modes.
THEOREM OrphansAreForever == Spec => OrphanStays
<1> DEFINE Stay == \A e \in Edges : Orphan(edge[e]) =>
                       Orphan(edge'[e]) /\ edge'[e].route = edge[e].route
<1>1. ASSUME TypeOK, [Next]_vars PROVE [Stay]_vars
    <2> SUFFICES ASSUME Next PROVE \A e \in Edges : KeepsOrphan(edge[e], edge'[e])
        BY <1>1 DEF KeepsOrphan
    <2>0. edge \in [Edges -> EdgeState]
        BY <1>1 DEF TypeOK, EdgeState
    <2>r. Paths \subseteq Routes /\ BackupPort \in Routes /\ LiveLiveMcast \in Routes
        BY PathFacts DEF Routes
    <2>1. CASE edge' = edge
        BY <2>1 DEF KeepsOrphan
    <2>2. ASSUME NEW advances \in BOOLEAN, TcpRx(advances), edge' # edge
          PROVE  \A e \in Edges : KeepsOrphan(edge[e], edge'[e])
        <3>1. ChangeFlowRoute(edge, BackupPort)
            BY <2>2 DEF TcpRx
        <3> QED BY <3>1, <2>0, <2>r, ChangeKeepsOrphans
    <2>3. CASE LatencyIsHigh
        <3>1. PICK del \in Outcomes, add \in Outcomes :
                  edge' = [edge EXCEPT !["e1"] = Added(Deleted(@, del), LiveLiveMcast, add)]
            BY <2>3 DEF LatencyIsHigh, EnableLiveLive
        <3>2. ASSUME NEW e \in Edges PROVE KeepsOrphan(edge[e], edge'[e])
            <4>1. CASE e = "e1"
                <5>1. edge'[e] = Added(Deleted(edge[e], del), LiveLiveMcast, add)
                    BY <3>1, <4>1, <2>0
                <5> QED BY <5>1, <2>0, <2>r, OutcomesType, ReplacingKeepsOrphans
            <4>2. CASE e # "e1"
                <5>1. edge'[e] = edge[e]
                    BY <3>1, <4>2, <2>0
                <5> QED BY <5>1 DEF KeepsOrphan
            <4> QED BY <4>1, <4>2
        <3> QED BY <3>2
    <2>4. CASE CheckLiveLiveLatency
        <3>1. PICK del \in Outcomes :
                  LET disabled == [edge EXCEPT !["e1"] = Deleted(@, del)]
                  IN  \/ edge' = disabled
                      \/ \E p \in Paths : ChangeFlowRoute(disabled, p)
            BY <2>4 DEF CheckLiveLiveLatency, DisableLiveLive
        <3> DEFINE disabled == [edge EXCEPT !["e1"] = Deleted(@, del)]
        <3>2. Deleted(edge["e1"], del) \in EdgeState
            BY <2>0, OutcomesType, DeletedType DEF Edges
        <3>3. disabled \in [Edges -> EdgeState]
            BY <2>0, <3>2
        <3>4. ASSUME NEW e \in Edges PROVE KeepsOrphan(edge[e], disabled[e])
            <4>1. CASE e = "e1"
                <5>1. disabled[e] = Deleted(edge[e], del)
                    BY <4>1, <2>0
                <5> QED BY <5>1, <2>0, OutcomesType, CommandsKeepOrphans
            <4>2. CASE e # "e1"
                <5>1. disabled[e] = edge[e]
                    BY <4>2, <2>0
                <5> QED BY <5>1 DEF KeepsOrphan
            <4> QED BY <4>1, <4>2
        <3>5. CASE edge' = disabled
            BY <3>4, <3>5
        <3>6. CASE \E p \in Paths : ChangeFlowRoute(disabled, p)
            <4>1. PICK p \in Paths : ChangeFlowRoute(disabled, p)
                BY <3>6
            <4> HIDE DEF disabled
            <4>2. \A e \in Edges : KeepsOrphan(disabled[e], edge'[e])
                BY <4>1, <3>3, <2>r, ChangeKeepsOrphans
            <4> QED BY <4>2, <3>4 DEF KeepsOrphan
        <3> QED BY <3>1, <3>5, <3>6
    <2>5. ASSUME \/ HostSends \/ \E p \in Paths : PacketArrives(p)
                 \/ LatencyIsFine \/ Tick \/ Stop
          PROVE  edge' = edge
        BY <2>5 DEF HostSends, PacketArrives, LatencyIsFine, Tick, Stop, controller
    <2> QED BY <2>1, <2>2, <2>3, <2>4, <2>5 DEF Next
<1> QED BY <1>1, InitTypes, TypeStep, PTL DEF Spec, OrphanStays

-----------------------------------------------------------------------------
(* The backup path, however commands fail *)

\* An edge on the backup path is asked for it again, and leaves it only by an
\* addition that fails.
LEMMA ReplacingKeepsBackup ==
    ASSUME NEW e \in EdgeState, e.route = BackupPort,
           NEW del \in BOOLEAN, NEW add \in BOOLEAN
    PROVE  LET f == Added(Deleted(e, del), BackupPort, add)
           IN  f.route = BackupPort \/ f.handle = EmptyHandle
BY SMT DEF Added, Deleted, EdgeState, Versions, NoHandle, EmptyHandle, Absent, BackupPort

\* In the tcp mode the controller takes an edge off the backup path only by an
\* addition that fails, and then holds an empty handle for it.
THEOREM OnlyFailureLeavesBackup ==
    ASSUME Mode = "tcp" PROVE Spec => BackupLeftOnlyByFailure
<1> DEFINE Left == \A e \in Edges : edge[e].route = BackupPort =>
                       edge'[e].route = BackupPort \/ edge'[e].handle = EmptyHandle
<1>1. ASSUME TypeOK, ModeInv, [Next]_vars PROVE [Left]_vars
    <2> SUFFICES ASSUME Next, NEW e \in Edges, edge[e].route = BackupPort
                 PROVE  edge'[e].route = BackupPort \/ edge'[e].handle = EmptyHandle
        BY <1>1
    <2>1. CASE edge' = edge
        BY <2>1
    <2>2. ASSUME NEW advances \in BOOLEAN, TcpRx(advances), edge' # edge
          PROVE  edge'[e].route = BackupPort \/ edge'[e].handle = EmptyHandle
        <3>1. ChangeFlowRoute(edge, BackupPort)
            BY <2>2 DEF TcpRx
        <3>2. PICK del \in [Edges -> Outcomes], add \in [Edges -> Outcomes] :
                  edge' = [d \in Edges |-> Added(Deleted(edge[d], del[d]), BackupPort, add[d])]
            BY <3>1 DEF ChangeFlowRoute
        <3>3. edge'[e] = Added(Deleted(edge[e], del[e]), BackupPort, add[e])
            BY <3>2
        <3>4. edge[e] \in EdgeState /\ del[e] \in BOOLEAN /\ add[e] \in BOOLEAN
            BY <1>1, OutcomesType DEF TypeOK, EdgeState
        <3> QED BY <3>3, <3>4, ReplacingKeepsBackup
    <2>3. ~LatencyIsHigh
        BY DEF LatencyIsHigh
    <2>4. ~CheckLiveLiveLatency
        <3>1. OneTimer /\ ~llChecking
            BY <1>1 DEF ModeInv
        <3> QED BY <3>1, DueFacts DEF CheckLiveLiveLatency
    <2>5. ASSUME \/ HostSends \/ \E p \in Paths : PacketArrives(p)
                 \/ LatencyIsFine \/ Tick \/ Stop
          PROVE  edge' = edge
        BY <2>5 DEF HostSends, PacketArrives, LatencyIsFine, Tick, Stop, controller
    <2> QED BY <2>1, <2>2, <2>3, <2>4, <2>5 DEF Next
<1> QED BY <1>1, InitTypes, TypeStep, ModeInit, ModeStep, PTL
        DEF Spec, BackupLeftOnlyByFailure
=============================================================================
