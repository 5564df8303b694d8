-------------------------- MODULE P4PipelineProofs --------------------------
(***************************************************************************)
(* Proofs about the simulator's switch, for every number of ports, all     *)
(* groups, verdicts and data offsets, and any number of packets.           *)
(***************************************************************************)
EXTENDS P4Pipeline, TcpOptionParserProofs, SequenceTheorems

ToEgressItem == [port : Port9, copy : BOOLEAN, meta : Metadata]
OutputItem == [port : Port9, meta : Metadata]
Departure == [port : Port9, rid : Nat]

\* The objects that exist are the dropped ones, those queued for the egress,
\* and the packet received for as long as process() holds it.
Objects ==
    /\ pc \in {"idle", "send"} => live = leaked
    /\ pc \in {"parser", "traffic manager"} => live = leaked + 1
    /\ pc = "egress" /\ Original => live = leaked + Len(toEgress) + 1
    /\ pc = "egress" /\ ~Original => live = leaked + Len(toEgress)

\* What is queued between the stages.  A packet goes to the egress itself
\* only if it is not replicated.
Queues ==
    /\ pc \in {"idle", "parser", "traffic manager", "send"} => toEgress = << >>
    /\ pc \in {"idle", "parser", "traffic manager"} => output = << >>
    /\ pc = "egress" =>
           \A i \in 1 .. Len(toEgress) :
               IF toEgress[i].copy
               THEN phv.mcast_grp # 0
               ELSE /\ phv.mcast_grp = 0 /\ Len(toEgress) = 1
                    /\ toEgress[i].meta.egress_rid = phv.egress_rid

\* The metadata of a packet depends on nothing but its verdict, and without
\* marks of the egress the packet reaches it unmarked.
Decided ==
    /\ pc = "parser" => phv = NoMetadata
    /\ pc = "traffic manager" => phv \in Applied(verdict, NoMetadata)
    /\ ~EgressMarks /\ pc = "egress" /\ toEgress # << >> => phv.egress_spec # DropPort

PipelineInv ==
    /\ TypeOK
    /\ HeaderInv
    /\ Objects
    /\ Queues
    /\ Decided

-----------------------------------------------------------------------------
(* Operators *)

\* The port that drops is a port, and 512 wraps to port 0 in nine bits.
LEMMA PortFacts ==
    /\ DropPort \in Port9 /\ 0 \in Port9 /\ 0 # DropPort
    /\ (DropPort + 1) % 512 = 0
BY SMT DEF DropPort, Port9

LEMMA MetadataFacts ==
    /\ NoMetadata \in Metadata
    /\ NoMetadata.egress_spec = 0 /\ NoMetadata.mcast_grp = 0 /\ NoMetadata.egress_rid = 0
    /\ \A meta \in Metadata : Marked(meta) \in Metadata
BY PortFacts DEF NoMetadata, Metadata, Marked

\* What the ingress leaves of fresh metadata, by verdict.
LEMMA AppliedFacts ==
    ASSUME NEW v \in Verdicts, NEW meta \in Applied(v, NoMetadata)
    PROVE  /\ meta \in Metadata
           /\ meta.egress_rid = 0
           /\ meta.mcast_grp # 0 =>
                  /\ v.action = "multicast" /\ v.group = meta.mcast_grp
                  /\ v.group \in DOMAIN Groups /\ meta.egress_spec = 0
           /\ meta.mcast_grp = 0 =>
                  \/ v.action = "mark_to_drop" /\ meta.egress_spec = DropPort
                  \/ /\ v.action = "forward" /\ meta.egress_spec \in v.ports
                     /\ meta.egress_spec # DropPort
                  \/ v.action = "NoAction" /\ meta.egress_spec = 0
<1>1. v \in Actions /\ DOMAIN Groups \subseteq Nat \ {0}
    BY PipelineAssumption
<1>2. CASE v.action = "mark_to_drop"
    <2>1. meta = Marked(NoMetadata)
        BY <1>2 DEF Applied
    <2> QED BY <1>2, <2>1, PortFacts, MetadataFacts DEF Marked, NoMetadata, Metadata
<1>3. CASE v.action = "multicast"
    <2>1. meta = [NoMetadata EXCEPT !.mcast_grp = v.group]
        BY <1>3 DEF Applied
    <2>2. v.group \in DOMAIN Groups /\ v.group \in Nat \ {0}
        BY <1>1, <1>3 DEF Actions
    <2> QED BY <1>3, <2>1, <2>2, PortFacts DEF NoMetadata, Metadata
<1>4. CASE v.action = "forward"
    <2>1. PICK p \in v.ports : meta = [NoMetadata EXCEPT !.egress_spec = p]
        BY <1>4 DEF Applied
    <2>2. v.ports \subseteq Port9 \ {DropPort}
        BY <1>1, <1>4 DEF Actions
    <2>3. p \in Port9 /\ p # DropPort
        BY <2>2
    <2> QED BY <1>4, <2>1, <2>3 DEF NoMetadata, Metadata
<1>5. CASE v.action = "NoAction"
    <2>1. meta = NoMetadata
        BY <1>5 DEF Applied
    <2> QED BY <1>5, <2>1, MetadataFacts
<1> QED BY <1>1, <1>2, <1>3, <1>4, <1>5 DEF Actions

\* The copies of a packet: one per member, with its port and its rid.
LEMMA CopiesFacts ==
    ASSUME NEW g \in DOMAIN Groups, NEW meta \in Metadata
    PROVE  /\ Copies(g, meta) \in Seq(ToEgressItem)
           /\ Len(Copies(g, meta)) = Len(Groups[g])
           /\ \A i \in 1 .. Len(Groups[g]) :
                  /\ Groups[g][i] \in Departure
                  /\ Copies(g, meta)[i].copy
                  /\ Copies(g, meta)[i].port = Groups[g][i].port
                  /\ Copies(g, meta)[i].meta = [meta EXCEPT !.egress_rid = Groups[g][i].rid]
<1> DEFINE n == Len(Groups[g])
<1>1. Groups[g] \in Seq(Departure)
    BY PipelineAssumption DEF Departure
<1>2. n \in Nat /\ DOMAIN Groups[g] = 1 .. n /\ \A i \in 1 .. n : Groups[g][i] \in Departure
    BY <1>1, LenProperties, ElementOfSeq
<1> HIDE DEF n
<1>3. Copies(g, meta) = [i \in 1 .. n |->
          [port |-> Groups[g][i].port, copy |-> TRUE,
           meta |-> [meta EXCEPT !.egress_rid = Groups[g][i].rid]]]
    BY <1>2 DEF Copies
<1>4. ASSUME NEW i \in 1 .. n
      PROVE  [port |-> Groups[g][i].port, copy |-> TRUE,
              meta |-> [meta EXCEPT !.egress_rid = Groups[g][i].rid]] \in ToEgressItem
    <2>1. Groups[g][i].port \in Port9 /\ Groups[g][i].rid \in Nat
        BY <1>2 DEF Departure
    <2>2. [meta EXCEPT !.egress_rid = Groups[g][i].rid] \in Metadata
        BY <2>1 DEF Metadata
    <2> QED BY <2>1, <2>2 DEF ToEgressItem
<1>5. Copies(g, meta) \in [1 .. n -> ToEgressItem]
    BY <1>3, <1>4
<1>6. Copies(g, meta) \in Seq(ToEgressItem)
    BY <1>2, <1>5, SeqDef
<1>7. DOMAIN Copies(g, meta) = 1 .. n
    BY <1>3
<1>8. Len(Copies(g, meta)) = n
    BY <1>2, <1>6, <1>7, LenProperties
<1> QED BY <1>2, <1>3, <1>6, <1>8 DEF n

\* Taking the first packet of a queue.
LEMMA QueueFacts ==
    ASSUME NEW S, NEW q \in Seq(S), q # << >>
    PROVE  /\ Head(q) \in S /\ Tail(q) \in Seq(S)
           /\ Len(q) \in Nat \ {0} /\ Len(Tail(q)) = Len(q) - 1
           /\ Head(q) = q[1]
           /\ \A i \in 1 .. Len(Tail(q)) : i + 1 \in 1 .. Len(q) /\ Tail(q)[i] = q[i + 1]
<1>1. Len(q) \in Nat \ {0}
    BY EmptySeq
<1>2. /\ Head(q) \in S /\ Tail(q) \in Seq(S) /\ Len(Tail(q)) = Len(q) - 1
      /\ \A i \in 1 .. Len(Tail(q)) : Tail(q)[i] = q[i + 1]
    BY HeadTailProperties
<1> QED BY <1>1, <1>2

LEMMA OneInQueue ==
    ASSUME NEW S, NEW x \in S
    PROVE  <<x>> \in Seq(S) /\ Len(<<x>>) = 1 /\ <<x>>[1] = x
OBVIOUS

LEMMA NoParserAccounted == Accounted(NoParser)
<1>1. Accounted(Started(5)) /\ ToBit7(4 * (5 - 5)) = 0
    BY StartedAccounted, Bit7
<1>2. Started(5) = [state |-> "next_option", error |-> "NoError", left |-> 0,
                    vec |-> 0, total |-> 0, extracted |-> 0]
    BY <1>1 DEF Started
<1>3. NoParser = [state |-> "accept", error |-> "NoError", left |-> 0,
                  vec |-> 0, total |-> 0, extracted |-> 0]
    BY <1>2 DEF NoParser
<1> QED BY <1>3 DEF Accounted, ParserStates, Errors, StackSize

-----------------------------------------------------------------------------
(* The invariant *)

LEMMA PipelineInit == Init => PipelineInv
<1> SUFFICES ASSUME Init PROVE PipelineInv
    OBVIOUS
<1>1. HeaderInv /\ ParserTypeOK
    BY NoParserAccounted, AccountedHeader DEF Init, HeaderInv
<1>2. << >> \in Seq(ToEgressItem) /\ << >> \in Seq(OutputItem) /\ << >> \in Seq(Departure)
    BY EmptySeq
<1>3. TypeOK
    BY <1>1, <1>2, MetadataFacts DEF Init, TypeOK, ToEgressItem, OutputItem, Departure
<1> QED BY <1>1, <1>3 DEF Init, PipelineInv, Objects, Queues, Decided

\* A packet arrives, whatever the PHV it gets held before.
LEMMA ReceiveStep ==
    ASSUME PipelineInv, NEW offset \in Offsets, NEW v \in Verdicts, Receive(offset, v)
    PROVE  PipelineInv'
<1>1. HeaderInv' /\ ParserTypeOK'
    BY OffsetsAssumption, StartedAccounted
       DEF Receive, HeaderInv, Accounted, ParserStates, ParserTypeOK
<1>2. phv' = NoMetadata
    BY DEF Receive, ResetMetadata
<1>3. sent' \in Seq(Departure)
    BY EmptySeq DEF Receive
<1>4. TypeOK'
    BY <1>1, <1>2, <1>3, MetadataFacts DEF PipelineInv, TypeOK, Receive, Departure
<1> QED BY <1>1, <1>2, <1>4 DEF PipelineInv, Receive, Objects, Queues, Decided, TypeOK

LEMMA ParseStep == ASSUME PipelineInv, Parse PROVE PipelineInv'
<1>1. HeaderInv' /\ ParserTypeOK'
    BY ParserStep DEF Parse, HeaderInv, PipelineInv, Accounted, ParserStates, ParserTypeOK
<1>2. TypeOK'
    BY <1>1 DEF PipelineInv, TypeOK, Parse
<1> QED BY <1>1, <1>2 DEF PipelineInv, Parse, Objects, Queues, Decided

\* The ingress decides, after an error of the parser as well.
LEMMA IngressStep == ASSUME PipelineInv, Ingress PROVE PipelineInv'
<1>1. HeaderInv' /\ ParserTypeOK'
    BY NoParserAccounted
       DEF Ingress, HeaderInv, Accounted, ParserStates, ParserTypeOK
<1>2. verdict \in Verdicts /\ phv' \in Applied(verdict, NoMetadata)
    BY DEF Ingress, PipelineInv, Decided, TypeOK
<1>3. phv' \in Metadata
    BY <1>2, AppliedFacts
<1>4. TypeOK'
    BY <1>1, <1>3 DEF PipelineInv, TypeOK, Ingress
<1> QED BY <1>1, <1>2, <1>4 DEF PipelineInv, Ingress, Objects, Queues, Decided

\* What the traffic manager finds in the metadata.
LEMMA TrafficManager ==
    ASSUME PipelineInv, pc = "traffic manager"
    PROVE  /\ verdict \in Verdicts /\ phv \in Applied(verdict, NoMetadata)
           /\ phv \in Metadata
           /\ toEgress = << >> /\ output = << >> /\ live = leaked + 1
           /\ live \in Nat /\ leaked \in Nat
BY DEF PipelineInv, Decided, Queues, Objects, TypeOK

LEMMA ReplicateStep == ASSUME PipelineInv, Replicate PROVE PipelineInv'
<1> DEFINE g == phv.mcast_grp
           n == Len(Groups[g])
<1>1. /\ g # 0 /\ pc' = "egress" /\ toEgress' = Copies(g, phv)
      /\ phv' = IF toEgress' = << >> THEN phv ELSE toEgress'[Len(toEgress')].meta
      /\ live' = live + Len(toEgress')
      /\ pc = "traffic manager" /\ leaked' = leaked
    BY DEF Replicate
<1>2. /\ g \in DOMAIN Groups /\ phv \in Metadata
      /\ phv.egress_spec = 0 /\ phv.mcast_grp = g
    BY <1>1, TrafficManager, AppliedFacts
<1> HIDE DEF g
<1>3. /\ Copies(g, phv) \in Seq(ToEgressItem) /\ Len(Copies(g, phv)) = n
      /\ \A i \in 1 .. n :
            /\ Groups[g][i] \in Departure
            /\ Copies(g, phv)[i].copy
            /\ Copies(g, phv)[i].meta = [phv EXCEPT !.egress_rid = Groups[g][i].rid]
    BY <1>2, CopiesFacts
<1> HIDE DEF n
<1>4. /\ toEgress' \in Seq(ToEgressItem) /\ Len(toEgress') = n /\ n \in Nat
      /\ \A i \in 1 .. n : toEgress'[i].copy
    BY <1>1, <1>3, LenProperties
<1>5. phv' \in Metadata /\ phv'.mcast_grp = g /\ phv'.egress_spec = 0
    <2>1. CASE toEgress' = << >>
        BY <1>1, <1>2, <2>1
    <2>2. CASE toEgress' # << >>
        <3>1. n \in 1 .. n
            BY <1>4, <2>2, EmptySeq
        <3>2. phv' = [phv EXCEPT !.egress_rid = Groups[g][n].rid]
            BY <1>1, <1>3, <1>4, <2>2, <3>1
        <3>3. Groups[g][n].rid \in Nat
            BY <1>3, <3>1 DEF Departure
        <3> QED BY <1>2, <3>2, <3>3 DEF Metadata
    <2> QED BY <2>1, <2>2
<1>6. live' = leaked' + n + 1 /\ live' \in Nat
    <2>1. live = leaked + 1 /\ leaked \in Nat
        BY <1>1, TrafficManager
    <2>2. live' = live + n /\ leaked' = leaked
        BY <1>1, <1>4
    <2> QED BY <1>4, <2>1, <2>2
<1>7. TypeOK'
    BY <1>1, <1>4, <1>5, <1>6
       DEF PipelineInv, TypeOK, ParserTypeOK, Replicate, ToEgressItem
<1>8. HeaderInv'
    BY DEF PipelineInv, HeaderInv, Replicate
<1>9. Objects'
    BY <1>1, <1>4, <1>5, <1>6 DEF Objects, Original
<1>10. Queues'
    BY <1>1, <1>4, <1>5 DEF Queues
<1>11. Decided'
    BY <1>1, <1>5, PortFacts DEF Decided
<1> QED BY <1>7, <1>8, <1>9, <1>10, <1>11 DEF PipelineInv

LEMMA DropAtIngressStep == ASSUME PipelineInv, DropAtIngress PROVE PipelineInv'
<1>1. TypeOK'
    <2>1. leaked' \in Nat
        BY TrafficManager DEF DropAtIngress
    <2> QED BY <2>1 DEF PipelineInv, TypeOK, ParserTypeOK, DropAtIngress
<1>2. /\ toEgress' = << >> /\ output' = << >> /\ Len(toEgress') = 0
      /\ live' = leaked' /\ leaked' \in Nat
      /\ pc' = "egress" /\ phv'.mcast_grp = 0
    BY TrafficManager, EmptySeq DEF DropAtIngress
<1>3. Objects'
    <2>1. Len(toEgress') = 0
        BY <1>2
    <2>2. live' = leaked' /\ leaked' \in Nat /\ pc' = "egress" /\ phv'.mcast_grp = 0
        BY <1>2
    <2>3. live' = leaked' + Len(toEgress')
        <3>1. \A m, n \in Nat : n = 0 => m = m + n
            OBVIOUS
        <3> QED BY <2>1, <2>2, <3>1
    <2> QED BY <2>2, <2>3 DEF Objects, Original
<1>4. Queues' /\ Decided'
    BY <1>2 DEF Queues, Decided
<1> QED BY <1>1, <1>3, <1>4 DEF PipelineInv, HeaderInv, DropAtIngress

LEMMA PassOnStep == ASSUME PipelineInv, PassOn PROVE PipelineInv'
<1> DEFINE item == [port |-> phv.egress_spec, copy |-> FALSE, meta |-> phv]
<1>1. /\ pc = "traffic manager" /\ phv.mcast_grp = 0 /\ phv.egress_spec # DropPort
      /\ pc' = "egress" /\ toEgress' = <<item>> /\ phv' = phv
    BY DEF PassOn
<1>2. item \in ToEgressItem /\ item.copy = FALSE /\ item.meta = phv
    BY <1>1, TrafficManager DEF ToEgressItem, Metadata
<1> HIDE DEF item
<1>3. toEgress' \in Seq(ToEgressItem) /\ Len(toEgress') = 1 /\ toEgress'[1] = item
    BY <1>1, <1>2, OneInQueue
<1>4. TypeOK'
    BY <1>3 DEF PipelineInv, TypeOK, ParserTypeOK, PassOn, ToEgressItem
<1>5. live' = leaked' + 1 /\ leaked' \in Nat /\ phv'.mcast_grp = 0
    BY <1>1, TrafficManager DEF PassOn
<1>6. Objects'
    BY <1>1, <1>3, <1>5 DEF Objects, Original
<1>7. Queues'
    <2>1. \A i \in 1 .. Len(toEgress') : toEgress'[i] = item
        BY <1>3
    <2> QED BY <1>1, <1>2, <1>3, <1>5, <2>1 DEF Queues
<1>8. Decided'
    BY <1>1 DEF Decided
<1> QED BY <1>4, <1>6, <1>7, <1>8 DEF PipelineInv, HeaderInv, PassOn

\* The egress of one packet.  Without marks nothing is dropped there.
LEMMA EgressFacts ==
    ASSUME PipelineInv, Egress
    PROVE  LET item == Head(toEgress)
           IN  /\ item \in ToEgressItem /\ toEgress' = Tail(toEgress)
               /\ phv' \in Metadata
               /\ item.copy => phv' = phv /\ phv.mcast_grp # 0
               /\ ~item.copy => /\ Len(toEgress') = 0 /\ phv.mcast_grp = 0
                               /\ phv'.mcast_grp = 0
               /\ refused' \subseteq Port9
               /\ \/ /\ EgressMarks
                     /\ leaked' = leaked + 1 /\ pc' \in {"egress", "crashed"}
                     /\ UNCHANGED <<output, live, stale>>
                  \/ \E seen \in Metadata :
                        /\ seen.egress_rid = item.meta.egress_rid
                        /\ output' = Append(output, [port |-> item.port, meta |-> seen])
                        /\ live' = live - 1 /\ stale' \in {stale, seen}
                        /\ UNCHANGED <<leaked, pc>>
<1> DEFINE item == Head(toEgress)
           begun == [IF item.copy THEN item.meta ELSE phv
                         EXCEPT !.egress_spec = (DropPort + 1) % 512]
<1>1. toEgress \in Seq(ToEgressItem) /\ toEgress # << >> /\ phv \in Metadata
    BY DEF PipelineInv, TypeOK, ToEgressItem, Egress
<1>2. item \in ToEgressItem /\ item = toEgress[1] /\ 1 \in 1 .. Len(toEgress)
      /\ Len(Tail(toEgress)) = Len(toEgress) - 1
    BY <1>1, QueueFacts
<1>3. item.meta \in Metadata /\ item.port \in Port9 /\ item.copy \in BOOLEAN
    BY <1>2 DEF ToEgressItem
<1>4. /\ item.copy => phv.mcast_grp # 0
      /\ ~item.copy => /\ phv.mcast_grp = 0 /\ Len(toEgress) = 1
                      /\ item.meta.egress_rid = phv.egress_rid
    BY <1>2, <1>3 DEF PipelineInv, Queues, Egress
<1>5. /\ begun \in Metadata /\ begun.egress_spec = 0
      /\ begun.egress_rid = item.meta.egress_rid
      /\ ~item.copy => begun.mcast_grp = 0
    BY <1>1, <1>3, <1>4, PortFacts DEF Metadata
<1>6. PICK marks \in IF EgressMarks THEN BOOLEAN ELSE {FALSE} :
          LET seen == IF marks THEN Marked(begun) ELSE begun
              drop == phv'.egress_spec = DropPort
          IN  /\ phv' = IF item.copy THEN phv ELSE seen
              /\ refused' = IF marks THEN refused \cup {item.port} ELSE refused
              /\ IF drop
                 THEN /\ leaked' = leaked + 1
                      /\ pc' \in {"egress", "crashed"}
                      /\ UNCHANGED <<output, live, stale>>
                 ELSE /\ output' = Append(output, [port |-> item.port, meta |-> seen])
                      /\ live' = live - 1
                      /\ Freed(seen)
                      /\ UNCHANGED <<leaked, pc>>
    BY DEF Egress
<1> DEFINE seen == IF marks THEN Marked(begun) ELSE begun
<1> HIDE DEF begun, item
<1>7. /\ seen \in Metadata /\ seen.egress_rid = item.meta.egress_rid
      /\ ~item.copy => seen.mcast_grp = 0
      /\ ~EgressMarks => seen.egress_spec = 0
    <2>1. CASE marks
        BY <1>5, <2>1, MetadataFacts, <1>6 DEF Marked, Metadata
    <2>2. CASE ~marks
        BY <1>5, <2>2
    <2> QED BY <2>1, <2>2
<1> HIDE DEF seen
<1>8. phv' = IF item.copy THEN phv ELSE seen
    BY <1>6 DEF seen
<1>9. ~EgressMarks => phv'.egress_spec # DropPort
    BY <1>1, <1>7, <1>8, PortFacts DEF PipelineInv, Decided, Egress
<1>10. refused' \subseteq Port9
    BY <1>3, <1>6 DEF PipelineInv, TypeOK
<1>11. \/ /\ EgressMarks
          /\ leaked' = leaked + 1 /\ pc' \in {"egress", "crashed"}
          /\ UNCHANGED <<output, live, stale>>
       \/ /\ output' = Append(output, [port |-> item.port, meta |-> seen])
          /\ live' = live - 1 /\ stale' \in {stale, seen}
          /\ UNCHANGED <<leaked, pc>>
    <2>1. CASE phv'.egress_spec = DropPort
        BY <1>6, <1>9, <2>1
    <2>2. CASE phv'.egress_spec # DropPort
        BY <1>6, <2>2 DEF seen, Freed
    <2> QED BY <2>1, <2>2
<1>12. toEgress' = Tail(toEgress)
    BY DEF Egress
<1> QED BY <1>1, <1>2, <1>3, <1>4, <1>7, <1>8, <1>10, <1>11, <1>12 DEF item

LEMMA EgressStep == ASSUME PipelineInv, Egress PROVE PipelineInv'
<1> DEFINE item == Head(toEgress)
           n == Len(toEgress)
           m == Len(toEgress')
<1>1. /\ toEgress \in Seq(ToEgressItem) /\ toEgress # << >> /\ pc = "egress"
      /\ live \in Nat /\ leaked \in Nat
    BY DEF PipelineInv, TypeOK, ToEgressItem, Egress
<1>2. item \in ToEgressItem /\ toEgress' \in Seq(ToEgressItem)
      /\ n \in Nat \ {0} /\ m = n - 1 /\ m \in Nat
      /\ \A i \in 1 .. m : i + 1 \in 1 .. n /\ toEgress'[i] = toEgress[i + 1]
    BY <1>1, EgressFacts, QueueFacts
<1>3. /\ item.copy => phv' = phv /\ phv.mcast_grp # 0
      /\ ~item.copy => m = 0 /\ phv.mcast_grp = 0 /\ phv'.mcast_grp = 0
      /\ phv' \in Metadata /\ refused' \subseteq Port9
    BY EgressFacts
<1>4. item.copy \in BOOLEAN /\ item.port \in Port9
    BY <1>2 DEF ToEgressItem
<1> HIDE DEF item, m, n
<1>5. Original' = Original
    BY <1>3, <1>4 DEF Original
<1>6. /\ Original => live = leaked + n + 1
      /\ ~Original => live = leaked + n
    BY <1>1 DEF PipelineInv, Objects, n
<1>7. /\ parser' = parser /\ verdict' = verdict /\ sent' = sent
    BY DEF Egress
<1>8. \A i \in 1 .. m : toEgress'[i].copy /\ phv'.mcast_grp # 0
    <2> SUFFICES ASSUME NEW i \in 1 .. m
                 PROVE  toEgress'[i].copy /\ phv'.mcast_grp # 0
        OBVIOUS
    <2>1. i + 1 \in 1 .. n /\ toEgress'[i] = toEgress[i + 1] /\ m # 0 /\ n # 1
        BY <1>2
    <2>2. phv' = phv /\ phv.mcast_grp # 0
        BY <1>3, <1>4, <2>1
    <2>3. IF toEgress[i + 1].copy THEN phv.mcast_grp # 0
          ELSE phv.mcast_grp = 0 /\ n = 1
        BY <1>1, <2>1 DEF PipelineInv, Queues, n
    <2> QED BY <2>1, <2>2, <2>3
<1>9. CASE /\ EgressMarks
           /\ leaked' = leaked + 1 /\ pc' \in {"egress", "crashed"}
           /\ UNCHANGED <<output, live, stale>>
    <2>1. leaked' \in Nat
        BY <1>1, <1>9
    <2>2. TypeOK'
        BY <1>2, <1>3, <1>7, <1>9, <2>1
           DEF PipelineInv, TypeOK, ParserTypeOK, ToEgressItem
    <2>3. /\ Original => live' = leaked' + m + 1
          /\ ~Original => live' = leaked' + m
        BY <1>1, <1>2, <1>6, <1>9
    <2>4. Objects'
        BY <1>5, <1>9, <2>3 DEF Objects, m
    <2>5. Queues'
        BY <1>8, <1>9 DEF Queues, m
    <2>6. Decided'
        BY <1>9 DEF Decided
    <2> QED BY <1>7, <2>2, <2>4, <2>5, <2>6 DEF PipelineInv, HeaderInv
<1>10. ASSUME NEW seen \in Metadata,
             output' = Append(output, [port |-> item.port, meta |-> seen]),
             live' = live - 1, stale' \in {stale, seen}, UNCHANGED <<leaked, pc>>
      PROVE  PipelineInv'
    <2>1. live' \in Nat
        BY <1>1, <1>2, <1>6, <1>10
    <2>2. output' \in Seq(OutputItem)
        <3>1. output \in Seq(OutputItem)
            BY DEF PipelineInv, TypeOK, OutputItem
        <3>2. [port |-> item.port, meta |-> seen] \in OutputItem
            BY <1>4, <1>10 DEF OutputItem
        <3> QED BY <1>10, <3>1, <3>2, AppendProperties
    <2>3. TypeOK'
        BY <1>1, <1>2, <1>3, <1>7, <1>10, <2>1, <2>2
           DEF PipelineInv, TypeOK, ParserTypeOK, ToEgressItem, OutputItem
    <2>4. /\ Original => live' = leaked' + m + 1
          /\ ~Original => live' = leaked' + m
        BY <1>1, <1>2, <1>6, <1>10
    <2>5. Objects'
        BY <1>1, <1>5, <1>10, <2>4 DEF Objects, m
    <2>6. Queues'
        BY <1>8, <1>1, <1>10 DEF Queues, m
    <2>7. Decided'
        BY <1>1, <1>2, <1>3, <1>4, <1>10, EmptySeq DEF PipelineInv, Decided, m
    <2> QED BY <1>7, <2>3, <2>5, <2>6, <2>7 DEF PipelineInv, HeaderInv
<1> QED BY <1>9, <1>10, EgressFacts DEF item

\* process() ends and deletes the packet it received, if it still holds it.
LEMMA ReturnStep == ASSUME PipelineInv, Return PROVE PipelineInv'
<1>1. /\ toEgress = << >> /\ pc = "egress" /\ pc' = "send" /\ toEgress' = toEgress
      /\ phv \in Metadata /\ stale \in Metadata /\ live \in Nat /\ leaked \in Nat
      /\ leaked' = leaked
    BY DEF PipelineInv, TypeOK, Return
<1>2. Len(toEgress) = 0
    BY <1>1, EmptySeq
<1>3. live' = leaked' /\ live' \in Nat /\ stale' \in Metadata
    <2>1. CASE Original
        <3>1. live = leaked + Len(toEgress) + 1
            BY <1>1, <2>1 DEF PipelineInv, Objects
        <3>2. live = leaked + 1
            BY <1>1, <1>2, <3>1
        <3>3. live' = live - 1 /\ stale' \in Metadata
            BY <1>1, <2>1 DEF Return, Freed
        <3> QED BY <1>1, <3>2, <3>3
    <2>2. CASE ~Original
        <3>1. live = leaked + Len(toEgress)
            BY <1>1, <2>2 DEF PipelineInv, Objects
        <3>2. live = leaked
            BY <1>1, <1>2, <3>1
        <3>3. live' = live /\ stale' = stale
            BY <2>2 DEF Return
        <3> QED BY <1>1, <3>2, <3>3
    <2> QED BY <2>1, <2>2
<1>4. TypeOK'
    BY <1>3 DEF PipelineInv, TypeOK, ParserTypeOK, Return
<1> QED BY <1>1, <1>3, <1>4
        DEF PipelineInv, HeaderInv, Objects, Queues, Decided, Return

LEMMA SendFromStep == ASSUME PipelineInv, SendFrom PROVE PipelineInv'
<1>1. output \in Seq(OutputItem) /\ output # << >> /\ sent \in Seq(Departure)
    BY DEF PipelineInv, TypeOK, OutputItem, Departure, SendFrom
<1>2. Head(output) \in OutputItem /\ output' \in Seq(OutputItem)
    BY <1>1, QueueFacts DEF SendFrom
<1>3. [port |-> Head(output).port, rid |-> Head(output).meta.egress_rid] \in Departure
    BY <1>2 DEF OutputItem, Departure, Metadata
<1>4. sent' \in Seq(Departure)
    BY <1>1, <1>3, AppendProperties DEF SendFrom
<1>5. TypeOK'
    BY <1>2, <1>4 DEF PipelineInv, TypeOK, ParserTypeOK, OutputItem, Departure, SendFrom
<1> QED BY <1>5 DEF PipelineInv, HeaderInv, Objects, Queues, Decided, SendFrom

LEMMA DoneStep == ASSUME PipelineInv, Done PROVE PipelineInv'
<1>1. TypeOK'
    BY DEF PipelineInv, TypeOK, ParserTypeOK, Done
<1> QED BY <1>1 DEF PipelineInv, HeaderInv, Objects, Queues, Decided, Done

\* Every step keeps the invariant.
LEMMA PipelineStep == PipelineInv /\ [Next]_vars => PipelineInv'
<1> SUFFICES ASSUME PipelineInv, [Next]_vars PROVE PipelineInv'
    OBVIOUS
<1>1. CASE UNCHANGED vars
    BY <1>1 DEF vars, PipelineInv, TypeOK, ParserTypeOK, HeaderInv, Objects,
                Original, Queues, Decided
<1> QED BY <1>1, ReceiveStep, ParseStep, IngressStep, ReplicateStep, DropAtIngressStep,
           PassOnStep, EgressStep, ReturnStep, SendFromStep, DoneStep DEF Next

-----------------------------------------------------------------------------
(* Theorems *)

\* The pipeline keeps its variables within their types, for all groups,
\* verdicts and data offsets.
THEOREM PipelineTypeCorrect == Spec => []TypeOK
<1>1. PipelineInv => TypeOK
    BY DEF PipelineInv
<1> QED BY <1>1, PipelineInit, PipelineStep, PTL DEF Spec

\* Inside the switch as well, for every packet, the option parser never
\* extracts more than the header and loses at most one SACK option's blocks.
THEOREM SwitchKeepsAccount == Spec => []HeaderIsAccounted
<1>1. PipelineInv => HeaderIsAccounted
    BY AccountedHeader DEF PipelineInv
<1> QED BY <1>1, PipelineInit, PipelineStep, PTL DEF Spec

\* Between packets the only objects that exist are those the pipeline dropped,
\* for all groups and verdicts, marks of the egress included.
THEOREM NothingElseLeaks == Spec => []OnlyDropsLeak
<1>1. PipelineInv => OnlyDropsLeak
    BY DEF PipelineInv, Objects, OnlyDropsLeak
<1> QED BY <1>1, PipelineInit, PipelineStep, PTL DEF Spec

-----------------------------------------------------------------------------
(* The refinement of V1Switch *)

\* A queued packet as V1Switch sees it.
Departs(x) == [port |-> x.port, rid |-> x.meta.egress_rid]

LEMMA DepartsFacts ==
    ASSUME NEW x \in OutputItem \cup ToEgressItem
    PROVE  Departs(x) \in Departure
BY DEF Departs, Departure, OutputItem, ToEgressItem, Metadata

LEMMA LeavingFacts ==
    ASSUME NEW q, q \in Seq(OutputItem) \/ q \in Seq(ToEgressItem)
    PROVE  /\ Leaving(q) \in Seq(Departure)
           /\ Len(Leaving(q)) = Len(q)
           /\ Len(q) \in Nat
           /\ \A i \in 1 .. Len(q) : Leaving(q)[i] = Departs(q[i])
<1>1. Len(q) \in Nat /\ DOMAIN q = 1 .. Len(q)
    BY LenProperties
<1>2. \A i \in 1 .. Len(q) : q[i] \in OutputItem \cup ToEgressItem
    BY ElementOfSeq
<1>3. Leaving(q) = [i \in 1 .. Len(q) |-> Departs(q[i])]
    BY <1>1 DEF Leaving, Departs
<1>4. Leaving(q) \in [1 .. Len(q) -> Departure]
    BY <1>2, <1>3, DepartsFacts
<1>5. Leaving(q) \in Seq(Departure)
    BY <1>1, <1>4, SeqDef
<1>6. Len(Leaving(q)) = Len(q)
    BY <1>1, <1>3, <1>5, LenProperties
<1> QED BY <1>1, <1>3, <1>5, <1>6

LEMMA LeavingNothing == Leaving(<< >>) = << >>
<1>1. << >> \in Seq(OutputItem) /\ Len(<< >>) = 0
    BY EmptySeq
<1>2. Leaving(<< >>) \in Seq(Departure) /\ Len(Leaving(<< >>)) = 0
    BY <1>1, LeavingFacts
<1> QED BY <1>2, EmptySeq

LEMMA LeavingLast ==
    ASSUME NEW q \in Seq(OutputItem), NEW x \in OutputItem
    PROVE  Leaving(Append(q, x)) = Append(Leaving(q), Departs(x))
<1> DEFINE l == Leaving(Append(q, x))
           r == Append(Leaving(q), Departs(x))
           n == Len(q)
<1>1. /\ Append(q, x) \in Seq(OutputItem) /\ Len(Append(q, x)) = n + 1
      /\ Append(q, x)[n + 1] = x
      /\ \A i \in 1 .. n : Append(q, x)[i] = q[i]
    BY AppendProperties
<1>2. /\ Leaving(q) \in Seq(Departure) /\ Len(Leaving(q)) = n /\ n \in Nat
      /\ \A i \in 1 .. n : Leaving(q)[i] = Departs(q[i])
    BY LeavingFacts
<1>3. Departs(x) \in Departure
    BY DepartsFacts
<1>4. /\ l \in Seq(Departure) /\ Len(l) = n + 1
      /\ \A i \in 1 .. n + 1 : l[i] = Departs(Append(q, x)[i])
    BY <1>1, LeavingFacts
<1>5. /\ r \in Seq(Departure) /\ Len(r) = n + 1 /\ r[n + 1] = Departs(x)
      /\ \A i \in 1 .. n : r[i] = Departs(q[i])
    BY <1>2, <1>3, AppendProperties
<1>6. \A i \in 1 .. n + 1 : l[i] = r[i]
    <2> SUFFICES ASSUME NEW i \in 1 .. n + 1 PROVE l[i] = r[i]
        OBVIOUS
    <2> HIDE DEF l, r, n
    <2>1. CASE i = n + 1
        BY <1>1, <1>4, <1>5, <2>1
    <2>2. CASE i # n + 1
        <3>1. i \in 1 .. n
            BY <1>2, <2>2
        <3> QED BY <1>1, <1>4, <1>5, <3>1
    <2> QED BY <2>1, <2>2
<1> HIDE DEF l, r, n
<1>7. l = r
    BY <1>4, <1>5, <1>6, SeqEqual
<1> QED BY <1>7 DEF l, r

LEMMA LeavingFirst ==
    ASSUME NEW q, q \in Seq(OutputItem) \/ q \in Seq(ToEgressItem), q # << >>
    PROVE  /\ Leaving(q) # << >>
           /\ Head(Leaving(q)) = Departs(Head(q))
           /\ Leaving(Tail(q)) = Tail(Leaving(q))
<1> DEFINE l == Leaving(q)
           n == Len(q)
           t == Leaving(Tail(q))
<1>1. /\ Tail(q) \in Seq(OutputItem) \/ Tail(q) \in Seq(ToEgressItem)
      /\ n \in Nat \ {0} /\ Len(Tail(q)) = n - 1 /\ Head(q) = q[1]
      /\ \A i \in 1 .. n - 1 : i + 1 \in 1 .. n /\ Tail(q)[i] = q[i + 1]
    BY QueueFacts
<1>2. /\ l \in Seq(Departure) /\ Len(l) = n
      /\ \A i \in 1 .. n : l[i] = Departs(q[i])
    BY LeavingFacts
<1>3. /\ t \in Seq(Departure) /\ Len(t) = n - 1
      /\ \A i \in 1 .. n - 1 : t[i] = Departs(Tail(q)[i])
    BY <1>1, LeavingFacts
<1> HIDE DEF l, n, t
<1>4. l # << >>
    BY <1>1, <1>2, EmptySeq
<1>5. /\ Head(l) = l[1] /\ Tail(l) \in Seq(Departure) /\ Len(Tail(l)) = n - 1
      /\ \A i \in 1 .. n - 1 : Tail(l)[i] = l[i + 1]
    BY <1>2, <1>4, QueueFacts
<1>6. Head(l) = Departs(Head(q))
    BY <1>1, <1>2, <1>5
<1>7. \A i \in 1 .. n - 1 : t[i] = Tail(l)[i]
    BY <1>1, <1>2, <1>3, <1>5
<1>8. t = Tail(l)
    BY <1>3, <1>5, <1>7, SeqEqual
<1> QED BY <1>4, <1>6, <1>8 DEF l, t

\* The egress moves the first of what is to come behind what is done.
LEMMA MovedBetween ==
    ASSUME NEW S, NEW a \in Seq(S), NEW b \in Seq(S), b # << >>
    PROVE  Append(a, Head(b)) \o Tail(b) = a \o b
<1>1. /\ Head(b) \in S /\ Tail(b) \in Seq(S) /\ Len(b) \in Nat \ {0}
      /\ Len(Tail(b)) = Len(b) - 1 /\ Head(b) = b[1]
      /\ \A i \in 1 .. Len(Tail(b)) : Tail(b)[i] = b[i + 1]
    BY QueueFacts
<1>2. <<Head(b)>> \in Seq(S) /\ Len(<<Head(b)>>) = 1 /\ <<Head(b)>>[1] = Head(b)
    BY <1>1, OneInQueue
<1>3. <<Head(b)>> \o Tail(b) = b
    <2> DEFINE h == <<Head(b)>>
               t == Tail(b)
               c == h \o t
    <2>1. /\ c \in Seq(S) /\ Len(c) = Len(h) + Len(t)
          /\ \A i \in 1 .. Len(h) + Len(t) :
                c[i] = IF i <= Len(h) THEN h[i] ELSE t[i - Len(h)]
        BY <1>1, <1>2, ConcatProperties
    <2> HIDE DEF h, t, c
    <2>2. Len(h) = 1 /\ h[1] = b[1] /\ Len(t) = Len(b) - 1
          /\ \A i \in 1 .. Len(t) : t[i] = b[i + 1]
        BY <1>1, <1>2 DEF h, t
    <2>3. Len(c) = Len(b)
        BY <1>1, <2>1, <2>2
    <2>4. ASSUME NEW i \in 1 .. Len(b) PROVE c[i] = b[i]
        <3>1. CASE i = 1
            BY <1>1, <2>1, <2>2, <3>1
        <3>2. CASE i # 1
            <4>1. i - 1 \in 1 .. Len(t) /\ ~(i <= Len(h)) /\ (i - 1) + 1 = i
                BY <1>1, <2>2, <3>2
            <4>2. i \in 1 .. Len(h) + Len(t)
                BY <1>1, <2>2
            <4>3. c[i] = t[i - 1]
                BY <2>1, <2>2, <4>1, <4>2
            <4>4. t[i - 1] = b[i]
                BY <2>2, <4>1
            <4> QED BY <4>3, <4>4
        <3> QED BY <3>1, <3>2
    <2>5. c = b
        BY <2>1, <2>3, <2>4, SeqEqual
    <2> QED BY <2>5 DEF c, h, t
<1>4. Append(a, Head(b)) = a \o <<Head(b)>>
    BY <1>1, AppendIsConcat
<1>5. (a \o <<Head(b)>>) \o Tail(b) = a \o (<<Head(b)>> \o Tail(b))
    BY <1>1, <1>2, ConcatAssociative
<1> QED BY <1>3, <1>4, <1>5

\* The traffic manager queues what the verdict lets leave.
LEMMA DecideStep ==
    ASSUME PipelineInv, PipelineInv', Replicate \/ DropAtIngress \/ PassOn
    PROVE  Switch!Decide
<1>1. /\ pc = "traffic manager" /\ pc' = "egress"
      /\ verdict' = verdict /\ sent' = sent /\ output' = output
    BY DEF Replicate, DropAtIngress, PassOn
<1>2. /\ verdict \in Verdicts /\ phv \in Applied(verdict, NoMetadata)
      /\ phv \in Metadata /\ toEgress = << >> /\ output = << >>
    BY <1>1, TrafficManager
<1>3. toEgress' \in Seq(ToEgressItem)
    BY DEF PipelineInv, TypeOK, ToEgressItem
<1>4. Leaving(toEgress') \in Seq(Departure)
    BY <1>3, LeavingFacts
<1>5. Pending' = Leaving(toEgress')
    <2>1. Pending' = Leaving(output') \o Leaving(toEgress')
        BY DEF Pending
    <2>2. Leaving(output') = << >>
        BY <1>1, <1>2, LeavingNothing
    <2> QED BY <1>4, <2>1, <2>2, ConcatEmptySeq
<1>6. Leaving(toEgress') \in Switch!Outcomes(verdict)
    <2>1. CASE Replicate
        <3> DEFINE g == phv.mcast_grp
                   c == Copies(g, phv)
                   n == Len(Groups[g])
        <3>1. /\ g \in DOMAIN Groups /\ toEgress' = c
              /\ verdict.action = "multicast" /\ verdict.group = g
            BY <1>2, <2>1, AppliedFacts DEF Replicate
        <3> HIDE DEF g
        <3>2. /\ c \in Seq(ToEgressItem) /\ Len(c) = n
              /\ \A i \in 1 .. n :
                     /\ Groups[g][i] \in Departure
                     /\ c[i].port = Groups[g][i].port
                     /\ c[i].meta = [phv EXCEPT !.egress_rid = Groups[g][i].rid]
            BY <1>2, <3>1, CopiesFacts
        <3> HIDE DEF c, n
        <3>3. ASSUME NEW i \in 1 .. n PROVE Departs(c[i]) = Groups[g][i]
            <4>1. c[i].meta.egress_rid = Groups[g][i].rid
                BY <1>2, <3>2 DEF Metadata
            <4> QED BY <3>2, <4>1 DEF Departs, Departure
        <3>4. /\ Leaving(c) \in Seq(Departure) /\ Len(Leaving(c)) = n
              /\ \A i \in 1 .. n : Leaving(c)[i] = Departs(c[i])
            BY <3>2, LeavingFacts
        <3>5. Groups[g] \in Seq(Departure) /\ Len(Groups[g]) = n
            BY <3>1, PipelineAssumption DEF Departure, n
        <3>6. \A i \in 1 .. n : Leaving(c)[i] = Groups[g][i]
            BY <3>3, <3>4
        <3>7. Leaving(c) = Groups[g]
            BY <3>4, <3>5, <3>6, SeqEqual
        <3> QED BY <3>1, <3>7 DEF Switch!Outcomes
    <2>2. CASE DropAtIngress
        <3>1. verdict.action = "mark_to_drop"
            BY <1>2, <2>2, AppliedFacts, PortFacts DEF DropAtIngress
        <3>2. Leaving(toEgress') = << >>
            BY <1>2, <2>2, LeavingNothing DEF DropAtIngress
        <3> QED BY <3>1, <3>2 DEF Switch!Outcomes
    <2>3. CASE PassOn
        <3> DEFINE item == [port |-> phv.egress_spec, copy |-> FALSE, meta |-> phv]
                   d == [port |-> phv.egress_spec, rid |-> 0]
        <3>1. /\ phv.egress_rid = 0
              /\ \/ verdict.action = "forward" /\ phv.egress_spec \in verdict.ports
                 \/ verdict.action = "NoAction" /\ phv.egress_spec = 0
            BY <1>2, <2>3, AppliedFacts DEF PassOn
        <3>2. toEgress' = <<item>>
            BY <2>3 DEF PassOn
        <3>3. item \in ToEgressItem
            BY <1>2 DEF ToEgressItem, Metadata
        <3>4. Departs(item) = d
            BY <3>1 DEF Departs
        <3> HIDE DEF item, d
        <3>5. Len(toEgress') = 1 /\ toEgress'[1] = item
            BY <3>2, <3>3, OneInQueue
        <3>6. Len(Leaving(toEgress')) = 1 /\ Leaving(toEgress')[1] = d
            BY <1>3, <3>4, <3>5, LeavingFacts
        <3>7. d \in Departure
            BY <3>3, <3>4, DepartsFacts
        <3>8. <<d>> \in Seq(Departure) /\ Len(<<d>>) = 1 /\ <<d>>[1] = d
            BY <3>7, OneInQueue
        <3>9. Leaving(toEgress') = <<d>>
            <4> DEFINE l == Leaving(toEgress')
                       r == <<d>>
            <4>1. l \in Seq(Departure) /\ r \in Seq(Departure)
                BY <1>4, <3>8
            <4>2. Len(l) = 1 /\ Len(r) = 1 /\ l[1] = r[1]
                BY <3>6, <3>8
            <4> HIDE DEF l, r
            <4>3. Len(l) = Len(r) /\ \A i \in 1 .. Len(l) : l[i] = r[i]
                BY <4>2
            <4>4. l = r
                BY <4>1, <4>3, SeqEqual
            <4> QED BY <4>4 DEF l, r
        <3> QED BY <3>1, <3>9 DEF Switch!Outcomes, d
    <2> QED BY <2>1, <2>2, <2>3
<1>7. Stage = "deciding" /\ Stage' = "sending"
    BY <1>1 DEF Stage
<1> QED BY <1>1, <1>5, <1>6, <1>7 DEF Switch!Decide

\* The egress of a packet changes nothing of what is still to leave.
LEMMA EgressMovesOn ==
    ASSUME ~EgressMarks, PipelineInv, Egress
    PROVE  Pending' = Pending /\ pc' = pc /\ verdict' = verdict /\ sent' = sent
<1> DEFINE item == Head(toEgress)
<1>1. /\ toEgress \in Seq(ToEgressItem) /\ toEgress # << >> /\ output \in Seq(OutputItem)
    BY DEF PipelineInv, TypeOK, ToEgressItem, OutputItem, Egress
<1>2. item \in ToEgressItem /\ toEgress' = Tail(toEgress)
    BY EgressFacts
<1>3. PICK seen \in Metadata :
          /\ seen.egress_rid = item.meta.egress_rid
          /\ output' = Append(output, [port |-> item.port, meta |-> seen])
          /\ pc' = pc
    BY EgressFacts
<1> DEFINE x == [port |-> item.port, meta |-> seen]
<1>4. x \in OutputItem /\ Departs(x) = Departs(item)
    BY <1>2, <1>3 DEF OutputItem, ToEgressItem, Departs
<1>5. output' = Append(output, x)
    BY <1>3
<1> HIDE DEF item, x
<1>6. Leaving(output') = Append(Leaving(output), Departs(item))
    BY <1>1, <1>4, <1>5, LeavingLast
<1>7. /\ Leaving(toEgress) # << >> /\ Head(Leaving(toEgress)) = Departs(item)
      /\ Leaving(toEgress') = Tail(Leaving(toEgress))
    BY <1>1, <1>2, LeavingFirst DEF item
<1>8. Leaving(output) \in Seq(Departure) /\ Leaving(toEgress) \in Seq(Departure)
    BY <1>1, LeavingFacts
<1>9. Append(Leaving(output), Head(Leaving(toEgress))) \o Tail(Leaving(toEgress))
          = Leaving(output) \o Leaving(toEgress)
    BY <1>7, <1>8, MovedBetween
<1>10. Leaving(output') \o Leaving(toEgress') = Leaving(output) \o Leaving(toEgress)
    BY <1>6, <1>7, <1>9
<1> QED BY <1>3, <1>10 DEF Pending, Egress

\* While packets are sent, what is to leave is what has passed the egress.
LEMMA PendingIsOutput ==
    ASSUME PipelineInv, pc = "send" PROVE Pending = Leaving(output)
<1>1. toEgress = << >> /\ output \in Seq(OutputItem)
    BY DEF PipelineInv, Queues, TypeOK, OutputItem
<1>2. Leaving(output) \in Seq(Departure) /\ Leaving(toEgress) = << >>
    BY <1>1, LeavingFacts, LeavingNothing
<1> QED BY <1>2, ConcatEmptySeq DEF Pending

LEMMA SendStep == ASSUME PipelineInv, PipelineInv', SendFrom PROVE Switch!Send
<1>1. /\ pc = "send" /\ pc' = "send" /\ output # << >> /\ output' = Tail(output)
      /\ output \in Seq(OutputItem) /\ toEgress = << >> /\ toEgress' = toEgress
      /\ verdict' = verdict
    BY DEF SendFrom, PipelineInv, TypeOK, OutputItem, Queues
<1>2. Pending = Leaving(output)
    BY <1>1, PendingIsOutput
<1>3. Pending' = Leaving(output')
    <2>1. output' \in Seq(OutputItem)
        BY <1>1, QueueFacts
    <2>2. Leaving(output') \in Seq(Departure) /\ Leaving(toEgress') = << >>
        BY <1>1, <2>1, LeavingFacts, LeavingNothing
    <2> QED BY <2>2, ConcatEmptySeq DEF Pending
<1>4. /\ Pending # << >> /\ Head(Pending) = Departs(Head(output))
      /\ Pending' = Tail(Pending)
    BY <1>1, <1>2, <1>3, LeavingFirst
<1>5. Head(Pending).port = Head(output).port
    BY <1>4 DEF Departs
<1>6. sent' = IF Head(Pending).port \in Ports THEN Append(sent, Head(Pending)) ELSE sent
    BY <1>4, <1>5 DEF SendFrom, Departs
<1> QED BY <1>1, <1>4, <1>6 DEF Switch!Send, Stage

\* Unless the egress of the program marks packets, the switch sends what the
\* ingress decided: the safety part of V1Switch, for all groups and verdicts.
THEOREM SwitchObeysProgram == ASSUME ~EgressMarks PROVE Spec => Switch!SafeSpec
<1>1. Init => Switch!Init
    <2> SUFFICES ASSUME Init PROVE Switch!Init
        OBVIOUS
    <2>1. Leaving(output) = << >> /\ Leaving(toEgress) = << >>
        BY LeavingNothing DEF Init
    <2>2. Pending = << >>
        BY <2>1, EmptySeq, ConcatEmptySeq DEF Pending
    <2> QED BY <2>2 DEF Init, Switch!Init, Stage
<1>2. PipelineInv /\ PipelineInv' /\ [Next]_vars => [Switch!Next]_(Switch!vars)
    <2> SUFFICES ASSUME PipelineInv, PipelineInv', [Next]_vars
                 PROVE  Switch!Next \/ UNCHANGED <<Stage, verdict, Pending, sent>>
        BY DEF Switch!vars
    <2>1. ASSUME NEW offset \in Offsets, NEW v \in Verdicts, Receive(offset, v)
          PROVE  Switch!Next
        BY <2>1 DEF Receive, Switch!Next, Switch!Receive, Stage, Pending
    <2>2. CASE Parse \/ Ingress \/ UNCHANGED vars
        BY <2>2 DEF Parse, Ingress, vars, Stage, Pending
    <2>3. CASE Replicate \/ DropAtIngress \/ PassOn
        BY <2>3, DecideStep DEF Switch!Next
    <2>4. CASE Egress
        BY <2>4, EgressMovesOn DEF Stage
    <2>5. CASE Return
        BY <2>5 DEF Return, Stage, Pending
    <2>6. CASE SendFrom
        BY <2>6, SendStep DEF Switch!Next
    <2>7. CASE Done
        <3>1. pc = "send" /\ pc' = "idle" /\ output = << >>
              /\ UNCHANGED <<verdict, sent, output, toEgress>>
            BY <2>7 DEF Done
        <3>2. Pending = << >>
            BY <3>1, PendingIsOutput, LeavingNothing
        <3>3. Pending' = Pending
            BY <3>1 DEF Pending
        <3>4. Stage = "sending" /\ Stage' = "idle"
            BY <3>1 DEF Stage
        <3> QED BY <3>1, <3>2, <3>3, <3>4 DEF Switch!Next, Switch!Finish
    <2> QED BY <2>1, <2>2, <2>3, <2>4, <2>5, <2>6, <2>7 DEF Next
<1> QED BY <1>1, <1>2, PipelineInit, PipelineStep, PTL DEF Spec, Switch!SafeSpec
=============================================================================
