----------------------------- MODULE P4Pipeline -----------------------------
(***************************************************************************)
(* The simulator's switch: P4SwitchNetDevice::ReceiveFromDevice hands a    *)
(* packet to P4Pipeline::process, which parses it, runs the ingress of the *)
(* P4 program, replicates it, runs the egress once per copy, and returns   *)
(* the packets to send.  A packet is the metadata in its PHV, the headers  *)
(* of bmv2; what the program decides for it is chosen when it arrives.     *)
(***************************************************************************)
EXTENDS TcpOptionParser, Sequences

CONSTANTS
    NumPorts,       \* GetNPorts; ports count from 1
    Groups,         \* multicast group to the sequence of its members [port, rid]
    Verdicts,       \* what the ingress may decide, as in V1Switch
    EgressMarks,    \* whether the egress of the program may mark a packet
    MaxLeaked       \* bound on the packets dropped by the pipeline

Ports == 1 .. NumPorts
DropPort == 511     \* DEFAULT_DROP_PORT and P4_DROP_PORT
Port9 == 0 .. 511   \* bit<9>

Actions == [action : {"mark_to_drop", "NoAction"}]
               \cup [action : {"multicast"}, group : DOMAIN Groups]
               \cup [action : {"forward"}, ports : SUBSET (Port9 \ {DropPort})]

ASSUME PipelineAssumption ==
    /\ NumPorts \in Port9
    /\ DOMAIN Groups \subseteq Nat \ {0}
    /\ \A g \in DOMAIN Groups : Groups[g] \in Seq([port : Port9, rid : Nat])
    /\ Verdicts \subseteq Actions
    /\ EgressMarks \in BOOLEAN
    /\ MaxLeaked \in Nat

VARIABLES
    pc,         \* where process and ReceiveFromDevice are
    verdict,    \* what the program decides for the packet
    phv,        \* metadata in the PHV of the packet received
    stale,      \* metadata left in the PHV the next packet gets from the pool
    toEgress,   \* pkts_to_egress: port, PHV of the copy, or whether it is phv
    output,     \* output_pkts: port, and the PHV the egress saw
    sent,       \* history: [port, rid] sent for the packet
    live,       \* bm::Packet objects that exist
    leaked,     \* history: packets dropped by the pipeline
    refused     \* history: ports whose copy the egress marked to drop

vars == <<parser, pc, verdict, phv, stale, toEgress, output, sent, live,
          leaked, refused>>

NoMetadata == [egress_spec |-> 0, mcast_grp |-> 0, egress_rid |-> 0]

\* The parser is a local of process(): before and after there is none.
NoParser == [Started(5) EXCEPT !.state = "accept"]

Init ==
    /\ parser = NoParser
    /\ pc = "idle"
    /\ verdict \in Verdicts
    /\ phv = NoMetadata
    /\ stale = NoMetadata
    /\ toEgress = << >>
    /\ output = << >>
    /\ sent = << >>
    /\ live = 0
    /\ leaked = 0
    /\ refused = {}

\* A PHV returns to the pool, and the next packet may get it or another one.
Freed(meta) == stale' \in {stale, meta}

\* Marking to drop also leaves the multicast group.
Marked(meta) == [meta EXCEPT !.egress_spec = DropPort, !.mcast_grp = 0]
-----------------------------------------------------------------------------
\* reset_metadata: the PHV of an earlier packet is used again.
ResetMetadata(meta) == NoMetadata

\* ReceiveFromDevice, and process up to the parser.
Receive(offset, v) ==
    /\ pc = "idle"
    /\ leaked < MaxLeaked
    /\ pc' = "parser"
    /\ verdict' = v
    /\ parser' = Started(offset)
    /\ phv' = ResetMetadata(stale)
    /\ live' = live + 1
    /\ sent' = << >>
    /\ refused' = {}
    /\ UNCHANGED <<stale, toEgress, output, leaked>>

Parse ==
    /\ pc = "parser"
    /\ ParserNext
    /\ UNCHANGED <<pc, verdict, phv, stale, toEgress, output, sent, live,
                   leaked, refused>>

\* Metadata the ingress may leave for verdict v, from meta.
Applied(v, meta) ==
    CASE v.action = "mark_to_drop" -> {Marked(meta)}
      [] v.action = "multicast" -> {[meta EXCEPT !.mcast_grp = v.group]}
      [] v.action = "forward" ->
             {[meta EXCEPT !.egress_spec = p] : p \in v.ports}
      [] v.action = "NoAction" -> {meta}

\* The parser stops, with or without an error, and the program goes on.
ParserStops == parser.state \in {"accept", "reject"}

Ingress ==
    /\ pc = "parser"
    /\ ParserStops
    /\ pc' = "traffic manager"
    /\ parser' = NoParser
    /\ phv' \in Applied(verdict, phv)
    /\ UNCHANGED <<verdict, stale, toEgress, output, sent, live, leaked,
                   refused>>

\* Mutant of Copies: a copy is made before its rid is written.
CopiesEarly(g, meta) ==
    [i \in DOMAIN Groups[g] |->
        [port |-> Groups[g][i].port, copy |-> TRUE,
         meta |-> IF i = 1 THEN meta
                  ELSE [meta EXCEPT !.egress_rid = Groups[g][i - 1].rid]]]

\* The rid is written to the packet, then the packet is cloned with its PHV.
Copies(g, meta) ==
    [i \in DOMAIN Groups[g] |->
        [port |-> Groups[g][i].port, copy |-> TRUE,
         meta |-> [meta EXCEPT !.egress_rid = Groups[g][i].rid]]]

Replicate ==
    /\ pc = "traffic manager"
    /\ phv.mcast_grp # 0
    /\ pc' = "egress"
    /\ toEgress' = Copies(phv.mcast_grp, phv)
    /\ phv' = IF toEgress' = << >> THEN phv
              ELSE toEgress'[Len(toEgress')].meta
    /\ live' = live + Len(toEgress')
    /\ UNCHANGED <<parser, verdict, stale, output, sent, leaked, refused>>

\* The packet is released, not deleted.
DropAtIngress ==
    /\ pc = "traffic manager"
    /\ phv.mcast_grp = 0 /\ phv.egress_spec = DropPort
    /\ pc' = "egress"
    /\ leaked' = leaked + 1
    /\ UNCHANGED <<parser, verdict, phv, stale, toEgress, output, sent, live,
                   refused>>

\* The packet itself goes to the egress, with its PHV.
PassOn ==
    /\ pc = "traffic manager"
    /\ phv.mcast_grp = 0 /\ phv.egress_spec # DropPort
    /\ pc' = "egress"
    /\ toEgress' = <<[port |-> phv.egress_spec, copy |-> FALSE, meta |-> phv]>>
    /\ UNCHANGED <<parser, verdict, phv, stale, output, sent, live, leaked,
                   refused>>

\* The egress of one packet begins with an egress_spec of DropPort + 1 in nine
\* bits and may mark it.  The verdict is then read from phv, which is the
\* packet's own only if it is no copy.  Logging the drop of a packet that is
\* no copy dereferences a pointer that was moved from.
Egress ==
    /\ pc = "egress" /\ toEgress # << >>
    /\ toEgress' = Tail(toEgress)
    /\ \E marks \in IF EgressMarks THEN BOOLEAN ELSE {FALSE} :
          LET item == Head(toEgress)
              begun == [IF item.copy THEN item.meta ELSE phv
                            EXCEPT !.egress_spec = (DropPort + 1) % 512]
              seen == IF marks THEN Marked(begun) ELSE begun
              drop == phv'.egress_spec = DropPort
          IN  /\ phv' = IF item.copy THEN phv ELSE seen
              /\ refused' = IF marks THEN refused \cup {item.port} ELSE refused
              /\ IF drop
                 THEN /\ leaked' = leaked + 1
                      /\ pc' \in {"egress", "crashed"}
                      /\ UNCHANGED <<output, live, stale>>
                 ELSE /\ output' = Append(output, [port |-> item.port,
                                                   meta |-> seen])
                      /\ live' = live - 1
                      /\ Freed(seen)
                      /\ UNCHANGED <<leaked, pc>>
    /\ UNCHANGED <<parser, verdict, sent>>

\* Mutant of Original: the packet that was cloned is released as well.
OriginalNever == FALSE

\* The packet that was cloned is deleted at the end of process().
Original == phv.mcast_grp # 0

Return ==
    /\ pc = "egress" /\ toEgress = << >>
    /\ pc' = "send"
    /\ IF Original
       THEN live' = live - 1 /\ Freed(phv)
       ELSE UNCHANGED <<live, stale>>
    /\ UNCHANGED <<parser, verdict, phv, toEgress, output, sent, leaked,
                   refused>>

\* GetPort has no device for port 0 and beyond the last: the packet ends.
SendFrom ==
    /\ pc = "send" /\ output # << >>
    /\ output' = Tail(output)
    /\ LET out == Head(output)
       IN  sent' = IF out.port \in Ports
                   THEN Append(sent, [port |-> out.port,
                                      rid |-> out.meta.egress_rid])
                   ELSE sent
    /\ UNCHANGED <<parser, pc, verdict, phv, stale, toEgress, live, leaked,
                   refused>>

Done ==
    /\ pc = "send" /\ output = << >>
    /\ pc' = "idle"
    /\ UNCHANGED <<parser, verdict, phv, stale, toEgress, output, sent, live,
                   leaked, refused>>

Next ==
    \/ \E offset \in Offsets, v \in Verdicts : Receive(offset, v)
    \/ Parse
    \/ Ingress
    \/ Replicate
    \/ DropAtIngress
    \/ PassOn
    \/ Egress
    \/ Return
    \/ SendFrom
    \/ Done

Spec == Init /\ [][Next]_vars

\* ReceiveFromDevice runs to its end once it is called.
Runs == \/ Parse \/ Ingress \/ Replicate \/ DropAtIngress \/ PassOn
        \/ Egress \/ Return \/ SendFrom \/ Done
FairSpec == Spec /\ WF_vars(Runs)
-----------------------------------------------------------------------------
Metadata == [egress_spec : Port9, mcast_grp : Nat, egress_rid : Nat]

TypeOK ==
    /\ ParserTypeOK
    /\ pc \in {"idle", "parser", "traffic manager", "egress", "send", "crashed"}
    /\ verdict \in Verdicts
    /\ phv \in Metadata
    /\ stale \in Metadata
    /\ toEgress \in Seq([port : Port9, copy : BOOLEAN, meta : Metadata])
    /\ output \in Seq([port : Port9, meta : Metadata])
    /\ sent \in Seq([port : Port9, rid : Nat])
    /\ live \in Nat
    /\ leaked \in Nat
    /\ refused \subseteq Port9

(***************************************************************************)
(* The switch sends what the program decided for a packet, and nothing of  *)
(* the packets before it: whatever metadata the recycled PHV held and      *)
(* however the parser ended, the packet leaves once, once for every member *)
(* of its group with the rid of that member, or not at all; and the device *)
(* comes to an end with it.                                                *)
(***************************************************************************)
Stage ==
    CASE pc = "idle" -> "idle"
      [] pc \in {"parser", "traffic manager"} -> "deciding"
      [] OTHER -> "sending"

Leaving(q) ==
    [i \in DOMAIN q |-> [port |-> q[i].port, rid |-> q[i].meta.egress_rid]]
Pending == Leaving(output) \o Leaving(toEgress)

Switch == INSTANCE V1Switch WITH stage <- Stage, pending <- Pending
ImplementsSwitch == Switch!Spec

\* Between packets the packet objects that still exist are those the pipeline
\* dropped: release() forgets them, everything else is freed exactly once.
OnlyDropsLeak == pc = "idle" => live = leaked

\* No copy leaves that the egress marked to drop.
DroppedCopiesStay == \A i \in DOMAIN output : output[i].port \notin refused
=============================================================================
