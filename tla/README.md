# Verification of the SRv6 live-live programs

TLA+ models, TLC runs and TLAPS proofs for the SRv6 *live-live* behaviour: an
edge switch numbers the packets of a host and sends a copy over every path, the
far edge forwards the first copy of each number and drops the others.

## 1. The system

| Part | Source | State it keeps | Operations |
|---|---|---|---|
| Edge program | `p4src/srv6_livelive.p4` | registers `seq_n`, `flow_to_bitmap`, `flow_window_start`; tables | steer and encapsulate host packets (live-live, one port, random port); push segments and the TLV; de-duplicate, decapsulate and forward |
| Transit program | `p4src/srv6_forward.p4` | table `srv6_table` | forward by destination, move to the next segment |
| Parser, deparser, headers | `p4src/include/` | per-packet metadata | walk the segment list, find the next segment, read the TLV, parse TCP options, emit |
| Lab scenario | `lab/` | links, table entries | six switches, two disjoint paths |
| n-path experiment | `experiments/experiment_n_path.py` | generated links and entries | four test types over 2..6 paths, random loss |
| SD-WAN controller | `live-live-sdwan.cc` | `llChecking`, latencies, time stamps, table handles, `oooPkts`, scheduled events | measures gaps between packets at e2, switches the steering entries between one path and live-live, or to the backup path |
| Simulator pipeline and device | `ns-3.40/src/p4-switch/` | lazily created pipeline; per packet the metadata in its PHV and the lists between the stages | parse, ingress, replicate, egress and send a packet; run table commands |

Packets are the only messages between switches. A switch runs one packet through
its ingress at a time. The two edges share no state: what e1 tells e2 is the
segment list and the TLV. The control plane writes tables while packets fly.

What is hard about it:

* **Order and loss.** The far edge sees any interleaving of the paths, each with
  its own losses and delay. A copy may arrive after the window has passed it.
* **Narrow arithmetic.** Sequence numbers are 16 bits, the distance of a slide
  8 bits, `n_segments` 8 bits and decremented from zero.
* **Half a write.** `flow_window_start` is written before the packet is judged,
  `flow_to_bitmap` only if it is accepted.
* **Agreement across hops.** Segment list, counters, destination, TLV and
  `payload_len` are built in one switch and consumed in three others.
* **Reconfiguration** while numbered and plain packets of a flow are in flight.
* **Two chains of events.** The controller's two checks re-arm each other, and a
  trace that runs between them files each packet by the mode it believes to be on.
* **Commands that depend on earlier ones.** An entry can only be deleted with the
  handle the reply to its `table_add` gave; a route change is four such commands.
* **Generated tables** that only together make a path.
* **Recycled metadata.** bmv2 takes the headers of a packet (its PHV) from a pool; a
  verdict of the program is nothing but fields in it, read and copied between the stages.
* **Parsing by count.** The TCP option parser keeps its own count of the header bytes
  left, in 7 and 8 bits, next to what it extracts.

What makes each part correct:

* window: a number is forwarded at most once; a number in the window that was not
  forwarded is not refused; the window moves forward and never wraps;
* service: the far host gets a packet at most once; a packet of which a copy
  survives is delivered, as long as stated limits hold;
* headers: a host gets what the other one sent; lengths, counters and active
  segment agree on every link;
* tables: a packet is never sent where nothing is connected, and reaches its host;
* controller: one check is scheduled at any time; packets are copied exactly while
  copies are measured; every handle is that of the entry in force; a comparison moves
  the flow to a path that delivered, ends, and leaves no measurement behind;
* option parser: never past the TCP header, and no byte lost sight of;
* simulator: a packet leaves as the program decided for it and not for an earlier one,
  and the memory of a packet is given back once.

## 2. Modules

```
DedupWindow            arithmetic of the window (operators)
  Deduplicator         one register slot, any arrivals          MCDeduplicator
  LiveLive             e1, the paths, e2                        MCLiveLive
    HostChannel        what the service promises (abstract)
  Srv6Switch           what the programs do to one packet (operators)
    LabNetwork         all switches of a lab                    MCKatharaLab, MCNPathLab
KatharaLab, NPathLab   tables and links of the two kinds of lab
SdWan                  the controller and its flow            MCSdWan
  RouteControl         what its latency mode promises (abstract)
TcpOptionParser        the sub-parser of TCP options          MCTcpOptionParser
  P4Pipeline           a packet's way through a simulated switch   MCP4Pipeline
    V1Switch           what a switch owes its program (abstract)
DedupWindowProofs, DeduplicatorProofs, LiveLiveProofs, SdWanProofs,
TcpOptionParserProofs, P4PipelineProofs, LabNetworkProofs
  LabTablesProofs      the tables meet what LabNetworkProofs asks of them
```

**DedupWindow** translates lines 133-165 of `srv6_livelive.p4` one conversion at a
time: `ToSeqNo` is the cast to `bit<16>`, `ToIdx` the cast to `bit<8>`. The bitmap is
the set of the positions of its one bits. `NextStart` and `NextBitmap` are the two
registers after a packet, `Refused` is the condition of `mark_to_drop`. The widths
are constants: `WINDOW_SIZE`, `IDX_MOD` and `SEQ_MOD` are 64, 256 and 65536 in the code.

**Deduplicator** is that code as a state machine: `Accept` and `Refuse` are the two
outcomes for one packet. Reading and writing registers is one step because bmv2 runs
one packet at a time through an ingress pipeline. Three history variables record what
was forwarded, what was refused though in the window and never forwarded
(`misjudged`), and whether the 8-bit distance ever cut a slide short (`aliased`).

**LiveLive** is one direction of the service. `Send` is a host packet crossing e1
under the entry in force (`live_live_mcast`, `ipv6_encap_forward_port`,
`ipv6_encap_forward_random`), `Lose` is a path dropping it, `Arrive` is e2's ingress
for the oldest packet of a path, `SetEntry` is the control plane replacing the entry.
A path is a queue of packets: links do not reorder, paths do not wait for each other.
Losses are netem's in the emulated experiment, which delays and drops on every port of e1 but the last
(`experiment_n_path.py:27`): on all paths but the last one, and on the link to e1's own host,
which is behind this module. `LossyPaths` may be any set of paths, so the model is of that
experiment and of any other; Survival has one path that loses nothing, as the experiment has.
**HostChannel** is the abstract service: packets are handed over, and each is delivered
at most once and only after that. LiveLive implements it with
`submitted <- Len(log), got <- received`.

**Srv6Switch** holds the effect of every action of both programs on a packet, a record
of the header fields they read or write. **LabNetwork** has one action per branch of
the two `apply` blocks (`EdgeSteers`, `EdgeEnds`, `EdgePasses`, `TransitForwards`)
and the hosts, and takes links and tables as operator constants; the network is a set
of packets, so links may reorder. **KatharaLab** and **NPathLab** are those tables; with
`Simulated` the latter's are those `live-live-n-path.cc` gives the simulated switches,
which have the right range of random ports and the same transit entries for every test.
A host packet may itself be IPv6-in-IPv6 (`inner`), which the edges steer like any other.

**SdWan** is lines 291-732 of `live-live-sdwan.cc` for the one flow `main` gives it.
An event of the simulator is one step, because ns-3 runs its events one after the
other (`default-simulator-impl.cc`); `Tick` lets time pass, never past an event that is due, and
`Stop` is the end `main` sets with `Simulator::Stop`: a time from the command line, so any
moment, after which nothing runs. `HostSends` and
`PacketArrives` are the flow's packets on the two paths (a queue each, any delay, any
loss) and `tracePktRxNetDevice`; `LatencyIsHigh` and `LatencyIsFine` are the outcomes
of `checkLatency`, `CheckLiveLiveLatency` is the comparison, `TcpRx` the callback of the
tcp mode. `edge[e]` holds the /128 entry of an edge (`route`), what tells its handle
from that of the entry before (`version`), and what `flow2Handles` has (`handle`). A
monitor is the pair of maps a packet is measured in: `Plain` for `flowPrevTs` and
`flowLatencies`, one per path for `llPrevTs` and `llLatencies`. With `CliFails` any
command may fail. A device has no pipeline before its first packet, which `up` records
and `nullPipeline` makes visible. **RouteControl** is the abstract service: one path, or
all of them until a comparison ends or the simulation does; SdWan implements it with
`route <- CurrentRoute, ended <- stopped`. Which of several paths with the same average a
comparison takes is left open (`IsBest`): the code keeps the least average as a `float`,
compares it with `double`s and goes through the paths in the order of their names, so
averages closer than a `float` tells apart go either way. What holds, holds for each choice.

**TcpOptionParser** has one action per state of `tcp_option_parser` and one variable, the
parser: its state and error, `left` for `tcp_hdr_bytes_left`, how much of the stack is in
use, and two counts that the program does not have, the bytes the header holds and those
extracted. Each action chooses the kind of the next option, and a SACK option its
length, so a behaviour is any sequence of options. `Verified` is `verify` followed by the
deduction and `extract`; `SackBytes` is the size of a SACK option in eight bits.

**P4Pipeline** is `P4SwitchNetDevice::ReceiveFromDevice` with the `process` it calls.
`Receive` is a packet taking a PHV from the pool and having its metadata reset; `stale`
is what the PHV held. `Parse` is one step of TcpOptionParser; `Ingress` leaves in the PHV
what the program decides, drawn from `Verdicts`. `Replicate`, `DropAtIngress` and
`PassOn` are the branches of the traffic manager, `Egress` is one turn of the loop over
`pkts_to_egress`, `Return`, `SendFrom` and `Done` end the packet. `live` counts
`bm::Packet` objects: a packet is freed when its `unique_ptr` goes, and not by
`release()`. **V1Switch** is the abstract switch: of a packet that is dropped nothing
leaves, a group's leaves once per member with the member's `rid`, any other once.
P4Pipeline implements it with `pending` the packets between the stages.

Mutants are operators named after the definition they would replace, with a comment
that says which slip they stand for. No specification uses one.

## 3. Runs

| Run | What it shows | Bounds |
|---|---|---|
| SmallWindow | the properties of the window, for every sequence of arrivals of any length | window 3, 8-bit values 2 bits, 12 numbers |
| Survival | a surviving copy is delivered, and every packet arrives in the end | 3 paths of which one is sound, 4 packets, lag at most 2 = window - 1 |
| Overload | at most once; a packet is lost for one of three causes only: every copy was dropped, a packet a whole window ahead overtook it, or a slide was cut short; one packet per number; refinement | 2 lossy paths, 5 packets over a counter of 4 numbers, window 2, three entries |
| KatharaLab | headers, routes and delivery in the lab | one TCP, one UDP, one other packet, both directions |
| NPathLiveLive | the tables of the simulation deliver once; a source outside the prefixes is lost; a tunnelled packet loses its inner header | 2 paths, 4 packets in both directions, one from a foreign source, one tunnelled |
| SdWanLatency | events, entries, handles and measurements stay in step; the answers change their route only with the flow; refinement of RouteControl with its liveness | 2 paths with a packet each, gaps to 4 ticks, 2 gaps per check, checks every 2 ticks, comparison of 3, target 2 |
| SdWanFailures | in the tcp mode, any command failing: an entry whose deletion failed stays for ever; only a failed addition takes the flow off the backup path | one packet per path and gaps to 2 ticks, 1 gap per check, threshold 3 |
| SimulatorSwitch | the option parser keeps its account; a packet leaves as the program decided; only dropped packets are never freed; every packet is dealt with | data offsets 4, 5 and 15, any options, 3 ports, 2 groups, 6 verdicts, packets until 2 were dropped |
| RandomSelection | **violated**: the random test type sends packets to no path | 2 paths, 3 packets |
| SackOptions | **violated**: the count of header bytes left is wrong after a SACK option of 34 bytes | all 16 data offsets |
| LongPadding | **violated**: an end of options with more than 32 bytes behind it is a parser error | all 16 data offsets |
| EgressVerdict | **violated**: a multicast copy the egress drops is sent | as SimulatorSwitch with a marking egress, data offset 5 |

*Why the bounds are enough.* In SmallWindow the widths keep the order of the source's
(window < 8-bit range < 16-bit range), so a jump may be shorter than the window, longer,
longer than the 8-bit range with a small or a large remainder, or end at the last
number; histories are finite, so the state space is that of unbounded runs. That nothing
depends on the small numbers is what the proofs of section 4 show. In Overload five packets over four
numbers wrap the counter and reuse a number; a window of 2 with lag up to 5 lets copies
fall below it; truncated slides happen because the index range is 2. Three packets
are enough in the labs because packets meet only in the registers of the edges.
In the SdWan runs the comparison lasts longer than a check interval and gaps are
counted beyond both, so a gap may span a check, a comparison or several (`MaxAge`
stands for everything longer). Two gaps per monitor give averages below, at and above
the target and paths that tie, lead or were not heard of; a trace that has reached
`MaxSamples` holds its packet back until the next check. A path may hold packets sent
under the entry before (`MaxInFlight`). The runs have no bound on time: behaviours go
through any number of comparisons.
In SimulatorSwitch a data offset of 15 gives the parser all 40 bytes of options, so every
order of options that fits in a header or overruns it is parsed; 4 is too small and 5 has
none. The verdicts are those of the programs (a drop, one of the ports, a port drawn from
several, a group, none), the second group has members with different `rid`s and one
whose port does not exist. Packets follow one another without a bound but for those dropped, and each
may get the PHV of any earlier one.

*What the limits in Survival mean.* `MaxLag <= WINDOW_SIZE - 1` is needed: with one
more, TLC finds a packet whose only surviving copy is too old when it arrives. In the
code it is 63 packets between the fastest and the slowest path. The counter must also
not wrap: `SEQ_MOD` is above `MaxPackets`.

*Fairness.* `FairSpec` of LiveLive lets every path deliver what waits on it, path by
path; losing is never fair. That of LabNetwork lets the switches go on while a packet
waits anywhere. Both say that switches and links work; hosts and the control plane
may stop. That of SdWan lets time pass and runs the checks that are due, which is what
`Simulator::Run` does with scheduled events as long as it is not stopped; nothing makes it
stop, and packets are under no fairness. That of
P4Pipeline takes `ReceiveFromDevice`, a plain function call, to its end; packets need not
arrive. Runs set `CHECK_DEADLOCK FALSE` where hosts run out of packets, the parser or the
simulation has ended, or the bound on dropped packets is reached.

*What was learned.*

* A jump of 256 numbers or more with a remainder below 64 leaves stale bits in the
  bitmap; the packets they stand for are refused when they arrive. Nothing is ever
  forwarded twice because of it. `NoFalseRefusal` and `LossIsExplained` state it with
  the history variable `aliased`.
* The window stops at the last number. When the sender wraps, all later packets of the
  slot are refused for ever (`ExhaustedForever`): a flow ends after 65535 packets, until
  the switch restarts.
* The default entry of the live-live test types encapsulates without any segment: the
  counters become 255 and the far edge passes the packet through to port 0
  (`ForeignIsLost`).
* A monitor without a list keeps the time of its last packet: a path that delivers one
  copy in a comparison and nothing else measures, in the next comparison, the gap
  between the two. Only that first gap can reach over a check
  (`OnlyFirstGapIsCarried`); the average it spoils may decide the route.
* When no copy was measured in a comparison, e1's entry is deleted and e2's left: the
  flow falls back to path 1 while its answers stay where they were. `RoutesAgree` is
  about the time e1 has an entry of its own; for the rest `AnswersMoveWithFlow` says
  that e2's entry changes only to a path that e1's entry is for as well, so the answers stay on
  the route of the last comparison that had a winner, or where they began.
* A path that delivers nothing has no average, and a flow on it is never compared; the
  latency mode notices slow paths, not dead ones.
* After a failed `table_delete` the handle is forgotten all the same, the old entry
  refuses every later `table_add`, and the flow keeps its route while `llChecking` goes
  on changing (`OrphanStays`).
* The range of random ports has one port too many (finding, run RandomSelection). The
  simulation's has not.
* The size of a SACK option of 34 bytes, four blocks, is 0 bits in eight: the option is
  deducted and its blocks stay in the packet, to be parsed as what comes next (finding,
  run SackOptions). With fewer than 34 bytes left behind it this happens once at most, and
  the parser still never leaves the header (`HeaderIsAccounted`).
* An end of options with more than 32 bytes behind it is a parser error, since the padding
  has 256 bits, where the comments of the parser say it skips the rest of the header
  (finding, run LongPadding). A parser error does not stop a packet: what was not extracted is payload
  to the program and leaves behind its headers.
* An IPv6-in-IPv6 packet of a host arrives with its outer header only: encapsulation uses
  the inner header for itself (`TunnelLosesHeader`).
* Packets the pipeline drops, duplicates refused by the window among them, are never
  freed (`OnlyDropsLeak`): the simulator's memory grows with the traffic of the path
  that loses the race.
* The verdict of the egress is read from the packet received. For a copy that is another
  packet (finding, run EgressVerdict); for any other packet it is the right one, but
  logging the drop dereferences the pointer the packet was moved from. The
  programs here never drop in their egress.
* Not in a model, as only figures in files depend on it: in `live-live-n-path.cc` the
  trace of retransmissions looks the path of a socket up in a map keyed by a wildcard
  (lines 265 and 288) and records none, and the throughput divides integers (line 230).

## 4. Proofs

`DedupWindowProofs` states what the arithmetic means under the condition `Placeable`,
that the window lies within the sequence numbers: what a slide keeps (`NextRemembers`),
that an accepted number is new and then remembered (`AcceptedIsFresh`), that no bit is
invented unless a slide is truncated (`NextInventsNothing`), and that `Placeable` is
kept (`NextRegisters`).

`DeduplicatorProofs` proves the safety properties of Deduplicator for all widths that
meet `WindowAssumption` (`WINDOW_SIZE <= IDX_MOD <= SEQ_MOD`) and all sets of arrivals.
`AtMostOnce` is not inductive: a second copy is refused because the registers remember
the first, which `DeliveredIsRemembered` says, and they keep remembering because the
window never wraps, which `WindowBelowWrap` says. The conjunction `IInv` of these, the
types, `BitmapIsExact` and `NoFalseRefusal` is inductive, with one lemma per action.
`WindowIsMonotone` and `DeadFlowStaysDead` are action properties that follow from it: an
exhausted slot refuses every number (`ExhaustedRefuses`), so it stays exhausted.

`LiveLiveProofs` lifts this to the service for all paths, losses, lags, entries and
bounds. Its invariant adds that received numbered packets are remembered by e2
(`ReceivedIsRemembered`), and that a packet sent over one port exists once and is gone
when received (`SingleCopy`, `SingleDone`), which covers the plain packets that mix
with numbered ones when the entry changes. From it follow `HostGetsPacketOnce` and the
refinement `ServiceImplementsChannel`: every step is a `Submit`, a `Deliver` or a
stutter.

The properties about lost packets speak of packets none of whose copies is on the way
any more, and are not inductive. `HistoryInv` says of every copy that came through what
they say of the last one: its packet was received or one of the three causes holds
(`ThroughIsReceived`), and without the function it was counted (`ThroughIsCounted`). It
needs that a path holds copies in the order they were sent and none twice (`CopiesInv`),
and whose the bits of e2 are (`BitsAreReceived`). That a number is below the window is not
yet a cause: the cause is another packet, at least a whole window later, whose copy came
through before (`Overtaken`). So the invariant also names the packet that put the window where it
begins (`StartIsOfPacket`), and `BelowIsOvertaken` turns the one into the other.
`LossesHaveCauses`, `HostGetsEveryCopy` (the *no-deduplicate* experiment: a packet arrives
once for each copy that was not lost) and `NumberServesOnce` follow, for all constants.

`SurvivorsReachHost` is what a deployment may rely on: within `WithinLimits` a packet of
which a copy survives is delivered. The limits are that the sender does not wrap, that no
path is `WINDOW_SIZE` packets behind, and that no slide reaches the width of the shift:
either fewer packets are sent than that width (256), or every live entry includes a path that
loses nothing. Without such a path and with more packets, 256 consecutive losses on
all paths are a jump the 8-bit shift cuts short, and the property is false. `LimitsInv` is the
argument: numbers follow packets without gaps (`NumbersFollowPackets`), and the window,
which begins where a packet put it, keeps up with what a path without
loss delivered (`WindowKeepsUp`), so every arriving number is at most `MaxLag` behind the
end of the window and no slide is cut.

`SdWanProofs` proves every safety property of SdWan, for all sets of paths, intervals, targets, thresholds and bounds. `ModeInv` (the types and `OneTimer`)
is inductive with failing commands too. `RouteInv` adds `HandlesMatchTables`,
`CopiesAreMeasured`, `RoutesAgree`, and that the tcp mode's entries are absent or the
backup's; it needs that commands do not fail (`~CliFails`), since a failed deletion
breaks each of them. `PipelineInv` explains why no command meets a device without a
pipeline: whatever triggers one, a measured gap, an entry or a received segment, implies
that packets have crossed the edges it is sent to. `MeasureInv` relates lists, times
and `carried` to the mode, and that a path with a list in a comparison has been heard.
`OrphansAreForever` needs the types alone: neither command changes an entry whose handle
is not the one kept. `OnlyFailureLeavesBackup` needs `ModeInv`: the tcp mode never
begins a comparison, and adds no entry but the backup's. `AnswersOnlyMoveWithFlow` follows
step by step: a command goes to e2 only in a comparison with a winner, and then e1 gets the
same port. `ControllerIsRouteControl` is the safety part of the refinement
(`Service!SafeSpec`), with `Stop` as the end of the service.

`TcpOptionParserProofs` proves for every sequence of options that the parser stays
within the header and its stack, and what it may lose sight of. `HeaderIsAccounted` alone
is not inductive: that a second SACK option of 34 bytes cannot follow the first needs the
bytes left together with those extracted, as one equation over the state before each
option. `Accounted` is that equation (`Lost` is 0 or 32), and a header has at most 40 bytes.

`P4PipelineProofs` proves the types, the account of packet objects and the safety part of
the refinement of V1Switch, for all ports, groups and verdicts. `PipelineInv` adds to the
parser's invariant how many objects exist at each stage (`Objects`), what the queues
between the stages hold and that either all entries are copies or one packet is the
original (`Queues`), and that the metadata of a packet depends on its verdict only
(`Decided`): this is where the reset of the recycled PHV is needed. The account holds with a
marking egress too; the refinement, `SwitchObeysProgram`, is for a program whose egress
marks nothing, since otherwise the pipeline does not implement it (run EgressVerdict).

`LabNetworkProofs` proves the invariants of LabNetwork for any host packets, links and
tables; what a theorem needs of the tables is its hypothesis. The invariant (`IInv`) is that every
packet in flight has one of three forms, each a function of the host packet it came
from: as sent (`Raw`), with the segments and the TLV its edge pushed on the port it left
by (`IsWrapped`, with `Shape` the four outcomes of the edge's actions), or without them on its way
to a host (`IsStripped`). No property of the lab is inductive by itself: `LengthIsHonest`
at the far edge, say, needs that the inner header still holds the host's length. The hypotheses:

| Hypothesis | Says | Needed for |
|---|---|---|
| `LabIsWired` | only edges have hosts behind them, and deliver a packet to no host but the other one or to nobody; port 0 of an edge is not connected; no transit switch takes a host's address for its own segment; no segment is a function | every theorem; alone it gives `TypeOK`, `LengthIsHonest`, `ArrivesIntact`, `TunnelLosesHeader` |
| `HasSegments(h)` | something is pushed on every port | `CountersMatchList` |
| a segment on every port | the same, without the function | `DestinationIsActive` |
| `ForeignGetNothing` | the default entry pushes nothing | `ForeignIsLost` |
| `CopiesAreChecked` | what is copied meets the function at the one edge that delivers it | `ArrivesOnce` |
| `TablesLead(Hops)` | the set of hops `Hops[h]` is closed under the tables and ends at an edge with no segment left | `FunctionMeetsTlv` |
| `TablesReach(Hops)` | and no hop in it leads to a port with nothing behind it | `NothingStranded` |

`PacketsArriveOnce` composes the window with the network. `OnceInv` says that the copies
of a packet that are on the way carry one number, that a packet without a number has one
copy, and that once a copy is through, the far edge remembers the number of the others;
the lemmas of DedupWindowProofs say that it goes on remembering whatever other flows slide
its window. The proof needs no bound on packets: a wrap of the counter loses packets, it
duplicates none.

`LabTablesProofs` shows that the tables of KatharaLab and NPathLab meet those hypotheses, and
instantiates the theorems: for the lab folder all eight of its invariants
(`KatharaLabIsCorrect`), for the experiment every test type, one to six paths, emulated or
simulated, with the hops of each spelled out in `KatharaHops` and `NPathHops`. So what the runs show
for three or four packets on two paths holds for any packets on up to six. What is left out
by `RandomStaysOnPaths` is real: in the emulated experiment the range of random ports on e2 includes
the port of host b itself, so packets b sends under a random entry may come back to it
(cf. run RandomSelection). `ExperimentsSteerOwnPackets` and
`SinglePacketsFollowSegments` are about the hosts' own packets, since those of strangers are lost
by being sent to nobody.

Assumptions used: `WindowAssumption`, `ArrivalsAssumption`, `LiveLiveAssumption`,
`SdWanAssumption`, `OffsetsAssumption`, `PipelineAssumption`, `LabAssumption`; TLC
evaluates each in the runs. The refinement of HostChannel assumes that e2 has the function. `WindowIsMonotone`,
`BackupIsFinal`, `HostGetsEveryCopy` and the type theorems of SdWan, TcpOptionParser and P4Pipeline are proved
and have no run: the runs go to what is not proved.

Every safety property of a passing run is stated by a theorem. Only model-checked is
liveness, which is out of TLAPS' reach: `EventuallyReceived`, `EventuallyArrives`, and
the fairness of the two refinements `ImplementsRouteControl` (every comparison ends) and
`ImplementsSwitch` (every packet is dealt with).

## 5. Not modelled

* ns-3 itself. The repository carries a whole copy of it (`sim/ns-3.40`, 777 thousand
  lines of others' code), of which `src/p4-switch/` and `examples/srv6-live-live/` are
  this project's own. The models are of the project's own code, a small part of the lines
  in the tree. Of ns-3 the event loop, its clock and its stop are modelled in SdWan from
  `default-simulator-impl.cc`; the CSMA links and TCP's retransmissions are taken as the code uses them.
* Of the simulated switch: `get_ns3_packet`, which rebuilds the headers ns-3 knows from
  the bytes of a packet, tags, the constructor, the channel and the helper, and bmv2's own
  code. Primitives the programs do not use.
* Of `live-live-sdwan.cc`, the topology and the applications `main` sets up; it
  creates one live-live flow, for which the global `llChecking` is enough. The other
  simulation scenarios are topology code and traces into files.
* Option layouts: kind 2 is read as five bytes and kind 3 as four, as `headers.p4` defines
  them; RFC 793 and RFC 7323 have four and three. No line of the repository says which is meant.
* `hdr_ext_len`, hop limits, MAC addresses, traffic classes: nothing in the programs
  reads them. Flow identifiers: `MAX_NUM_FLOWS` is 1, all flows share one slot.
* Ethernet frames that are not IPv6.
* Parse errors outside the TCP options: segment lists are the ones the edges build.
* How tables are loaded: the start-up scripts of e1 and e2 read a `commands.txt`, the
  files in the repository are called `e1.txt` and `e2.txt`; they are taken for it.
* `set_default` in `lab/e1/e1.txt` and `lab/e2/e2.txt` names an action the program does
  not have, so the program's own default stays.

## 6. Plan

1. Done: window, slot, service, headers, labs, SD-WAN controller; proofs of the window,
   the service and the controller.
2. Done: the TCP option parser, the simulated switch and its refinement of V1Switch with
   their proofs; the simulation's tables; tunnelled host packets; the tcp mode with
   failing commands.
3. Done: proofs of what the service loses and what it delivers; of every invariant of
   LabNetwork for any tables, and for those of the lab and of the experiment.
4. Proofs: losses in LabNetwork under the limits of `SurvivorsReachHost`; an abstract
   service that LabNetwork implements, so that the channel of HostChannel is shown for
   the packets as they are and not only for their numbers.
5. Composition: LiveLive's `SetEntry` driven by SdWan, so that a comparison is seen from
   the far host.
6. Runs: several flows of one slot with a bound on each. A property that is proved may
   give its place in a run to one that is not.
