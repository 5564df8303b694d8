----------------------------- MODULE MCNPathLab -----------------------------
(***************************************************************************)
(* LabNetwork with the tables of the n-path experiment, emulated or        *)
(* simulated, for TestType and NumPaths paths.                             *)
(***************************************************************************)
EXTENDS LabNetwork

CONSTANTS TestType, NumPaths, Simulated

Lab == INSTANCE NPathLab

LabPeer(node, port) == Lab!Links(node, port, NumPaths)
LabSteering(e, src) == Lab!CheckLiveLiveEnabled(e, src, TestType, NumPaths)
LabDestSegment(e, port) == Lab!Srv6Forward(e, port, TestType, NumPaths)
LabFunctionOf(e) == Lab!Srv6LiveLiveForward(e)
LabHostPort(e, dst) == Lab!Ipv6Forward(e, dst, NumPaths)
LabTransitEntry(c, dst) == Lab!Srv6Table(dst, TestType)
LabFunctions == Lab!Srv6Function(TestType)

FromA(id, src, proto) == [id |-> id, host |-> "a", src |-> src,
                          dst |-> "2002::b", proto |-> proto,
                          inner |-> NoInner]
FromB(id, proto) == [id |-> id, host |-> "b", src |-> "2002::b",
                     dst |-> "2001::a", proto |-> proto, inner |-> NoInner]

Traffic == {FromA(1, "2001::a", "tcp"), FromA(2, "2001::a", "udp"),
            FromB(3, "tcp")}

\* With one packet from a source for which the edges only have the default
\* entry, and an IPv6-in-IPv6 packet of host b.
Tunnel == [FromB(5, "tcp") EXCEPT !.inner = [dst |-> "2001::a", len |-> 20]]

MixedTraffic == {FromA(1, "2001::a", "tcp"), FromA(2, "2001::a", "udp"),
                 FromA(4, "2003::f", "tcp"), Tunnel}
=============================================================================
