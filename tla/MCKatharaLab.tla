---------------------------- MODULE MCKatharaLab ----------------------------
(***************************************************************************)
(* LabNetwork with the tables of the lab folder and a little traffic of    *)
(* every kind in both directions.                                          *)
(***************************************************************************)
EXTENDS LabNetwork

Lab == INSTANCE KatharaLab

LabPeer(node, port) == Lab!Links(node, port)
LabSteering(e, src) == Lab!CheckLiveLiveEnabled(e, src)
LabDestSegment(e, port) == Lab!Srv6Forward(e, port)
LabFunctionOf(e) == Lab!Srv6LiveLiveForward(e)
LabHostPort(e, dst) == Lab!Ipv6Forward(e, dst)
LabTransitEntry(c, dst) == Lab!Srv6Table(c, dst)
LabFunctions == Lab!Srv6Function

FromA(id, proto) == [id |-> id, host |-> "a", src |-> "2001::a",
                     dst |-> "2002::b", proto |-> proto, inner |-> NoInner]
FromB(id, proto) == [id |-> id, host |-> "b", src |-> "2002::b",
                     dst |-> "2001::a", proto |-> proto, inner |-> NoInner]

Traffic == {FromA(1, "tcp"), FromA(2, "other"), FromB(3, "udp")}
=============================================================================
