----------------------------- MODULE MCLiveLive -----------------------------
(***************************************************************************)
(* LiveLive between the edges of an experiment lab of NumPaths paths, with *)
(* traffic from the host of Edge.                                          *)
(***************************************************************************)
EXTENDS LiveLive

CONSTANTS NumPaths, Edge, TestType

Lab == INSTANCE NPathLab
    WITH Simulated <- FALSE, NoSegment <- "none", Nowhere <- "nowhere"

LabPaths == Lab!PathPorts(Edge, NumPaths)
AllPaths == LabPaths
NoPaths == {}
AllButOne == LabPaths \ {Lab!FirstPath(Edge)}

LabEntries == {Lab!SteeringEntry(Edge, TestType, NumPaths)}
LabDeduplicate == Lab!HasDeduplicate(TestType)

\* What the controller of the sd-wan example alternates between: copies on
\* every path, or one path of its choice.
SwitchedEntries ==
    {Lab!LiveLiveEntry(Edge, NumPaths)} \cup {Lab!PortEntry(q) : q \in LabPaths}
=============================================================================
