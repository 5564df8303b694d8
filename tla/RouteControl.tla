---------------------------- MODULE RouteControl ----------------------------
(***************************************************************************)
(* What the latency mode of the SD-WAN controller (live-live-sdwan.cc)     *)
(* promises about a flow: it uses one path, or all of them while the paths *)
(* are being compared; it changes paths only by way of a comparison, and   *)
(* every comparison ends unless the simulation ends first.                 *)
(***************************************************************************)
EXTENDS Integers

CONSTANTS Paths, AllPaths       \* the values of route

VARIABLES route, ended

Init == route \in Paths /\ ended = FALSE

Compare == ~ended /\ route \in Paths /\ route' = AllPaths /\ UNCHANGED ended

Choose == ~ended /\ route = AllPaths /\ route' \in Paths /\ UNCHANGED ended

End == ~ended /\ ended' = TRUE /\ UNCHANGED route

Next == Compare \/ Choose \/ End

SafeSpec == Init /\ [][Next]_<<route, ended>>

Spec == SafeSpec /\ WF_<<route, ended>>(Choose)
=============================================================================
