---------------------------- MODULE MCP4Pipeline ----------------------------
(***************************************************************************)
(* P4Pipeline with edge e1 of the n-path simulation: the host on port 1,   *)
(* paths on 2 and 3, the group its tables create and one whose members     *)
(* have rids of their own.                                                 *)
(***************************************************************************)
EXTENDS P4Pipeline

Member(port, rid) == [port |-> port, rid |-> rid]

EdgeGroups == [g \in {1, 2} |-> IF g = 1
                                THEN <<Member(2, 1), Member(3, 1)>>
                                ELSE <<Member(3, 1), Member(4, 2)>>]

EdgeVerdicts ==
    {[action |-> "mark_to_drop"], [action |-> "NoAction"],
     [action |-> "forward", ports |-> {1}],
     [action |-> "forward", ports |-> {2, 3}],
     [action |-> "multicast", group |-> 1],
     [action |-> "multicast", group |-> 2]}
=============================================================================
