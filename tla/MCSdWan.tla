------------------------------ MODULE MCSdWan ------------------------------
(***************************************************************************)
(* SdWan with the two paths of the example.                                *)
(***************************************************************************)
EXTENDS SdWan
=============================================================================
