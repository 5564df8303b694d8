------------------------- MODULE MCTcpOptionParser -------------------------
(***************************************************************************)
(* TcpOptionParser alone, for every data offset.                           *)
(***************************************************************************)
EXTENDS TcpOptionParser

AllOffsets == 0 .. 15
=============================================================================
