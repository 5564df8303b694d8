--------------------------- MODULE MCDeduplicator ---------------------------
(***************************************************************************)
(* Deduplicator for TLC: every width is small and every number may arrive. *)
(***************************************************************************)
EXTENDS Deduplicator

AllSeqNos == SeqNo
=============================================================================
