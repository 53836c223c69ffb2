------------------------------ MODULE MCSplits ------------------------------
(***************************************************************************)
(* Splits on small instances.                                              *)
(***************************************************************************)
EXTENDS Splits

All   == Watcher
Three == {"buildings", "unlock", "wellbeing"}
=============================================================================
