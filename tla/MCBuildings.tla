---------------------------- MODULE MCBuildings ----------------------------
(***************************************************************************)
(* Buildings on small instances.                                           *)
(***************************************************************************)
EXTENDS Buildings

PairAndOther == {"smelter", "workshop", "other"}

Never == {}
=============================================================================
