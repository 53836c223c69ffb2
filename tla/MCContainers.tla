---------------------------- MODULE MCContainers ----------------------------
(***************************************************************************)
(* Containers on small instances.                                          *)
(***************************************************************************)
EXTENDS Containers
=============================================================================
