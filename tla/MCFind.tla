------------------------------- MODULE MCFind -------------------------------
(***************************************************************************)
(* Find on small instances.                                                *)
(***************************************************************************)
EXTENDS Find
=============================================================================
