----------------------------- MODULE MCGameTime -----------------------------
(***************************************************************************)
(* GameTime on small instances: a day of three ticks of two parts.         *)
(***************************************************************************)
EXTENDS GameTime

OneSave  == {9}
NoRaw    == {}
Negative == {-3}
=============================================================================
