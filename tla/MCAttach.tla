------------------------------ MODULE MCAttach ------------------------------
(***************************************************************************)
(* Attach on small instances.                                              *)
(***************************************************************************)
EXTENDS Attach

Is(name, game, path, supported) ==
  [name |-> name, game |-> game, path |-> path, supported |-> supported]

\* The game under Windows, under Proton, one this build cannot read, and
\* another Unity title.
Titles == {Is("exact", TRUE, FALSE, TRUE), Is("ambiguous", TRUE, FALSE, TRUE),
           Is("ambiguous", TRUE, TRUE, FALSE), Is("ambiguous", FALSE, FALSE, FALSE)}
=============================================================================
