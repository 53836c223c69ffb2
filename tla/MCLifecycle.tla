---------------------------- MODULE MCLifecycle ----------------------------
(***************************************************************************)
(* Lifecycle on small instances.                                           *)
(***************************************************************************)
EXTENDS Lifecycle, TLC

\* Freed memory reads as before the overlay or as past it.
EitherSide == {Waiting, FINISHED}

\* Addresses are interchangeable (safety runs only).
Symmetry == Permutations(Addr)
=============================================================================
