----------------------------- MODULE MCSignals -----------------------------
(***************************************************************************)
(* Signals on small instances.                                             *)
(***************************************************************************)
EXTENDS Signals

\* The wonder's two signals belong together; the other two depend on nothing.
Groups == {{"unlock", "completion"}, {"bots", "wellbeing"}}
=============================================================================
