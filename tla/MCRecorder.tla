----------------------------- MODULE MCRecorder -----------------------------
(***************************************************************************)
(* Recorder on small instances: one range of two chunks, two that begin at *)
(* other addresses, and one that is smaller than what was mapped before.   *)
(***************************************************************************)
EXTENDS Recorder

At(address, size) == [address |-> address, size |-> size]

Mappings == {{At(1, 4)}, {At(1, 1), At(2, 3)}, {At(2, 2)}}
=============================================================================
