------------------------------ MODULE RunStart ------------------------------
(***************************************************************************)
(* The run-start watcher of src/src/lib.rs (struct RunStart): a record     *)
(* bound to one GameInitializer in the game's memory, and the pure         *)
(* functions that one poll of that object's state computes.  The modules   *)
(* that bind, poll and drop watchers use these operators.                  *)
(*                                                                         *)
(* initializationState is an i32 the game steps from 0 to 5.  The code     *)
(* compares it with ShowUI and Finished only, so the four states below     *)
(* ShowUI are one value here: Waiting.                                     *)
(***************************************************************************)
EXTENDS Integers

CONSTANT NoAddr     \* no address: an empty Option<Address>

Waiting  == 0
SHOW_UI  == 4
FINISHED == 5
Unread   == -1      \* `last` before the first successful read

InitState == {Waiting, SHOW_UI, FINISHED}

(***************************************************************************)
(* What the scene loader said about the game, Option<bool> in the code.    *)
(***************************************************************************)
Verdict == {"new", "save", "unknown"}

Watcher(Addr) ==
  [inst    : Addr \cup {NoAddr},
   newGame : Verdict,
   watched : BOOLEAN,                  \* watched_load
   seen    : BOOLEAN,                  \* seen_before_ui
   warned  : BOOLEAN,                  \* warned_late
   fired   : BOOLEAN,
   last    : InitState \cup {Unread}]

\* What bind builds around the instance it accepted.
Bound(a, verdict, watched) ==
  [inst |-> a, newGame |-> verdict, watched |-> watched, seen |-> FALSE,
   warned |-> FALSE, fired |-> FALSE, last |-> Unread]

NoWatcher == Bound(NoAddr, "unknown", FALSE)

IsBound(w) == w.inst # NoAddr

\* The load has finished and its parameters are final: correct what the
\* watcher was told when it was bound, unless it has already decided.
ExpectNewGame(w, verdict) ==
  IF w.fired \/ w.warned THEN w ELSE [w EXCEPT !.newGame = verdict]

\* Mutant of Initialized: the overlay counts as the end of initialization.
Initialized_AtOverlay(w) == IsBound(w) /\ w.last >= SHOW_UI

\* Whether saved state may be sampled.
Initialized(w) == IsBound(w) /\ w.last >= FINISHED

\* The overlay is up and this watcher has not decided about it yet.
PastOverlay(w, s) == s >= SHOW_UI /\ ~w.fired

\* A start is counted only on a crossing seen on this very instance.
Crosses(w, s) == PastOverlay(w, s) /\ w.newGame # "save" /\ w.seen

\* What poll returns: this crossing is a run start.
Announces(w, s, saveName) ==
  Crosses(w, s) /\ (w.newGame = "new" \/ ~saveName)

\* The watcher arrived after the overlay and has not said so yet.
ArrivesLate(w, s) ==
  PastOverlay(w, s) /\ w.newGame # "save" /\ ~w.seen /\ ~w.warned

\* The watcher after a poll that read state s.  A failed read changes nothing.
Polled(w, s) ==
  IF s < SHOW_UI
    THEN [w EXCEPT !.last = s, !.seen = TRUE, !.fired = FALSE]
  ELSE IF Crosses(w, s)
    THEN [w EXCEPT !.last = s, !.fired = TRUE]
  ELSE [w EXCEPT !.last = s, !.warned = @ \/ ~w.fired]
=============================================================================
