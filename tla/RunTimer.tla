------------------------------ MODULE RunTimer ------------------------------
(***************************************************************************)
(* What the splitter promises about starting the runner's timer, whatever  *)
(* it has to go through to keep the promise: it starts a stopped timer     *)
(* itself only for a new game, only once that game's overlay has been      *)
(* shown, and at most once for each game.  The runner may start and reset  *)
(* the timer at any moment.                                                *)
(***************************************************************************)
EXTENDS Naturals

CONSTANT MaxLoads   \* bound on the scene loads of one session

VARIABLES
  kinds,     \* kinds[n]: which scene the n-th load produced, "None" before it
  shown,     \* the games whose overlay has been on screen
  started,   \* the games the splitter has started the timer for
  timer      \* the host's timer

rtVars == <<kinds, shown, started, timer>>

Load == 0 .. MaxLoads
Kind == {"New", "Save", "Menu", "None"}

Init ==
  /\ kinds \in [Load -> Kind]
  /\ shown \in SUBSET Load
  /\ started = {}
  /\ timer \in {"NotRunning", "Running"}

LoadScene(n, k) ==
  /\ kinds[n] = "None"
  /\ kinds' = [kinds EXCEPT ![n] = k]
  /\ UNCHANGED <<shown, started, timer>>

ShowOverlay(n) ==
  /\ kinds[n] \in {"New", "Save"}
  /\ shown' = shown \cup {n}
  /\ UNCHANGED <<kinds, started, timer>>

AutoStart(n) ==
  /\ kinds[n] = "New"
  /\ n \in shown
  /\ n \notin started
  /\ timer = "NotRunning"
  /\ started' = started \cup {n}
  /\ timer' = "Running"
  /\ UNCHANGED <<kinds, shown>>

UserStart ==
  /\ timer = "NotRunning"
  /\ timer' = "Running"
  /\ UNCHANGED <<kinds, shown, started>>

UserReset ==
  /\ timer = "Running"
  /\ timer' = "NotRunning"
  /\ UNCHANGED <<kinds, shown, started>>

Next ==
  \/ \E n \in Load, k \in {"New", "Save", "Menu"} : LoadScene(n, k)
  \/ \E n \in Load : ShowOverlay(n) \/ AutoStart(n)
  \/ UserStart
  \/ UserReset

Spec == Init /\ [][Next]_rtVars
=============================================================================
