----------------------------- MODULE GameWorld -----------------------------
(***************************************************************************)
(* The game as the splitter sees it: a process whose memory changes under  *)
(* the reader.  No code of the repository runs in it; what it may do is    *)
(* taken from what src/src/lib.rs reads and from what its comments record  *)
(* as measured: the scene loader's flag and parameters (SceneLoad), the    *)
(* life of a GameInitializer (RunStart) and what freed memory reads as.    *)
(*                                                                         *)
(* Loads are numbered; load 0 produced the scene that is up, or coming up, *)
(* when the splitter attaches.                                             *)
(***************************************************************************)
EXTENDS RunStart, FiniteSets

CONSTANTS
  Addr,         \* places in the heap a GameInitializer may occupy
  MaxLoads,     \* bound: scene loads after attaching
  Lingering,    \* an initializer may survive the game it belonged to
  Reuse,        \* the next initializer may be built where one was freed
  Garbage       \* what the state field of freed memory may read as

ASSUME GameWorldAssumption ==
  /\ NoAddr \notin Addr
  /\ MaxLoads \in Nat
  /\ Lingering \in BOOLEAN
  /\ Reuse \in BOOLEAN
  /\ Garbage \subseteq InitState /\ Garbage # {}

VARIABLES
  loading,      \* SceneLoader._isLoading
  fresh,        \* _sceneParameters already describe the load in progress
  params,       \* what _sceneParameters says
  kinds,        \* kinds[n]: what the n-th load produces
  load,         \* number of the current load
  heap,         \* the GameInitializers, and what is left of them
  saveName,     \* the static SourceFileName is set
  shown,        \* history: games whose overlay has been on screen
  sampled       \* history: the splitter has read this load's own parameters

gameVars == <<loading, fresh, params, kinds, load, heap, saveName, shown, sampled>>

Load      == 0 .. MaxLoads
GameKind  == {"New", "Save"}
SceneKind == GameKind \cup {"Menu"}       \* Menu: main menu or map editor

(***************************************************************************)
(* One slot of the heap.  `of` is the load that built the object in it;    *)
(* NoLoad while it held none, OtherOwner once the object was freed.        *)
(* `valid` is what the validator sees: the _eventBus reference leads to an *)
(* EventBus.  A freed object keeps both until its memory is reused.        *)
(***************************************************************************)
NoLoad     == MaxLoads + 1
OtherOwner == MaxLoads + 2
Slot == [of : Load \cup {NoLoad, OtherOwner}, st : InitState, valid : BOOLEAN]
Freed(s) == [of |-> OtherOwner, st |-> s, valid |-> FALSE]
Unused   == [of |-> NoLoad, st |-> Waiting, valid |-> FALSE]

Live(a)   == heap[a].of = load
Left(a)   == heap[a].of \in 0 .. load - 1
InGame    == kinds[load] \in GameKind
LiveSet   == {a \in Addr : Live(a)}
OverlayUp == \E a \in Addr : Live(a) /\ heap[a].st >= SHOW_UI

GameTypeOK ==
  /\ loading \in BOOLEAN
  /\ fresh \in BOOLEAN
  /\ params \in SceneKind \cup {"Unknown"}
  /\ kinds \in [Load -> SceneKind \cup {"None"}]
  /\ load \in Load
  /\ heap \in [Addr -> Slot]
  /\ saveName \in BOOLEAN
  /\ shown \subseteq Load
  /\ sampled \in BOOLEAN

(***************************************************************************)
(* The splitter may attach at any moment of a session: on the menu, in a   *)
(* game before or after its overlay, or while a load is running.           *)
(***************************************************************************)
GameInit ==
  /\ load = 0
  /\ \E k \in SceneKind :
       /\ kinds = [n \in Load |-> IF n = 0 THEN k ELSE "None"]
       /\ saveName = (k = "Save")
       /\ \/ /\ loading = FALSE /\ fresh = TRUE
             /\ params \in {k, "Unknown"}
          \/ /\ loading = TRUE /\ fresh = FALSE
             /\ params \in SceneKind \cup {"Unknown"}
  /\ \E s \in InitState, a \in Addr :
       heap = [b \in Addr |->
                 IF b = a /\ InGame /\ ~loading
                   THEN [of |-> 0, st |-> s, valid |-> TRUE]
                   ELSE Unused]
  /\ shown = {n \in {0} : OverlayUp}
  /\ sampled = FALSE

\* The runner leaves the scene.  The loader raises its flag at once, while
\* its parameters are still the previous load's.
StartLoad(k) ==
  /\ ~loading
  /\ load < MaxLoads
  /\ loading' = TRUE
  /\ fresh' = FALSE
  /\ load' = load + 1
  /\ kinds' = [kinds EXCEPT ![load + 1] = k]
  /\ sampled' = FALSE
  /\ UNCHANGED <<params, heap, saveName, shown>>

\* The loader gets its parameters.  A new game need not clear the static:
\* it is process-wide and may keep an earlier game's name.
SetParameters ==
  /\ loading
  /\ ~fresh
  /\ fresh' = TRUE
  /\ params' = kinds[load]
  /\ saveName' \in CASE kinds[load] = "Save" -> {TRUE}
                     [] kinds[load] = "New"  -> {FALSE, saveName}
                     [] OTHER                -> {saveName}
  /\ UNCHANGED <<loading, kinds, load, heap, shown, sampled>>

\* The new game's GameInitializer appears, its dependencies not yet injected,
\* in memory that no object in use occupies.
BuildInitializer(a) ==
  /\ loading /\ fresh /\ InGame
  /\ LiveSet = {}
  /\ heap[a].of = NoLoad \/ (Reuse /\ heap[a].of = OtherOwner)
  /\ ~Lingering => \A b \in Addr : ~Left(b)
  /\ heap' = [heap EXCEPT ![a] = [of |-> load, st |-> Waiting, valid |-> FALSE]]
  /\ UNCHANGED <<loading, fresh, params, kinds, load, saveName, shown, sampled>>

Inject(a) ==
  /\ Live(a) /\ ~heap[a].valid
  /\ heap' = [heap EXCEPT ![a].valid = TRUE]
  /\ UNCHANGED <<loading, fresh, params, kinds, load, saveName, shown, sampled>>

\* A game is loaded with its initializer built and its dependencies injected.
EndLoad ==
  /\ loading /\ fresh
  /\ InGame => \E a \in LiveSet : heap[a].valid
  /\ loading' = FALSE
  /\ UNCHANGED <<fresh, params, kinds, load, heap, saveName, shown, sampled>>

\* The initializer steps on; a poll may miss ShowUI altogether.
Advance(a, s) ==
  /\ ~loading
  /\ Live(a) /\ heap[a].valid
  /\ s > heap[a].st
  /\ heap' = [heap EXCEPT ![a].st = s]
  /\ shown' = shown \cup {n \in {load} : s >= SHOW_UI}
  /\ UNCHANGED <<loading, fresh, params, kinds, load, saveName, sampled>>

\* Memory of a game that was left: the state comes to read as Waiting while
\* the header still validates ...
Rot(a) ==
  /\ Left(a)
  /\ heap[a].st # Waiting
  /\ heap' = [heap EXCEPT ![a].st = Waiting]
  /\ UNCHANGED <<loading, fresh, params, kinds, load, saveName, shown, sampled>>

\* ... or the whole object is, and again whenever that memory changes hands.
Reclaim(a, s) ==
  /\ Left(a) \/ heap[a].of = OtherOwner
  /\ heap[a] # Freed(s)
  /\ heap' = [heap EXCEPT ![a] = Freed(s)]
  /\ UNCHANGED <<loading, fresh, params, kinds, load, saveName, shown, sampled>>

GameNext ==
  \/ \E k \in SceneKind : StartLoad(k)
  \/ SetParameters
  \/ EndLoad
  \/ \E a \in Addr :
       \/ BuildInitializer(a)
       \/ Inject(a)
       \/ \E s \in InitState : Advance(a, s)
       \/ Rot(a)
       \/ \E s \in Garbage : Reclaim(a, s)
=============================================================================
