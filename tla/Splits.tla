------------------------------- MODULE Splits -------------------------------
(***************************************************************************)
(* The five watchers of one loaded game and the splits they cause: the     *)
(* part of `watch` (src/src/lib.rs) below the run start, with              *)
(* WonderUnlock, WonderCompletion, BotCreation and WellbeingGoal.          *)
(* Buildings counts as one watcher here and has a module of its own.       *)
(*                                                                         *)
(* A tick of `watch` runs without interruption except in two places:       *)
(* re-reading the container, and the opening walk over the entities.  The  *)
(* game moves on during both, and the tick then goes on where it was.      *)
(***************************************************************************)
EXTENDS Integers, FiniteSets

CONSTANTS
  Offered,    \* the watchers whose service this game has
  Enabled,    \* the splits that are turned on
  MaxDrops    \* bound: times a watched object fails its validation

Ends    == {"completion", "bots", "wellbeing"}     \* each ends a category's run
Watcher == {"buildings", "unlock"} \cup Ends

ASSUME SplitsAssumption ==
  /\ Offered \subseteq Watcher
  /\ Enabled \subseteq Watcher
  /\ MaxDrops \in Nat

VARIABLES
  newGame,     \* this game is a new one, and its start can be seen
  stage,       \* its initializer: before the overlay, past it, finished
  loading,     \* the scene is being replaced
  registered,  \* services the container holds
  done,        \* what each watched object says: it has happened
  happened,    \* history: what did happen, as opposed to being restored
  torn,        \* history: what came to read as done under a suspended tick,
               \*   in memory of the scene being left
  pc,          \* top of the loop, re-reading the container, walking, returned
  polled,      \* the stage as last read
  snapshot,    \* services in the container as last read
  bound,       \* watchers that are resolved
  quiet,       \* ... found it done on arrival
  spent,       \* ... have reported it
  ended,       \* ended, bot_ended, wellbeing_ended
  runBegan,    \* run_began
  timer,       \* the host's timer
  timed,       \* history: it runs since the splitter started it
  splits,      \* history: splits of this timing, by watcher
  drops

gameVars  == <<newGame, stage, loading, registered, done, happened, torn>>
watchVars == <<pc, polled, snapshot, bound, quiet, spent, ended, runBegan>>
timerVars == <<timer, timed, splits>>
vars == <<gameVars, watchVars, timerVars, drops>>

TypeOK ==
  /\ newGame \in BOOLEAN /\ loading \in BOOLEAN
  /\ stage \in 0 .. 2 /\ polled \in 0 .. stage
  /\ registered \subseteq Watcher /\ snapshot \subseteq registered
  /\ done \subseteq Watcher /\ happened \subseteq Watcher /\ torn \subseteq Watcher
  /\ pc \in {"Top", "Refresh", "Walk", "Gone"}
  /\ bound \subseteq snapshot /\ quiet \subseteq Watcher /\ spent \subseteq Watcher
  /\ ended \subseteq Ends
  /\ runBegan \in BOOLEAN
  /\ timer \in {"NotRunning", "Running"}
  /\ timed => runBegan /\ timer = "Running"
  /\ splits \in [Watcher -> Nat]
  /\ drops \in 0 .. MaxDrops

\* The scene is being replaced, and the tick that finds it so does nothing else.
Over == loading /\ pc \in {"Top", "Gone"}

\* `watch` begins with a run start that was polled through the container scan.
\* If it crossed the overlay there it has fired, and a run is under way for
\* `watch` from the start: for a new game, whose timer was started then, but
\* also for a save the loader said nothing of, whose crossing fires too.
Init ==
  /\ newGame \in BOOLEAN
  /\ stage \in {0, 1} /\ polled \in 0 .. stage
  /\ loading = FALSE
  /\ registered = {} /\ snapshot = {}
  /\ done = {} /\ happened = {} /\ torn = {}
  /\ pc = "Top"
  /\ bound = {} /\ quiet = {} /\ spent = {} /\ ended = {}
  /\ runBegan \in {polled = 1, newGame /\ polled = 1}
  /\ timer \in {"NotRunning", "Running"}
  /\ timed \in {FALSE, newGame /\ runBegan /\ timer = "Running"}
  /\ splits = [w \in Watcher |-> 0]
  /\ drops = 0

(***************************************************************************)
(* The game.                                                               *)
(***************************************************************************)
\* Initialization goes on.  Loading a save restores what had been done in it,
\* part way through: before the initializer finishes.
Advance ==
  /\ ~loading /\ stage < 2
  /\ stage' = stage + 1
  /\ UNCHANGED <<newGame, loading, registered, done, happened, torn, watchVars, timerVars, drops>>

Restore(w) ==
  /\ ~newGame /\ stage = 1 /\ w \notin done
  /\ done' = done \cup {w}
  /\ UNCHANGED <<newGame, stage, loading, registered, happened, torn, watchVars, timerVars, drops>>

Register(w) ==
  /\ w \notin registered /\ ~loading
  /\ registered' = registered \cup {w}
  /\ UNCHANGED <<newGame, stage, loading, done, happened, torn, watchVars, timerVars, drops>>

Happen(w) ==
  /\ ~loading /\ stage = 2 /\ w \notin done
  /\ done' = done \cup {w}
  /\ happened' = happened \cup {w}
  /\ UNCHANGED <<newGame, stage, loading, registered, torn, watchVars, timerVars, drops>>

\* The average well-being goes down again; nothing else is ever undone.
Fall ==
  /\ "wellbeing" \in done
  /\ done' = done \ {"wellbeing"}
  /\ UNCHANGED <<newGame, stage, loading, registered, happened, torn, watchVars, timerVars, drops>>

Leave ==
  /\ ~loading
  /\ loading' = TRUE
  /\ UNCHANGED <<newGame, stage, registered, done, happened, torn, watchVars, timerVars, drops>>

\* What a scene leaves behind validates for a while and reads as anything:
\* once no tick of that scene is under way, or already while one is.
Rot(w) ==
  /\ loading /\ w \notin done
  /\ done' = done \cup {w}
  /\ torn' = IF Over THEN torn ELSE torn \cup {w}
  /\ UNCHANGED <<newGame, stage, loading, registered, happened, watchVars, timerVars, drops>>

(***************************************************************************)
(* One tick of `watch`, in the pieces its awaits cut it into.              *)
(***************************************************************************)
\* Mutant of Initialized: what is restored may still be missing.
Initialized_AtOverlay(s) == s >= 1

Initialized(s) == s = 2

\* The run start is polled, and fires on the crossing.
RunStarts == newGame /\ ~runBegan /\ stage > 0
Began     == runBegan \/ RunStarts

\* A run start drops every watcher and starts a stopped timer.
AfterRunStart(b) == IF RunStarts THEN {} ELSE b

StartTimer ==
  IF RunStarts /\ timer = "NotRunning"
    THEN timer' = "Running" /\ timed' = TRUE
    ELSE UNCHANGED <<timer, timed>>

\* Mutant of Quieted: a run under way changes nothing.
Quieted_Always(now, began) == now \cap done

\* Watchers that are bound now and find it done: not news, unless the run is
\* under way and it was done during it.
Quieted(now, began) == IF began THEN {} ELSE now \cap done

\* Mutant of Fires: an end is reported as often as it reads.
Fires_Again(b, q, s) == {w \in b \cap done : w \notin q /\ (w \notin Ends => w \notin s)}

\* What the watchers report.  The ends are reported once by `watch` itself,
\* the others once by their watcher.
Fires(b, q, s) ==
  {w \in b \cap done : w \notin q /\ w \notin (IF w \in Ends THEN ended ELSE s)}

\* The rest of the tick for watchers b: the invalid are dropped, the others
\* polled, and what they report is split if it is enabled and the timer runs.
PollAll(b, q, s, running) ==
  \E lost \in SUBSET b :
    LET news == Fires(b \ lost, q, s) IN
    /\ Cardinality(lost) <= 1
    /\ drops' = drops + Cardinality(lost) /\ drops' <= MaxDrops
    /\ bound' = b \ lost
    /\ quiet' = q \ lost
    /\ spent' = (s \ lost) \cup (news \ Ends)
    /\ ended' = ended \cup (news \cap Ends)
    /\ splits' = [w \in Watcher |->
                    splits[w] + IF running /\ w \in news \cap Enabled THEN 1 ELSE 0]

\* started_loading
WatchEnds ==
  /\ pc = "Top" /\ loading
  /\ pc' = "Gone"
  /\ UNCHANGED <<gameVars, polled, snapshot, bound, quiet, spent, ended, runBegan, timerVars, drops>>

\* A tick that resolves nothing.
QuickTick ==
  /\ pc = "Top" /\ ~loading
  /\ polled' = stage
  /\ runBegan' = Began
  /\ StartTimer
  /\ LET b == AfterRunStart(bound)
     IN  PollAll(b, quiet \cap b, spent \cap b, timer' = "Running")
  /\ UNCHANGED <<gameVars, pc, snapshot>>

\* A tick on which a missing watcher is due: the container is read again.
BeginRefresh ==
  /\ pc = "Top" /\ ~loading
  /\ Initialized(stage)
  /\ AfterRunStart(bound) # Watcher
  /\ polled' = stage
  /\ runBegan' = Began
  /\ StartTimer
  /\ bound' = AfterRunStart(bound)
  /\ quiet' = quiet \cap bound' /\ spent' = spent \cap bound'
  /\ pc' = "Refresh"
  /\ UNCHANGED <<gameVars, snapshot, ended, splits, drops>>

\* What the container is found to hold.
Reread == registered

\* Mutant of Arriving: what is wanted is taken for found.
Arriving_Unheld(ws, held) == ws \ bound

\* Missing watchers among ws that the container holds.
Arriving(ws, held) == (ws \cap held) \ bound

\* The container has been read.  What comes before the buildings is resolved;
\* the buildings, if they are due, first walk the entities.
Refreshed ==
  /\ pc = "Refresh"
  /\ snapshot' = Reread
  /\ IF Arriving({"buildings"}, snapshot') # {}
       THEN LET now == Arriving({"completion", "unlock"}, snapshot') IN
            /\ bound' = bound \cup now
            /\ quiet' = quiet \cup Quieted(now, runBegan)
            /\ pc' = "Walk"
            /\ UNCHANGED <<spent, ended, splits, drops>>
       ELSE LET now == Arriving(Watcher, snapshot') IN
            /\ PollAll(bound \cup now, quiet \cup Quieted(now, runBegan), spent,
                       timer = "Running")
            /\ pc' = "Top"
  /\ UNCHANGED <<gameVars, polled, runBegan, timer, timed>>

\* The walk is over; the rest is resolved and the tick goes on.
Walked ==
  /\ pc = "Walk"
  /\ LET now == Arriving(Watcher, snapshot) IN
       PollAll(bound \cup now, quiet \cup Quieted(now, runBegan), spent, timer = "Running")
  /\ pc' = "Top"
  /\ UNCHANGED <<gameVars, polled, snapshot, runBegan, timer, timed>>

\* The runner's own use of the timer; a reset begins a new count.
UserTimer ==
  /\ timer' = IF timer = "Running" THEN "NotRunning" ELSE "Running"
  /\ timed' = FALSE
  /\ splits' = [w \in Watcher |-> 0]
  /\ UNCHANGED <<gameVars, watchVars, drops>>

GameNext ==
  \/ Advance \/ Fall \/ Leave
  \/ \E w \in Offered : Restore(w) \/ Register(w) \/ Happen(w) \/ Rot(w)

WatchNext == WatchEnds \/ QuickTick \/ BeginRefresh \/ Refreshed \/ Walked

Next == GameNext \/ WatchNext \/ UserTimer

Spec == Init /\ [][Next]_vars

(***************************************************************************)
(* The task is polled for as long as the host runs it, and one tick in 120 *)
(* resolves what is missing.  The game finishes initializing and registers *)
(* its services.                                                           *)
(***************************************************************************)
FairSpec ==
  /\ Spec
  /\ WF_vars(QuickTick) /\ WF_vars(Refreshed) /\ WF_vars(Walked)
  /\ SF_vars(BeginRefresh)
  /\ WF_vars(Advance)
  /\ \A w \in Offered : WF_vars(Register(w))

(***************************************************************************)
(* Properties.                                                             *)
(***************************************************************************)
\* A save that `watch` takes for a run under way.
TakenForARun == runBegan /\ ~newGame

\* A split is news: what it is for happened in this game while it was being
\* played.  Nothing a save restored is split for, however late it was restored
\* and however often the watchers were bound, unless the save itself was taken
\* for a run; and of the memory of a scene that is being left, only what comes
\* to read as done while a tick is suspended in an await can be.
SplitsAreNews ==
  \A w \in Watcher : splits[w] > 0 => w \in happened \cup torn \/ TakenForARun

\* Each end of a run is split for once in a timing, however often its watcher
\* is lost and bound again.
EndsSplitOnce == \A w \in Ends : splits[w] <= 1

\* In a run the splitter timed, everything that is on and stays done is split
\* for in the end, however late its service appeared.
EverySplitComes ==
  \A w \in Enabled \cap Offered :
    <>[](timed /\ ~loading /\ w \in done) => <>(splits[w] > 0)
=============================================================================
