----------------------------- MODULE Lifecycle -----------------------------
(***************************************************************************)
(* How the splitter follows one attached game from scene to scene and      *)
(* decides when a run starts: the main loop `run`, the scene watcher       *)
(* SceneLoad, the binding of RunStart and the part of `watch` that drives  *)
(* it (src/src/lib.rs).                                                    *)
(*                                                                         *)
(* The splitter is one cooperative task: it runs from one next_tick().await*)
(* to the next without interruption, and each action below is such a       *)
(* stretch.  A search of the heap awaits many ticks, so it is two actions, *)
(* and the game moves between them.                                        *)
(***************************************************************************)
EXTENDS GameWorld

CONSTANTS
  SlowLoads,          \* a load outlasts whatever search the splitter is in
  SaveNameResolves,   \* WorldDataService.SourceFileName can be read
  StartSetting,       \* Settings.start
  MaxMisses           \* bound: searches that overlook what is there

ASSUME LifecycleAssumption ==
  /\ SlowLoads \in BOOLEAN
  /\ SaveNameResolves \in BOOLEAN
  /\ StartSetting \in BOOLEAN
  /\ MaxMisses \in Nat

VARIABLES
  pc,         \* which await of `run` or `watch` the task is at
  scene,      \* SceneLoad: the flag as last read, what loaded, observed
  rs,         \* run_start
  prevRS,     \* previous_run_start
  lost,       \* lost_run_start
  runBegan,   \* run_began
  timer,      \* the host's timer
  status,     \* the status line
  started,    \* history: the games the splitter started the timer for
  misses

splitterVars == <<pc, scene, rs, prevRS, lost, runBegan, timer, status, started, misses>>
vars == <<gameVars, splitterVars>>

PC == {"Load",        \* the load loop of `run`
       "BindLoad",    \* awaiting RunStart::resolve_during_load
       "Bind",        \* awaiting RunStart::resolve after the load
       "Menu",        \* the menu branch, awaiting its delay
       "Scan",        \* awaiting Registry::resolve
       "Watch",       \* the loop of `watch`
       "BindWatch"}   \* awaiting RunStart::resolve inside `watch`

Status == {"", "Run start missed", "Game already in progress",
           "Cannot tell a new game from a loaded save"}

SceneLoad == [flag : BOOLEAN, loaded : SceneKind \cup {"Unknown"}, observed : BOOLEAN]

TypeOK ==
  /\ GameTypeOK
  /\ pc \in PC
  /\ scene \in SceneLoad
  /\ rs \in Watcher(Addr)
  /\ prevRS \in Addr \cup {NoAddr}
  /\ lost \in Addr \cup {NoAddr}
  /\ runBegan \in BOOLEAN
  /\ timer \in {"NotRunning", "Running"}
  /\ status \in Status
  /\ started \subseteq Load \cup {NoLoad, OtherOwner}
  /\ misses \in 0 .. MaxMisses

\* SceneLoad::resolve: the loader's parameters describe the last load even
\* when nobody watched it.
ResolvedScene == [flag |-> FALSE, loaded |-> params, observed |-> FALSE]

\* The main loop is entered: with the scene that is up already known, or while
\* the load runs that filled in the classes `run` had been waiting for, and
\* then with whatever the loader said before it.
Init ==
  /\ GameInit
  /\ pc = "Load"
  /\ scene \in SceneLoad /\ ~scene.flag /\ ~scene.observed
  /\ ~loading => scene = ResolvedScene
  /\ rs = NoWatcher
  /\ prevRS = NoAddr
  /\ lost = NoAddr
  /\ runBegan = FALSE
  /\ timer \in {"NotRunning", "Running"}
  /\ status = ""
  /\ started = {}
  /\ misses = 0

\* Mutant of VerdictOf: the scene is handed on as it is.
VerdictOf_Scene(kind) == kind

\* Scene -> Option<bool>, as the loader's answer is handed to a watcher.
VerdictOf(kind) ==
  CASE kind = "New" -> "new" [] kind = "Save" -> "save" [] OTHER -> "unknown"

(***************************************************************************)
(* Searching for a GameInitializer.                                        *)
(***************************************************************************)

\* What a search may return: an instance that validates and is not skipped
\* and, during a load, has not reached the overlay.
Acceptable(skip, requirePreUI) ==
  {a \in Addr : /\ heap[a].valid
                /\ a # skip
                /\ requirePreUI => heap[a].st < SHOW_UI}

\* The search ends: with the first instance it accepts, in whatever order the
\* table or the heap holds them, or with none.  A bounded number of searches
\* overlook what is there: the table does not hold it yet, a page does not
\* read, the object was built behind the sweep.
SearchEnds(found, skip, requirePreUI) ==
  LET ok == Acceptable(skip, requirePreUI) IN
  \/ found \in ok /\ UNCHANGED misses
  \/ found = NoAddr /\ ok = {} /\ UNCHANGED misses
  \/ found = NoAddr /\ ok # {} /\ misses < MaxMisses /\ misses' = misses + 1

BoundOrNone(found, verdict, watched) ==
  IF found = NoAddr THEN NoWatcher ELSE Bound(found, verdict, watched)

\* bind says so when the save-name static does not resolve.
StatusAfterBind(found) ==
  IF found # NoAddr /\ ~SaveNameResolves
    THEN "Cannot tell a new game from a loaded save" ELSE status

(***************************************************************************)
(* Polling a watcher, from the container scan and from the watch loop.     *)
(***************************************************************************)
ReadState(w)   == heap[w.inst].st
SaysNewGame(w) == IsBound(w) /\ Announces(w, ReadState(w), saveName /\ SaveNameResolves)

\* start_timer: only from a stopped timer.
StartTimer(w) ==
  IF StartSetting /\ timer = "NotRunning"
    THEN /\ timer' = "Running"
         /\ started' = started \cup {heap[w.inst].of}
    ELSE UNCHANGED <<timer, started>>

LateStatus(w, line) ==
  IF IsBound(w) /\ ArrivesLate(w, ReadState(w)) /\ timer = "NotRunning"
    THEN IF w.watched THEN "Run start missed" ELSE "Game already in progress"
    ELSE line

PollResult(w) == IF IsBound(w) THEN Polled(w, ReadState(w)) ELSE w

(***************************************************************************)
(* The load loop.                                                          *)
(***************************************************************************)
\* Mutant of Sample: the parameters are read on the rising edge only.
Sample_RisingEdge ==
  /\ scene' = [flag |-> TRUE, observed |-> TRUE,
               loaded |-> IF params = "Unknown" \/ scene.flag THEN scene.loaded ELSE params]
  /\ sampled' = (sampled \/ fresh)

\* The loader's parameters, sampled on every pass.
Sample ==
  /\ scene' = [flag |-> TRUE, observed |-> TRUE,
               loaded |-> IF params = "Unknown" THEN scene.loaded ELSE params]
  /\ sampled' = (sampled \/ fresh)

GameUnchangedButSample ==
  UNCHANGED <<loading, fresh, params, kinds, load, heap, saveName, shown>>

\* One pass of the loop that asks for nothing: an instance is bound already,
\* no game is coming, or the pass is not due.
WatchLoad ==
  /\ pc = "Load" /\ loading
  /\ Sample
  /\ GameUnchangedButSample
  /\ UNCHANGED <<pc, rs, prevRS, lost, runBegan, timer, status, started, misses>>

\* A pass that asks for the initializer.
BeginBindDuringLoad ==
  /\ pc = "Load" /\ loading
  /\ ~IsBound(rs)
  /\ Sample
  /\ scene'.loaded \in GameKind
  /\ pc' = "BindLoad"
  /\ GameUnchangedButSample
  /\ UNCHANGED <<rs, prevRS, lost, runBegan, timer, status, started, misses>>

BindDuringLoad(found) ==
  /\ pc = "BindLoad"
  /\ SearchEnds(found, prevRS, TRUE)
  /\ rs' = BoundOrNone(found, VerdictOf(scene.loaded), TRUE)
  /\ status' = StatusAfterBind(found)
  /\ pc' = "Load"
  /\ UNCHANGED <<gameVars, scene, prevRS, lost, runBegan, timer, started>>

\* Mutant of LeaveLoad: the menu is treated like a game.
LeaveLoad_ScansOnMenu ==
  /\ pc = "Load" /\ ~loading
  /\ scene' = [scene EXCEPT !.flag = FALSE]
  /\ rs' = rs
  /\ status' = IF scene.loaded \in GameKind THEN "" ELSE status
  /\ pc' = IF IsBound(rs) THEN "Scan" ELSE "Bind"
  /\ UNCHANGED <<gameVars, prevRS, lost, runBegan, timer, started, misses>>

\* The load is over.  Correct the watcher bound during it, clear the last
\* game's warning, and go on to the menu branch, the late bind or the scan.
LeaveLoad ==
  /\ pc = "Load" /\ ~loading
  /\ scene' = [scene EXCEPT !.flag = FALSE]
  /\ rs' = CASE scene.loaded = "Menu" -> NoWatcher
             [] scene.loaded \in GameKind /\ IsBound(rs) ->
                  ExpectNewGame(rs, VerdictOf(scene.loaded))
             [] OTHER -> rs
  /\ status' = IF scene.loaded \in GameKind THEN "" ELSE status
  /\ pc' = CASE scene.loaded = "Menu" -> "Menu"
             [] scene.loaded # "Menu" /\ IsBound(rs) -> "Scan"
             [] OTHER                 -> "Bind"
  /\ UNCHANGED <<gameVars, prevRS, lost, runBegan, timer, started, misses>>

BindAfterLoad(found) ==
  /\ pc = "Bind"
  /\ SearchEnds(found, prevRS, FALSE)
  /\ rs' = BoundOrNone(found, VerdictOf(scene.loaded), scene.observed)
  /\ status' = StatusAfterBind(found)
  /\ pc' = "Scan"
  /\ UNCHANGED <<gameVars, scene, prevRS, lost, runBegan, timer, started>>

MenuDelay ==
  /\ pc = "Menu"
  /\ pc' = "Load"
  /\ UNCHANGED <<gameVars, scene, rs, prevRS, lost, runBegan, timer, status, started, misses>>

(***************************************************************************)
(* The container scan, which polls the run start between its slices.       *)
(***************************************************************************)
PollDuringScan ==
  /\ pc = "Scan" /\ IsBound(rs)
  /\ rs' = PollResult(rs)
  /\ status' = LateStatus(rs, status)
  /\ IF SaysNewGame(rs) THEN StartTimer(rs) ELSE UNCHANGED <<timer, started>>
  /\ UNCHANGED <<gameVars, pc, scene, prevRS, lost, runBegan, misses>>

\* A container with a clock in it was found; `watch` begins.
ScanFinds ==
  /\ pc = "Scan"
  /\ prevRS' = IF IsBound(rs) THEN rs.inst ELSE prevRS
  /\ runBegan' = (IsBound(rs) /\ rs.fired)
  /\ lost' = NoAddr
  /\ pc' = "Watch"
  /\ UNCHANGED <<gameVars, scene, rs, timer, status, started, misses>>

\* None was.  The watcher is dropped with everything else of this pass.
ScanFindsNothing ==
  /\ pc = "Scan"
  /\ IF InGame /\ ~loading
       THEN misses < MaxMisses /\ misses' = misses + 1
       ELSE UNCHANGED misses
  /\ rs' = NoWatcher
  /\ pc' = "Load"
  /\ UNCHANGED <<gameVars, scene, prevRS, lost, runBegan, timer, status, started>>

(***************************************************************************)
(* The watch loop.                                                         *)
(***************************************************************************)

\* started_loading: the flag rose since it was last read, so this world ends.
\* The loader itself may have to be found again.
WatchEnds ==
  /\ pc = "Watch" /\ loading /\ ~scene.flag
  /\ scene' \in {[scene EXCEPT !.flag = TRUE], ResolvedScene}
  /\ pc' = "Load"
  /\ rs' = NoWatcher
  /\ lost' = NoAddr
  /\ runBegan' = FALSE
  /\ UNCHANGED <<gameVars, prevRS, timer, status, started, misses>>

\* Mutant of Gone: the state is read of whatever the memory holds.
Gone_Never == FALSE

\* The instance watched is validated before its state is read.
Gone == IsBound(rs) /\ ~heap[rs.inst].valid

\* The rest of a tick of `watch` for watcher w: one poll of it.
WatchPoll(w) ==
  LET announced == SaysNewGame(w) IN
  /\ rs' = PollResult(w)
  /\ runBegan' = (runBegan \/ announced)
  /\ IF announced THEN StartTimer(w) ELSE UNCHANGED <<timer, started>>

WatchTick ==
  /\ pc = "Watch" /\ ~loading
  /\ lost' = IF Gone THEN rs.inst ELSE lost
  /\ LET w == IF Gone THEN NoWatcher ELSE rs IN
       /\ WatchPoll(w)
       /\ status' = IF SaysNewGame(w) THEN "" ELSE LateStatus(w, status)
  /\ UNCHANGED <<gameVars, pc, scene, prevRS, misses>>

\* Mutant of BeginBindInWatch: an initializer that was lost is not looked for.
BeginBindInWatch_Once ==
  /\ pc = "Watch" /\ ~loading
  /\ ~IsBound(rs) /\ lost = NoAddr
  /\ scene.loaded # "Menu"
  /\ lost' = lost
  /\ rs' = NoWatcher
  /\ pc' = "BindWatch"
  /\ UNCHANGED <<gameVars, scene, prevRS, runBegan, timer, status, started, misses>>

\* A tick on which a search for the missing run start is due.
BeginBindInWatch ==
  /\ pc = "Watch" /\ ~loading
  /\ ~IsBound(rs) \/ Gone
  /\ scene.loaded # "Menu"
  /\ lost' = IF Gone THEN rs.inst ELSE lost
  /\ rs' = NoWatcher
  /\ pc' = "BindWatch"
  /\ UNCHANGED <<gameVars, scene, prevRS, runBegan, timer, status, started, misses>>

\* The search ends and the tick it interrupted goes on with the poll.
BindInWatch(found) ==
  /\ pc = "BindWatch"
  /\ SearchEnds(found, lost, FALSE)
  /\ LET w == BoundOrNone(found, VerdictOf(scene.loaded), scene.observed) IN
       /\ WatchPoll(w)
       /\ status' = IF SaysNewGame(w) THEN "" ELSE LateStatus(w, StatusAfterBind(found))
  /\ pc' = "Watch"
  /\ UNCHANGED <<gameVars, scene, prevRS, lost>>

(***************************************************************************)
(* The runner's own use of the timer.                                      *)
(***************************************************************************)
UserTimer ==
  /\ timer' = IF timer = "Running" THEN "NotRunning" ELSE "Running"
  /\ UNCHANGED <<gameVars, pc, scene, rs, prevRS, lost, runBegan, status, started, misses>>

SplitterNext ==
  \/ WatchLoad
  \/ BeginBindDuringLoad
  \/ LeaveLoad
  \/ MenuDelay
  \/ PollDuringScan
  \/ ScanFinds
  \/ ScanFindsNothing
  \/ WatchEnds
  \/ WatchTick
  \/ BeginBindInWatch
  \/ \E a \in Addr \cup {NoAddr} :
       BindDuringLoad(a) \/ BindAfterLoad(a) \/ BindInWatch(a)

\* The game moves, within what its pace next to the splitter's allows.  A load
\* lasts many ticks, so it does not end before its parameters were sampled --
\* unless the task spends all of it in one search.  And it is slow next to the
\* tick that separates two polls: a state reached before it has been polled
\* before its parameters replace the static that goes with it.
Searching == pc \in {"BindLoad", "Bind", "Scan", "BindWatch"}
PollDue   == pc \in {"Scan", "Watch"} /\ IsBound(rs) /\ rs.last # ReadState(rs)
GameMoves(action) ==
  /\ action
  /\ loading /\ ~loading' => sampled \/ (Searching /\ ~SlowLoads)
  /\ PollDue => saveName' = saveName
  /\ UNCHANGED splitterVars

Next ==
  \/ GameMoves(GameNext)
  \/ SplitterNext
  \/ UserTimer

Spec == Init /\ [][Next]_vars

(***************************************************************************)
(* The splitter's task is polled for as long as the host runs it.  A miss  *)
(* is left to the bound, and so are the runner's choices; but a load that  *)
(* began completes, an initializer gets its dependencies and steps on, and *)
(* freed memory is reused at some point.                                   *)
(***************************************************************************)
Fairness ==
  /\ WF_vars(WatchLoad) /\ WF_vars(BeginBindDuringLoad) /\ WF_vars(LeaveLoad)
  /\ WF_vars(\E a \in Addr \cup {NoAddr} :
                BindDuringLoad(a) \/ BindAfterLoad(a) \/ BindInWatch(a))
  /\ WF_vars(MenuDelay)
  /\ WF_vars(PollDuringScan) /\ WF_vars(ScanFinds)
  /\ WF_vars(WatchEnds) /\ WF_vars(WatchTick) /\ WF_vars(BeginBindInWatch)
  /\ WF_vars(GameMoves(SetParameters))
  /\ WF_vars(GameMoves(EndLoad))
  /\ \A a \in Addr :
       /\ WF_vars(GameMoves(BuildInitializer(a)))
       /\ WF_vars(GameMoves(Inject(a)))
       /\ WF_vars(GameMoves(Advance(a, FINISHED)))
       /\ WF_vars(GameMoves(Left(a) /\ \E s \in Garbage : Reclaim(a, s)))

FairSpec == Spec /\ Fairness

(***************************************************************************)
(* Properties.                                                             *)
(***************************************************************************)

\* The container scan polls its run start without validating it: the state it
\* reads may be that of whatever owns a freed initializer's memory by now.
FalseStart ==
  /\ pc = "Scan" /\ IsBound(rs) /\ ~heap[rs.inst].valid
  /\ timer = "NotRunning" /\ timer' = "Running"
  /\ started' = started \cup {OtherOwner}
  /\ UNCHANGED <<kinds, shown>>

\* But for false starts the splitter keeps RunTimer's promise, whatever freed
\* memory reads as and however often a watcher was bound: it starts the timer
\* only for a new game, once, from a stopped timer and after that game's
\* overlay was shown.  A tick of `watch` never starts it falsely, because it
\* validates first; a poll of the container scan may (lib.rs:623).
Promise == INSTANCE RunTimer
StartsOnlyRuns ==
  Promise!Init /\ [][Promise!Next \/ FalseStart]_(Promise!rtVars)

\* What `run` and `watch` take the scene to be is the scene that is up: once
\* a load is over, `scene.loaded` is not a load out of date.
LoadedIsCurrent ==
  ~loading => scene.loaded \in {kinds[load], "Unknown"}

\* Sitting on the menu, the runner is never told that a run start was missed
\* or that a game is in progress, although the last game's objects still read.
LateWarning == {"Run start missed", "Game already in progress"}
QuietOnTheMenu ==
  [][(status' # status /\ status' \in LateWarning)
       => (scene.loaded # "Menu" /\ (loading \/ scene.loaded = "Unknown" \/ InGame))]_vars

\* Saved state may be sampled only when the game on screen has finished
\* initializing.  The one watcher that may say so earlier is bound to an
\* initializer that survives the game it belonged to.
SamplesRestoredState ==
  pc = "Watch" /\ Initialized(rs) /\ ~Gone /\ ~loading
    => Left(rs.inst) \/ \E a \in LiveSet : heap[a].st >= FINISHED

\* A game the runner stays in is followed in the end: some watcher bound to
\* its own initializer sees it finish, whatever was bound to before.
Followed ==
  pc = "Watch" /\ rs.inst \in LiveSet /\ Initialized(rs)
GameStays  == InGame /\ ~loading
GamesAreFollowed == <>[]GameStays => <>[]Followed
=============================================================================
