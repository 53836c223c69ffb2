-------------------------- MODULE Lifecycle_proofs --------------------------
(***************************************************************************)
(* What holds of Lifecycle for every number of addresses and loads: types, *)
(* that the scene the splitter believes in is the one that is up, that a   *)
(* restored game is sampled before it is watched, that the menu is quiet,  *)
(* and that what starts the host's timer is a run: the steps of Lifecycle  *)
(* are those of RunTimer, change nothing there, or are a false start on    *)
(* what the container scan reads in a freed initializer.                   *)
(***************************************************************************)
EXTENDS Lifecycle, TLAPS

(***************************************************************************)
(* Type correctness, one lemma for each part of the state.                 *)
(***************************************************************************)
\* A poll leaves a watcher a watcher, whatever state it read.
LEMMA PolledType ==
  ASSUME NEW w \in Watcher(Addr), NEW s \in InitState
  PROVE  Polled(w, s) \in Watcher(Addr)
  BY DEF Polled, Watcher, Crosses, PastOverlay, Verdict, InitState, Waiting, SHOW_UI,
         FINISHED, Unread

\* What bind builds is a watcher, and so is the absence of one.
LEMMA BoundType ==
  ASSUME NEW a \in Addr \cup {NoAddr}, NEW v \in Verdict, NEW b \in BOOLEAN
  PROVE  Bound(a, v, b) \in Watcher(Addr)
  BY DEF Bound, Watcher, Unread

LEMMA NoWatcherType == NoWatcher \in Watcher(Addr)
  BY DEF NoWatcher, Bound, Watcher, Unread, Verdict

LEMMA BoundOrNoneType ==
  ASSUME NEW a \in Addr \cup {NoAddr}, NEW v \in Verdict, NEW b \in BOOLEAN
  PROVE  BoundOrNone(a, v, b) \in Watcher(Addr)
  BY BoundType, NoWatcherType DEF BoundOrNone

LEMMA VerdictType == \A k : VerdictOf(k) \in Verdict
  BY DEF VerdictOf, Verdict

\* A poll of a bound watcher reads an initialization state.
LEMMA PollResultType ==
  ASSUME GameTypeOK, NEW w \in Watcher(Addr)
  PROVE  PollResult(w) \in Watcher(Addr)
<1>1. CASE IsBound(w)
  <2>1. w.inst \in Addr
    BY <1>1 DEF IsBound, Watcher
  <2>2. ReadState(w) \in InitState
    BY <2>1 DEF ReadState, GameTypeOK, Slot
  <2> QED
    BY <1>1, <2>2, PolledType DEF PollResult
<1>2. CASE ~IsBound(w)
  BY <1>2 DEF PollResult
<1> QED
  BY <1>1, <1>2

\* Starting the timer keeps it a timer and records an owner of the slot.
LEMMA StartTimerType ==
  ASSUME TypeOK, NEW w \in Watcher(Addr), IsBound(w), StartTimer(w)
  PROVE  /\ timer' \in {"NotRunning", "Running"}
         /\ started' \subseteq Load \cup {NoLoad, OtherOwner}
<1>1. w.inst \in Addr
  BY DEF IsBound, Watcher
<1>2. heap[w.inst].of \in Load \cup {NoLoad, OtherOwner}
  BY <1>1 DEF TypeOK, GameTypeOK, Slot
<1> QED
  BY <1>2 DEF StartTimer, TypeOK

LEMMA LateStatusType ==
  ASSUME NEW w, NEW line \in Status
  PROVE  LateStatus(w, line) \in Status
  BY DEF LateStatus, Status

LEMMA StatusAfterBindType ==
  ASSUME NEW a, status \in Status
  PROVE  StatusAfterBind(a) \in Status
  BY DEF StatusAfterBind, Status

LEMMA MissesType ==
  ASSUME TypeOK, NEW a, NEW s, NEW b, SearchEnds(a, s, b)
  PROVE  misses' \in 0 .. MaxMisses
<1>1. MaxMisses \in Nat
  BY LifecycleAssumption
<1> QED
  BY <1>1 DEF TypeOK, SearchEnds

\* The game's own steps keep the types of the game's state.
LEMMA GameStepType ==
  ASSUME GameTypeOK, kinds[load] \in SceneKind, GameNext
  PROVE  GameTypeOK' /\ (kinds[load] \in SceneKind)'
<1> USE DEF GameTypeOK
<1>0. MaxLoads \in Nat /\ Garbage \subseteq InitState
  BY GameWorldAssumption
<1>1. ASSUME NEW k \in SceneKind, StartLoad(k)
      PROVE  GameTypeOK' /\ (kinds[load] \in SceneKind)'
  <2>1. load + 1 \in Load
    BY <1>0, <1>1 DEF StartLoad, Load
  <2>2. /\ kinds' \in [Load -> SceneKind \cup {"None"}]
        /\ kinds'[load + 1] = k
    BY <1>1, <2>1 DEF StartLoad
  <2> QED
    BY <1>1, <2>1, <2>2 DEF StartLoad
<1>2. CASE SetParameters
  BY <1>2 DEF SetParameters
<1>3. CASE EndLoad
  BY <1>3 DEF EndLoad
<1>4. ASSUME NEW a \in Addr, BuildInitializer(a)
      PROVE  GameTypeOK' /\ (kinds[load] \in SceneKind)'
  BY <1>4 DEF BuildInitializer, Slot, InitState
<1>5. ASSUME NEW a \in Addr, Inject(a)
      PROVE  GameTypeOK' /\ (kinds[load] \in SceneKind)'
  BY <1>5 DEF Inject, Slot
<1>6. ASSUME NEW a \in Addr, NEW s \in InitState, Advance(a, s)
      PROVE  GameTypeOK' /\ (kinds[load] \in SceneKind)'
  BY <1>6 DEF Advance, Slot
<1>7. ASSUME NEW a \in Addr, Rot(a)
      PROVE  GameTypeOK' /\ (kinds[load] \in SceneKind)'
  BY <1>7 DEF Rot, Slot, InitState
<1>8. ASSUME NEW a \in Addr, NEW s \in Garbage, Reclaim(a, s)
      PROVE  GameTypeOK' /\ (kinds[load] \in SceneKind)'
  BY <1>0, <1>8 DEF Reclaim, Slot, Freed
<1> QED
  BY <1>1, <1>2, <1>3, <1>4, <1>5, <1>6, <1>7, <1>8 DEF GameNext

(***************************************************************************)
(* The inductive invariant.  A load's own parameters reach the splitter    *)
(* while it waits in the load loop, and until then nothing it believes     *)
(* about the scene is believed of a scene that is up.                      *)
(***************************************************************************)
LoadHasAKind  == kinds[load] \in SceneKind
FreshIsTrue   == loading /\ fresh => params = kinds[load]
SampledIsTrue == sampled => fresh /\ scene.loaded = kinds[load]
SampledInLoop == loading /\ sampled => pc \in {"Load", "BindLoad"}

IInv == TypeOK /\ LoadHasAKind /\ FreshIsTrue /\ SampledIsTrue /\ SampledInLoop
          /\ LoadedIsCurrent

LEMMA InitIInv == Init => IInv
<1> SUFFICES ASSUME Init PROVE IInv
  OBVIOUS
<1>0. MaxLoads \in Nat /\ MaxMisses \in Nat
  BY GameWorldAssumption, LifecycleAssumption
<1>1. PICK k \in SceneKind :
         /\ kinds = [n \in Load |-> IF n = 0 THEN k ELSE "None"]
         /\ saveName = (k = "Save")
         /\ \/ /\ loading = FALSE /\ fresh = TRUE
               /\ params \in {k, "Unknown"}
            \/ /\ loading = TRUE /\ fresh = FALSE
               /\ params \in SceneKind \cup {"Unknown"}
  BY DEF Init, GameInit
<1>2. 0 \in Load /\ load = 0
  <2>1. 0 \in Load
    BY <1>0 DEF Load
  <2>2. load = 0
    BY DEF Init, GameInit
  <2> QED
    BY <2>1, <2>2
<1>3. kinds[load] = k /\ LoadHasAKind
  BY <1>1, <1>2 DEF LoadHasAKind
<1>4. heap \in [Addr -> Slot]
  <2>1. \A s \in InitState : [of |-> 0, st |-> s, valid |-> TRUE] \in Slot
    BY <1>2 DEF Slot
  <2>2. Unused \in Slot
    BY DEF Unused, Slot, InitState
  <2> QED
    BY <2>1, <2>2 DEF Init, GameInit
<1>5. GameTypeOK
  BY <1>1, <1>2, <1>4 DEF Init, GameInit, GameTypeOK
<1>6. TypeOK
  <2>1. scene \in SceneLoad
    BY DEF Init
  <2>2. rs \in Watcher(Addr)
    BY NoWatcherType DEF Init
  <2>3. misses \in 0 .. MaxMisses
    <3>1. misses = 0
      BY DEF Init
    <3> QED
      BY <1>0, <3>1
  <2>4. pc \in PC /\ status \in Status /\ runBegan \in BOOLEAN
    BY DEF Init, PC, Status
  <2> QED
    BY <1>5, <2>1, <2>2, <2>3, <2>4 DEF Init, TypeOK
<1>7. FreshIsTrue /\ SampledIsTrue /\ SampledInLoop
  <2>1. sampled = FALSE
    BY DEF Init, GameInit
  <2>2. ~(loading /\ fresh)
    BY <1>1
  <2> QED
    BY <2>1, <2>2 DEF FreshIsTrue, SampledIsTrue, SampledInLoop
<1>8. LoadedIsCurrent
  <2>1. ~loading => scene = ResolvedScene
    BY DEF Init
  <2>2. ~loading => scene.loaded = params
    BY <2>1 DEF ResolvedScene
  <2>3. ~loading => params \in {k, "Unknown"}
    BY <1>1
  <2> QED
    BY <1>3, <2>2, <2>3 DEF LoadedIsCurrent
<1> QED
  BY <1>3, <1>6, <1>7, <1>8 DEF IInv

(***************************************************************************)
(* The game's steps: a load ends only after its parameters were sampled.   *)
(***************************************************************************)
LEMMA GameStepIInv ==
  ASSUME SlowLoads, IInv, GameMoves(GameNext)
  PROVE  IInv'
<1> USE DEF IInv
<1>0. GameNext /\ UNCHANGED splitterVars
  BY DEF GameMoves
<1>1. GameTypeOK' /\ LoadHasAKind'
  BY <1>0, GameStepType DEF TypeOK, LoadHasAKind
<1>2. TypeOK'
  BY <1>0, <1>1 DEF TypeOK, splitterVars
<1>3. loading /\ ~loading' => sampled
  BY DEF GameMoves
<1>4. MaxLoads \in Nat
  BY GameWorldAssumption
<1>5. ASSUME NEW k \in SceneKind, StartLoad(k)
      PROVE  FreshIsTrue' /\ SampledIsTrue' /\ SampledInLoop' /\ LoadedIsCurrent'
  BY <1>5 DEF StartLoad, FreshIsTrue, SampledIsTrue, SampledInLoop, LoadedIsCurrent
<1>6. ASSUME SetParameters
      PROVE  FreshIsTrue' /\ SampledIsTrue' /\ SampledInLoop' /\ LoadedIsCurrent'
  BY <1>0, <1>6 DEF SetParameters, splitterVars, FreshIsTrue, SampledIsTrue, SampledInLoop,
                    LoadedIsCurrent
<1>7. ASSUME EndLoad
      PROVE  FreshIsTrue' /\ SampledIsTrue' /\ SampledInLoop' /\ LoadedIsCurrent'
  BY <1>0, <1>3, <1>7 DEF EndLoad, splitterVars, FreshIsTrue, SampledIsTrue, SampledInLoop,
                          LoadedIsCurrent
<1>8. ASSUME NEW a \in Addr,
             \/ BuildInitializer(a)
             \/ Inject(a)
             \/ \E s \in InitState : Advance(a, s)
             \/ Rot(a)
             \/ \E s \in Garbage : Reclaim(a, s)
      PROVE  FreshIsTrue' /\ SampledIsTrue' /\ SampledInLoop' /\ LoadedIsCurrent'
  <2>1. UNCHANGED <<loading, fresh, params, kinds, load, sampled>>
    BY <1>8 DEF BuildInitializer, Inject, Advance, Rot, Reclaim
  <2> QED
    BY <1>0, <2>1 DEF splitterVars, FreshIsTrue, SampledIsTrue, SampledInLoop, LoadedIsCurrent
<1> QED
  BY <1>0, <1>1, <1>2, <1>5, <1>6, <1>7, <1>8 DEF GameNext

(***************************************************************************)
(* The splitter's steps.                                                   *)
(***************************************************************************)
\* Nothing of the game but the history of the sampling is a splitter step's.
LEMMA SampleType ==
  ASSUME TypeOK, Sample, GameUnchangedButSample, pc' \in PC,
         UNCHANGED <<rs, prevRS, lost, runBegan, timer, status, started, misses>>
  PROVE  TypeOK'
<1>1. GameTypeOK'
  BY DEF TypeOK, GameTypeOK, Sample, GameUnchangedButSample
<1>2. (IF params = "Unknown" THEN scene.loaded ELSE params) \in SceneKind \cup {"Unknown"}
  BY DEF TypeOK, GameTypeOK, SceneLoad
<1>3. scene' \in SceneLoad
  BY <1>2 DEF Sample, SceneLoad
<1> QED
  BY <1>1, <1>3 DEF TypeOK

\* The types of everything but the splitter's own state, in a splitter step.
LEMMA GameKept ==
  ASSUME GameTypeOK, UNCHANGED gameVars
  PROVE  GameTypeOK'
BY DEF GameTypeOK, gameVars

\* The poll of a tick of `watch` keeps the types of what it may change.
LEMMA WatchPollType ==
  ASSUME TypeOK, NEW w \in Watcher(Addr), WatchPoll(w)
  PROVE  /\ rs' \in Watcher(Addr)
         /\ runBegan' \in BOOLEAN
         /\ timer' \in {"NotRunning", "Running"}
         /\ started' \subseteq Load \cup {NoLoad, OtherOwner}
<1>1. rs' \in Watcher(Addr)
  BY PollResultType DEF WatchPoll, TypeOK
<1>2. runBegan' \in BOOLEAN
  BY DEF WatchPoll
<1>3. CASE SaysNewGame(w)
  <2>1. IsBound(w) /\ StartTimer(w)
    BY <1>3 DEF WatchPoll, SaysNewGame
  <2> QED
    BY <1>1, <1>2, <2>1, StartTimerType
<1>4. CASE ~SaysNewGame(w)
  BY <1>1, <1>2, <1>4 DEF WatchPoll, TypeOK
<1> QED
  BY <1>3, <1>4

\* Every step of the splitter keeps the types.
LEMMA SplitterStepType ==
  ASSUME TypeOK, SplitterNext
  PROVE  TypeOK'
<1>0. rs \in Watcher(Addr) /\ NoWatcher \in Watcher(Addr)
  BY NoWatcherType DEF TypeOK
<1>1. CASE WatchLoad
  BY <1>1, SampleType DEF WatchLoad, PC, TypeOK
<1>2. CASE BeginBindDuringLoad
  BY <1>2, SampleType DEF BeginBindDuringLoad, PC
<1>3. CASE LeaveLoad
  <2>1. rs' \in Watcher(Addr)
    <3>1. ExpectNewGame(rs, VerdictOf(scene.loaded)) \in Watcher(Addr)
      BY <1>0, VerdictType DEF ExpectNewGame, Watcher
    <3> QED
      BY <1>0, <1>3, <3>1 DEF LeaveLoad
  <2>2. scene' \in SceneLoad /\ scene'.loaded = scene.loaded
    BY <1>3 DEF LeaveLoad, TypeOK, SceneLoad
  <2>3. pc' \in PC /\ status' \in Status /\ UNCHANGED gameVars /\ ~loading
    BY <1>3 DEF LeaveLoad, TypeOK, PC, Status
  <2> QED
    BY <1>3, <2>1, <2>2, <2>3, GameKept DEF LeaveLoad, TypeOK
<1>4. CASE MenuDelay
  BY <1>4, GameKept DEF MenuDelay, TypeOK, PC
<1>5. CASE PollDuringScan
  <2>1. rs' \in Watcher(Addr)
    BY <1>0, <1>5, PollResultType DEF PollDuringScan, TypeOK
  <2>2. status' \in Status
    BY <1>5, LateStatusType DEF PollDuringScan, TypeOK
  <2>3. timer' \in {"NotRunning", "Running"} /\ started' \subseteq Load \cup {NoLoad, OtherOwner}
    <3>1. CASE SaysNewGame(rs)
      BY <1>0, <1>5, <3>1, StartTimerType DEF PollDuringScan
    <3>2. CASE ~SaysNewGame(rs)
      BY <1>5, <3>2 DEF PollDuringScan, TypeOK
    <3> QED
      BY <3>1, <3>2
  <2> QED
    BY <1>5, <2>1, <2>2, <2>3, GameKept DEF PollDuringScan, TypeOK
<1>6. CASE ScanFinds
  <2>1. prevRS' \in Addr \cup {NoAddr}
    BY <1>0, <1>6 DEF ScanFinds, TypeOK, Watcher
  <2>2. runBegan' \in BOOLEAN
    BY <1>6 DEF ScanFinds
  <2> QED
    BY <1>6, <2>1, <2>2, GameKept DEF ScanFinds, TypeOK, PC
<1>7. CASE ScanFindsNothing
  <2>1. misses' \in 0 .. MaxMisses
    BY <1>7, LifecycleAssumption DEF ScanFindsNothing, TypeOK
  <2> QED
    BY <1>0, <1>7, <2>1, GameKept DEF ScanFindsNothing, TypeOK, PC
<1>8. CASE WatchEnds
  <2>1. scene' \in SceneLoad
    <3>1. [scene EXCEPT !.flag = TRUE] \in SceneLoad
      BY DEF TypeOK, SceneLoad
    <3>2. ResolvedScene \in SceneLoad
      BY DEF TypeOK, GameTypeOK, SceneLoad, ResolvedScene
    <3> QED
      BY <1>8, <3>1, <3>2 DEF WatchEnds
  <2> QED
    BY <1>0, <1>8, <2>1, GameKept DEF WatchEnds, TypeOK, PC
<1>9. CASE WatchTick
  <2> DEFINE w == IF Gone THEN NoWatcher ELSE rs
  <2>1. w \in Watcher(Addr)
    BY <1>0
  <2>2. WatchPoll(w) /\ status' = (IF SaysNewGame(w) THEN "" ELSE LateStatus(w, status))
    BY <1>9 DEF WatchTick
  <2>3. lost' \in Addr \cup {NoAddr}
    BY <1>0, <1>9 DEF WatchTick, TypeOK, Watcher
  <2> HIDE DEF w
  <2>4. status' \in Status
    BY <2>2, LateStatusType DEF TypeOK, Status
  <2> QED
    BY <1>9, <2>1, <2>2, <2>3, <2>4, WatchPollType, GameKept DEF WatchTick, TypeOK
<1>10. CASE BeginBindInWatch
  <2>1. lost' \in Addr \cup {NoAddr}
    BY <1>0, <1>10 DEF BeginBindInWatch, TypeOK, Watcher
  <2> QED
    BY <1>0, <1>10, <2>1, GameKept DEF BeginBindInWatch, TypeOK, PC
<1>11. ASSUME NEW a \in Addr \cup {NoAddr}, BindDuringLoad(a) \/ BindAfterLoad(a)
       PROVE  TypeOK'
  <2>1. rs' \in Watcher(Addr)
    <3>1. BoundOrNone(a, VerdictOf(scene.loaded), TRUE) \in Watcher(Addr)
      BY VerdictType, BoundOrNoneType
    <3>2. scene.observed \in BOOLEAN
      BY DEF TypeOK, SceneLoad
    <3>3. BoundOrNone(a, VerdictOf(scene.loaded), scene.observed) \in Watcher(Addr)
      BY <3>2, VerdictType, BoundOrNoneType
    <3> QED
      BY <1>11, <3>1, <3>3 DEF BindDuringLoad, BindAfterLoad
  <2>2. status' \in Status
    BY <1>11, StatusAfterBindType DEF BindDuringLoad, BindAfterLoad, TypeOK
  <2>3. misses' \in 0 .. MaxMisses
    BY <1>11, MissesType DEF BindDuringLoad, BindAfterLoad
  <2> QED
    BY <1>11, <2>1, <2>2, <2>3, GameKept DEF BindDuringLoad, BindAfterLoad, TypeOK, PC
<1>12. ASSUME NEW a \in Addr \cup {NoAddr}, BindInWatch(a)
       PROVE  TypeOK'
  <2> DEFINE w == BoundOrNone(a, VerdictOf(scene.loaded), scene.observed)
  <2>1. w \in Watcher(Addr)
    BY VerdictType, BoundOrNoneType DEF TypeOK, SceneLoad
  <2>2. WatchPoll(w) /\ status' = (IF SaysNewGame(w) THEN "" ELSE LateStatus(w, StatusAfterBind(a)))
    BY <1>12 DEF BindInWatch
  <2>3. misses' \in 0 .. MaxMisses
    BY <1>12, MissesType DEF BindInWatch
  <2> HIDE DEF w
  <2>4. status' \in Status
    <3>1. StatusAfterBind(a) \in Status
      BY StatusAfterBindType DEF TypeOK
    <3>2. LateStatus(w, StatusAfterBind(a)) \in Status
      BY <3>1, LateStatusType
    <3>3. "" \in Status
      BY DEF Status
    <3> QED
      BY <2>2, <3>2, <3>3
  <2> QED
    BY <1>12, <2>1, <2>2, <2>3, <2>4, WatchPollType, GameKept DEF BindInWatch, TypeOK, PC
<1> QED
  BY <1>1, <1>2, <1>3, <1>4, <1>5, <1>6, <1>7, <1>8, <1>9, <1>10, <1>11, <1>12 DEF SplitterNext

\* A sample taken once the parameters are the load's own is the truth.
LEMMA SampleIInv ==
  ASSUME IInv, TypeOK', loading, Sample, GameUnchangedButSample, pc' \in {"Load", "BindLoad"}
  PROVE  IInv'
<1> USE DEF IInv
<1>1. LoadHasAKind' /\ FreshIsTrue'
  BY DEF GameUnchangedButSample, LoadHasAKind, FreshIsTrue
<1>2. ASSUME sampled'
      PROVE  fresh' /\ scene'.loaded = kinds'[load']
  <2>1. fresh /\ params = kinds[load]
    BY <1>2 DEF Sample, SampledIsTrue, FreshIsTrue
  <2>2. params # "Unknown"
    BY <2>1 DEF LoadHasAKind, SceneKind, GameKind
  <2>3. scene'.loaded = params
    BY <2>2 DEF Sample
  <2> QED
    BY <2>1, <2>3 DEF GameUnchangedButSample
<1>3. SampledIsTrue'
  BY <1>2 DEF SampledIsTrue
<1>4. SampledInLoop' /\ LoadedIsCurrent'
  BY DEF GameUnchangedButSample, SampledInLoop, LoadedIsCurrent
<1> QED
  BY <1>1, <1>3, <1>4

\* A step that leaves the game and the scene alone, and does not enter a watch
\* or a search from the load loop while a load runs.
LEMMA QuietStepIInv ==
  ASSUME IInv, TypeOK', UNCHANGED gameVars, scene'.loaded = scene.loaded,
         loading => pc' \in {"Load", "BindLoad"} \/ pc \notin {"Load", "BindLoad"}
  PROVE  IInv'
BY DEF IInv, gameVars, LoadHasAKind, FreshIsTrue, SampledIsTrue, SampledInLoop, LoadedIsCurrent

LEMMA SplitterStepIInv ==
  ASSUME IInv, TypeOK', SplitterNext
  PROVE  IInv'
<1>1. CASE WatchLoad \/ BeginBindDuringLoad
  BY <1>1, SampleIInv DEF WatchLoad, BeginBindDuringLoad
<1>2. CASE WatchEnds
  <2>1. loading' /\ ~sampled'
    BY <1>2 DEF WatchEnds, IInv, SampledInLoop, gameVars
  <2>2. LoadHasAKind' /\ FreshIsTrue'
    BY <1>2 DEF WatchEnds, gameVars, IInv, LoadHasAKind, FreshIsTrue
  <2> QED
    BY <2>1, <2>2 DEF IInv, SampledIsTrue, SampledInLoop, LoadedIsCurrent
<1>3. CASE LeaveLoad
  <2>1. scene'.loaded = scene.loaded
    BY <1>3 DEF LeaveLoad, IInv, TypeOK, SceneLoad
  <2> QED
    BY <1>3, <2>1, QuietStepIInv DEF LeaveLoad
<1>4. CASE MenuDelay
  BY <1>4, QuietStepIInv DEF MenuDelay
<1>5. CASE PollDuringScan \/ ScanFinds \/ ScanFindsNothing
  BY <1>5, QuietStepIInv DEF PollDuringScan, ScanFinds, ScanFindsNothing
<1>6. CASE WatchTick \/ BeginBindInWatch
  BY <1>6, QuietStepIInv DEF WatchTick, BeginBindInWatch
<1>7. ASSUME NEW a \in Addr \cup {NoAddr},
             BindDuringLoad(a) \/ BindAfterLoad(a) \/ BindInWatch(a)
      PROVE  IInv'
  BY <1>7, QuietStepIInv DEF BindDuringLoad, BindAfterLoad, BindInWatch
<1> QED
  BY <1>1, <1>2, <1>3, <1>4, <1>5, <1>6, <1>7 DEF SplitterNext

(***************************************************************************)
(* The theorems.                                                           *)
(***************************************************************************)
\* Every step keeps the types, whoever takes it and however fast a load is.
LEMMA NextType ==
  ASSUME TypeOK, LoadHasAKind, [Next]_vars
  PROVE  TypeOK' /\ LoadHasAKind'
<1>1. CASE GameMoves(GameNext)
  <2>1. GameTypeOK' /\ LoadHasAKind'
    BY <1>1, GameStepType DEF GameMoves, TypeOK, LoadHasAKind
  <2> QED
    BY <1>1, <2>1 DEF GameMoves, splitterVars, TypeOK
<1>2. CASE SplitterNext
  <2>1. UNCHANGED <<kinds, load>>
    BY <1>2 DEF SplitterNext, gameVars, GameUnchangedButSample, WatchLoad,
                BeginBindDuringLoad, LeaveLoad, MenuDelay, PollDuringScan, ScanFinds,
                ScanFindsNothing, WatchEnds, WatchTick, BeginBindInWatch,
                BindDuringLoad, BindAfterLoad, BindInWatch
  <2> QED
    BY <1>2, <2>1, SplitterStepType DEF LoadHasAKind
<1>3. CASE UserTimer
  BY <1>3, GameKept DEF UserTimer, TypeOK, gameVars, LoadHasAKind
<1>4. CASE UNCHANGED vars
  BY <1>4, GameKept DEF vars, splitterVars, gameVars, TypeOK, LoadHasAKind
<1> QED
  BY <1>1, <1>2, <1>3, <1>4 DEF Next

\* The state of the splitter, and of the game it reads, stays well typed.
THEOREM TypeCorrect == Spec => []TypeOK
<1>1. Init => TypeOK /\ LoadHasAKind
  BY InitIInv DEF IInv
<1>2. TypeOK /\ LoadHasAKind /\ [Next]_vars => (TypeOK /\ LoadHasAKind)'
  BY NextType
<1> QED
  BY <1>1, <1>2, PTL DEF Spec

\* The invariant of every behaviour in which a load outlasts a search.
THEOREM Invariance ==
  ASSUME SlowLoads
  PROVE  Spec => []IInv
<1>1. Init => IInv
  BY InitIInv
<1>2. IInv /\ [Next]_vars => IInv'
  <2> SUFFICES ASSUME IInv, [Next]_vars PROVE IInv'
    OBVIOUS
  <2>0. TypeOK'
    BY NextType DEF IInv
  <2>1. CASE GameMoves(GameNext)
    BY <2>1, GameStepIInv
  <2>2. CASE SplitterNext
    BY <2>0, <2>2, SplitterStepIInv
  <2>3. CASE UserTimer
    BY <2>0, <2>3, QuietStepIInv DEF UserTimer
  <2>4. CASE UNCHANGED vars
    BY <2>0, <2>4, QuietStepIInv DEF vars, splitterVars
  <2> QED
    BY <2>1, <2>2, <2>3, <2>4 DEF Next
<1> QED
  BY <1>1, <1>2, PTL DEF Spec

\* What the splitter takes the scene to be is the scene that is up, however
\* many loads a session has and wherever they overtake it.
THEOREM SceneIsCurrent ==
  ASSUME SlowLoads
  PROVE  Spec => []LoadedIsCurrent
<1>1. IInv => LoadedIsCurrent
  BY DEF IInv
<1> QED
  BY <1>1, Invariance, PTL

(***************************************************************************)
(* The world the splitter reads, whatever it reads meanwhile: a load has   *)
(* one initializer at the most, of a game that began, and what validates   *)
(* was built for a load.                                                   *)
(***************************************************************************)
Owned ==
  \A a \in Addr : heap[a].of \in Load => heap[a].of <= load /\ kinds[heap[a].of] \in GameKind
NotYet       == \A n \in Load : n > load => kinds[n] = "None"
OneEach      == \A a, b \in Addr : heap[a].of = heap[b].of /\ heap[a].of \in Load => a = b
ValidIsBuilt == \A a \in Addr : heap[a].valid => heap[a].of \in Load
Named        == /\ fresh /\ kinds[load] = "Save" => saveName
                /\ ~loading => fresh

World == Owned /\ NotYet /\ OneEach /\ ValidIsBuilt /\ Named

LEMMA InitWorld == Init => World
<1> SUFFICES ASSUME Init PROVE World
  OBVIOUS
<1>1. PICK k \in SceneKind :
         /\ kinds = [n \in Load |-> IF n = 0 THEN k ELSE "None"]
         /\ saveName = (k = "Save")
         /\ \/ loading = FALSE /\ fresh = TRUE
            \/ loading = TRUE /\ fresh = FALSE
  BY DEF Init, GameInit
<1>2. load = 0 /\ 0 \in Load /\ NoLoad \notin Load
  <2>1. load = 0
    BY DEF Init, GameInit
  <2>2. 0 \in Load /\ NoLoad \notin Load
    BY GameWorldAssumption DEF Load, NoLoad
  <2> QED
    BY <2>1, <2>2
<1>3. PICK s \in InitState, a \in Addr :
         heap = [b \in Addr |-> IF b = a /\ InGame /\ ~loading
                                  THEN [of |-> 0, st |-> s, valid |-> TRUE]
                                  ELSE Unused]
  BY DEF Init, GameInit
<1>4. Owned
  BY <1>2, <1>3 DEF Owned, Unused, InGame
<1>5. OneEach /\ ValidIsBuilt
  BY <1>2, <1>3 DEF OneEach, ValidIsBuilt, Unused
<1>6. NotYet
  BY <1>1, <1>2 DEF NotYet
<1>7. Named
  BY <1>1, <1>2 DEF Named
<1> QED
  BY <1>4, <1>5, <1>6, <1>7 DEF World

LEMMA GameStepWorld ==
  ASSUME GameTypeOK, LoadHasAKind, World, GameNext
  PROVE  World'
<1> USE DEF World
<1>0. MaxLoads \in Nat /\ NoLoad \notin Load /\ OtherOwner \notin Load
  BY GameWorldAssumption DEF Load, NoLoad, OtherOwner
<1>1. ASSUME NEW k \in SceneKind, StartLoad(k)
      PROVE  World'
  <2>1. load \in Load /\ load + 1 \in Load /\ load' = load + 1 /\ load < load + 1
    BY <1>0, <1>1 DEF StartLoad, GameTypeOK, Load
  <2>2. \A n \in Load : kinds'[n] = IF n = load + 1 THEN k ELSE kinds[n]
    BY <1>1, <2>1 DEF StartLoad, GameTypeOK
  <2>3. \A n \in Load : n \in Int
    BY <1>0 DEF Load
  <2>4. Owned'
    BY <1>1, <2>1, <2>2, <2>3 DEF Owned, StartLoad
  <2>5. NotYet'
    BY <2>1, <2>2, <2>3 DEF NotYet
  <2>6. OneEach' /\ ValidIsBuilt'
    BY <1>1 DEF OneEach, ValidIsBuilt, StartLoad
  <2>7. Named'
    BY <1>1 DEF Named, StartLoad
  <2> QED
    BY <2>4, <2>5, <2>6, <2>7
<1>2. CASE SetParameters
  <2>1. UNCHANGED <<kinds, load, heap, loading>> /\ loading
    BY <1>2 DEF SetParameters
  <2>2. kinds[load] = "Save" => saveName'
    BY <1>2 DEF SetParameters
  <2> QED
    BY <2>1, <2>2 DEF Owned, NotYet, OneEach, ValidIsBuilt, Named
<1>3. CASE EndLoad
  BY <1>3 DEF EndLoad, Owned, NotYet, OneEach, ValidIsBuilt, Named
<1>4. ASSUME NEW a \in Addr, BuildInitializer(a)
      PROVE  World'
  <2>1. \A b \in Addr : heap'[b] = IF b = a THEN [of |-> load, st |-> Waiting, valid |-> FALSE]
                                            ELSE heap[b]
    BY <1>4 DEF BuildInitializer, GameTypeOK
  <2>2. UNCHANGED <<kinds, load, fresh, loading, saveName>> /\ kinds[load] \in GameKind
    BY <1>4 DEF BuildInitializer, InGame
  <2>3. \A b \in Addr : heap[b].of # load
    BY <1>4 DEF BuildInitializer, LiveSet, Live
  <2>4. load \in Load /\ load <= load
    BY <1>0 DEF GameTypeOK, Load
  <2>5. Owned'
    BY <2>1, <2>2, <2>4 DEF Owned
  <2>6. OneEach'
    BY <2>1, <2>3 DEF OneEach
  <2>7. ValidIsBuilt'
    BY <2>1 DEF ValidIsBuilt
  <2> QED
    BY <2>2, <2>5, <2>6, <2>7 DEF NotYet, Named
<1>5. ASSUME NEW a \in Addr,
             \/ Inject(a)
             \/ \E s \in InitState : Advance(a, s)
             \/ Rot(a)
      PROVE  World'
  <2>1. UNCHANGED <<kinds, load, fresh, loading, saveName>>
    BY <1>5 DEF Inject, Advance, Rot
  <2>2. \A b \in Addr : heap'[b].of = heap[b].of
    BY <1>5 DEF Inject, Advance, Rot, GameTypeOK, Slot
  <2>3. \A b \in Addr : heap'[b].valid => heap[b].valid \/ heap[b].of = load
    BY <1>5 DEF Inject, Advance, Rot, Live, GameTypeOK, Slot
  <2>4. ValidIsBuilt'
    BY <2>2, <2>3 DEF ValidIsBuilt, GameTypeOK
  <2> QED
    BY <2>1, <2>2, <2>4 DEF Owned, NotYet, OneEach, Named
<1>6. ASSUME NEW a \in Addr, NEW s \in Garbage, Reclaim(a, s)
      PROVE  World'
  <2>1. UNCHANGED <<kinds, load, fresh, loading, saveName>>
    BY <1>6 DEF Reclaim
  <2>2. \A b \in Addr : heap'[b] = IF b = a THEN Freed(s) ELSE heap[b]
    BY <1>6 DEF Reclaim, GameTypeOK
  <2> QED
    BY <1>0, <2>1, <2>2 DEF Owned, NotYet, OneEach, ValidIsBuilt, Named, Freed
<1> QED
  BY <1>1, <1>2, <1>3, <1>4, <1>5, <1>6 DEF GameNext

\* The splitter only reads: all a step of its own changes of the game's state
\* is the history of the sampling.
LEMMA SplitterReads ==
  ASSUME SplitterNext
  PROVE  UNCHANGED <<loading, fresh, params, kinds, load, heap, saveName, shown>>
BY DEF SplitterNext, gameVars, GameUnchangedButSample, WatchLoad, BeginBindDuringLoad,
       LeaveLoad, MenuDelay, PollDuringScan, ScanFinds, ScanFindsNothing, WatchEnds,
       WatchTick, BeginBindInWatch, BindDuringLoad, BindAfterLoad, BindInWatch

LEMMA WorldKept ==
  ASSUME World, UNCHANGED <<loading, fresh, kinds, load, heap, saveName>>
  PROVE  World'
BY DEF World, Owned, NotYet, OneEach, ValidIsBuilt, Named

LEMMA NextWorld ==
  ASSUME TypeOK, LoadHasAKind, World, [Next]_vars
  PROVE  World'
<1>1. CASE GameMoves(GameNext)
  BY <1>1, GameStepWorld DEF GameMoves, TypeOK
<1>2. CASE SplitterNext
  BY <1>2, SplitterReads, WorldKept
<1>3. CASE UserTimer \/ UNCHANGED vars
  BY <1>3, WorldKept DEF UserTimer, vars, gameVars
<1> QED
  BY <1>1, <1>2, <1>3 DEF Next

(***************************************************************************)
(* What a watcher knows is of the game it is polled in.  The splitter      *)
(* follows the last load that came to its end, `Cur`, and only reads the   *)
(* state of an initializer while that stays the last one: during the next  *)
(* load it is either still at what the last one left it, or back in the    *)
(* load loop with nothing polled.                                          *)
(***************************************************************************)
Cur     == IF loading THEN load - 1 ELSE load
InLoop  == pc \in {"Load", "BindLoad"}
Polling == pc \in {"Scan", "Watch"}

\* No watcher outlives the pass of the main loop it was bound in, and none is
\* polled before the container scan.
Unpolled == ~Polling => rs.last = Unread /\ ~rs.seen /\ ~rs.fired /\ ~rs.warned

\* Past the menu branch the scene is not the menu.
NotMenu == pc \in {"Bind", "Scan", "Watch", "BindWatch"} => scene.loaded # "Menu"

\* An initializer that was read as finished is, while it is in use.
FinishedIsSeen(w) ==
  IsBound(w) /\ w.last >= FINISHED /\ ~loading /\ Live(w.inst) => heap[w.inst].st >= FINISHED

Settled == Unpolled /\ NotMenu /\ (Polling => FinishedIsSeen(rs))

LEMMA UnreadIsNothing ==
  ASSUME NEW w, w.last = Unread
  PROVE  FinishedIsSeen(w)
BY DEF FinishedIsSeen, Unread, FINISHED

\* What bind returns has been polled by nobody.
LEMMA BoundIsUnpolled ==
  ASSUME NEW a, NEW v, NEW b
  PROVE  LET w == BoundOrNone(a, v, b) IN
           /\ w.last = Unread /\ ~w.seen /\ ~w.fired /\ ~w.warned
           /\ IsBound(w) => w.newGame = v /\ w.inst = a
BY DEF BoundOrNone, NoWatcher, Bound, IsBound

LEMMA NoWatcherIsUnpolled ==
  /\ NoWatcher.last = Unread
  /\ ~NoWatcher.seen /\ ~NoWatcher.fired /\ ~NoWatcher.warned
  /\ ~IsBound(NoWatcher)
BY DEF NoWatcher, Bound, IsBound

\* A poll of the state that is there leaves the watcher knowing it.
LEMMA PollSees ==
  ASSUME GameTypeOK, NEW w \in Watcher(Addr), FinishedIsSeen(w)
  PROVE  FinishedIsSeen(PollResult(w)) /\ PollResult(w).inst = w.inst
<1>1. CASE IsBound(w)
  <2>1. w.inst \in Addr /\ heap[w.inst].st \in InitState
    BY <1>1 DEF IsBound, Watcher, GameTypeOK, Slot
  <2>2. PollResult(w).last = heap[w.inst].st /\ PollResult(w).inst = w.inst
    BY <1>1 DEF PollResult, ReadState, Polled, Watcher
  <2> QED
    BY <2>1, <2>2 DEF FinishedIsSeen
<1>2. CASE ~IsBound(w)
  BY <1>2 DEF PollResult
<1> QED
  BY <1>1, <1>2

\* Away from the load loop the last load stays the last: one that begins there
\* does not end there.
LEMMA CurKept ==
  ASSUME SlowLoads, IInv, GameMoves(GameNext)
  PROVE  /\ Cur' >= Cur
         /\ ~InLoop => Cur' = Cur /\ (loading => loading')
<1>0. GameNext /\ load \in Int
  BY GameWorldAssumption DEF GameMoves, IInv, TypeOK, GameTypeOK, Load
<1>1. ASSUME NEW k \in SceneKind, StartLoad(k)
      PROVE  Cur' = Cur /\ ~loading
  BY <1>0, <1>1 DEF StartLoad, Cur
<1>2. CASE EndLoad
  <2>1. sampled /\ pc \in {"Load", "BindLoad"}
    BY <1>2 DEF EndLoad, GameMoves, IInv, SampledInLoop
  <2> QED
    BY <1>0, <1>2, <2>1 DEF EndLoad, Cur, InLoop
<1>3. ASSUME UNCHANGED <<load, loading>>
      PROVE  Cur' = Cur /\ (loading => loading')
  BY <1>3 DEF Cur
<1>4. Cur \in Int
  BY <1>0 DEF Cur
<1>5. \/ \E k \in SceneKind : StartLoad(k)
      \/ EndLoad
      \/ UNCHANGED <<load, loading>>
  BY <1>0 DEF GameNext, SetParameters, BuildInitializer, Inject, Advance, Rot, Reclaim
<1> QED
  BY <1>1, <1>2, <1>3, <1>4, <1>5

\* The game takes back no state of an object in use.
LEMMA GameKeepsFinished ==
  ASSUME SlowLoads, IInv, GameMoves(GameNext), Polling, NEW w \in Watcher(Addr), FinishedIsSeen(w)
  PROVE  FinishedIsSeen(w)'
<1> SUFFICES ASSUME IsBound(w), w.last >= FINISHED, ~loading', Live(w.inst)'
             PROVE  heap'[w.inst].st >= FINISHED
  BY DEF FinishedIsSeen
<1>0. GameNext /\ w.inst \in Addr /\ heap[w.inst] \in Slot
  BY DEF GameMoves, IsBound, Watcher, IInv, TypeOK, GameTypeOK
<1>1. ~loading
  BY CurKept DEF Polling, InLoop
<1>2. load' = load
  BY <1>0, <1>1 DEF GameNext, StartLoad, SetParameters, EndLoad, BuildInitializer, Inject, Advance, Rot,
                    Reclaim
<1>3. ASSUME UNCHANGED heap
      PROVE  heap'[w.inst].st >= FINISHED
  BY <1>1, <1>2, <1>3 DEF FinishedIsSeen, Live
<1>4. ASSUME NEW a \in Addr, Inject(a)
      PROVE  heap'[w.inst].st >= FINISHED
  BY <1>0, <1>1, <1>2, <1>4 DEF FinishedIsSeen, Live, Inject, IInv, TypeOK, GameTypeOK, Slot
<1>5. ASSUME NEW a \in Addr, NEW s \in InitState, Advance(a, s)
      PROVE  heap'[w.inst].st >= FINISHED
  BY <1>0, <1>1, <1>2, <1>5 DEF FinishedIsSeen, Live, Advance, IInv, TypeOK, GameTypeOK, Slot, InitState,
                                FINISHED, SHOW_UI, Waiting
<1>6. load # OtherOwner /\ load \in Int
  BY GameWorldAssumption DEF IInv, TypeOK, GameTypeOK, Load, OtherOwner
<1>7. ASSUME NEW a \in Addr, Rot(a) \/ \E s \in Garbage : Reclaim(a, s)
      PROVE  heap'[w.inst].st >= FINISHED
  <2>1. w.inst # a
    BY <1>0, <1>2, <1>6, <1>7 DEF Rot, Reclaim, Left, Live, Freed, IInv, TypeOK, GameTypeOK, Slot
  <2>2. heap'[w.inst] = heap[w.inst]
    BY <1>0, <1>7, <2>1 DEF Rot, Reclaim, IInv, TypeOK, GameTypeOK
  <2> QED
    BY <1>1, <1>2, <2>2 DEF FinishedIsSeen, Live
<1> QED
  BY <1>0, <1>1, <1>3, <1>4, <1>5, <1>7 DEF GameNext, StartLoad, SetParameters, EndLoad, BuildInitializer

LEMMA SplitterSettled ==
  ASSUME IInv, Settled, SplitterNext
  PROVE  Settled'
<1> USE NoWatcherIsUnpolled DEF Settled
<1>0. /\ rs \in Watcher(Addr) /\ GameTypeOK
      /\ scene \in SceneLoad
      /\ UNCHANGED <<loading, heap, load>>
  BY SplitterReads DEF IInv, TypeOK
<1>a. \A w : FinishedIsSeen(w)' <=> FinishedIsSeen(w)
  BY <1>0 DEF FinishedIsSeen, Live
<1>1. CASE WatchLoad \/ BeginBindDuringLoad
  BY <1>1 DEF WatchLoad, BeginBindDuringLoad, Unpolled, NotMenu, Polling
<1>2. CASE LeaveLoad
  <2>1. scene'.loaded = scene.loaded
    BY <1>0, <1>2 DEF LeaveLoad, SceneLoad
  <2>2. NotMenu'
    <3>1. scene.loaded = "Menu" => pc' = "Menu"
      BY <1>2 DEF LeaveLoad
    <3> QED
      BY <2>1, <3>1 DEF NotMenu
  <2>3. rs.last = Unread /\ ~rs.seen /\ ~rs.fired /\ ~rs.warned
    BY <1>2 DEF LeaveLoad, Unpolled, Polling
  <2>4. rs'.last = Unread /\ ~rs'.seen /\ ~rs'.fired /\ ~rs'.warned
    BY <1>0, <1>2, <2>3 DEF LeaveLoad, ExpectNewGame, Watcher
  <2> QED
    BY <2>2, <2>4, <1>a, UnreadIsNothing DEF Unpolled
<1>3. CASE MenuDelay
  BY <1>3 DEF MenuDelay, Unpolled, NotMenu, Polling
<1>4. CASE PollDuringScan
  BY <1>0, <1>4, <1>a, PollSees DEF PollDuringScan, Unpolled, NotMenu, Polling
<1>5. CASE ScanFinds
  BY <1>5, <1>a DEF ScanFinds, Unpolled, NotMenu, Polling
<1>6. CASE ScanFindsNothing \/ WatchEnds
  BY <1>6 DEF ScanFindsNothing, WatchEnds, Unpolled, NotMenu, Polling
<1>7. CASE WatchTick
  <2> DEFINE w == IF Gone THEN NoWatcher ELSE rs
  <2>1. w \in Watcher(Addr) /\ FinishedIsSeen(w)
    BY <1>0, <1>7, NoWatcherType, UnreadIsNothing DEF WatchTick, Polling
  <2>2. rs' = PollResult(w)
    BY <1>7 DEF WatchTick, WatchPoll
  <2> HIDE DEF w
  <2>3. FinishedIsSeen(rs')
    BY <1>0, <2>1, <2>2, PollSees
  <2> QED
    BY <1>7, <1>a, <2>3 DEF WatchTick, Unpolled, NotMenu, Polling
<1>8. CASE BeginBindInWatch
  BY <1>8 DEF BeginBindInWatch, Unpolled, NotMenu, Polling
<1>9. ASSUME NEW a \in Addr \cup {NoAddr}, BindDuringLoad(a) \/ BindAfterLoad(a)
      PROVE  Settled'
  <2>1. rs'.last = Unread /\ ~rs'.seen /\ ~rs'.fired /\ ~rs'.warned
    <3>1. PICK v, b : rs' = BoundOrNone(a, v, b)
      BY <1>9 DEF BindDuringLoad, BindAfterLoad
    <3> QED
      BY <3>1, BoundIsUnpolled
  <2>2. NotMenu'
    BY <1>9 DEF BindDuringLoad, BindAfterLoad, NotMenu
  <2> QED
    BY <1>a, <2>1, <2>2, UnreadIsNothing DEF Unpolled
<1>10. ASSUME NEW a \in Addr \cup {NoAddr}, BindInWatch(a)
       PROVE  Settled'
  <2> DEFINE w == BoundOrNone(a, VerdictOf(scene.loaded), scene.observed)
  <2>1. w \in Watcher(Addr)
    BY <1>0, VerdictType, BoundOrNoneType DEF SceneLoad
  <2>2. w.last = Unread
    BY BoundIsUnpolled
  <2>3. rs' = PollResult(w)
    BY <1>10 DEF BindInWatch, WatchPoll
  <2> HIDE DEF w
  <2>4. FinishedIsSeen(rs')
    BY <1>0, <2>1, <2>2, <2>3, PollSees, UnreadIsNothing
  <2> QED
    BY <1>10, <1>a, <2>4 DEF BindInWatch, Unpolled, NotMenu, Polling
<1> QED
  BY <1>1, <1>2, <1>3, <1>4, <1>5, <1>6, <1>7, <1>8, <1>9, <1>10 DEF SplitterNext

LEMMA NextSettled ==
  ASSUME SlowLoads, IInv, Settled, [Next]_vars
  PROVE  Settled'
<1>1. CASE GameMoves(GameNext)
  <2>1. UNCHANGED splitterVars /\ rs \in Watcher(Addr)
    BY <1>1 DEF GameMoves, IInv, TypeOK
  <2>2. Polling => FinishedIsSeen(rs)'
    BY <1>1, <2>1, GameKeepsFinished DEF Settled, splitterVars, FinishedIsSeen
  <2> QED
    BY <2>1, <2>2 DEF splitterVars, Settled, Unpolled, NotMenu, Polling
<1>2. CASE SplitterNext
  BY <1>2, SplitterSettled
<1>3. CASE UserTimer \/ UNCHANGED vars
  BY <1>3 DEF UserTimer, vars, splitterVars, gameVars, Settled, Unpolled, NotMenu, Polling, FinishedIsSeen,
              Live
<1> QED
  BY <1>1, <1>2, <1>3 DEF Next

LEMMA InitSettled == Init => Settled
BY NoWatcherIsUnpolled DEF Init, Settled, Unpolled, NotMenu, Polling

\* The invariant of what is settled, with what it rests on.
LEMMA SettledInvariance ==
  ASSUME SlowLoads
  PROVE  Spec => [](IInv /\ World /\ Settled)
<1>1. Init => IInv /\ World /\ Settled
  BY InitIInv, InitWorld, InitSettled
<1>2. IInv /\ World /\ [Next]_vars => World'
  BY NextWorld DEF IInv
<1>3. IInv /\ Settled /\ [Next]_vars => Settled'
  BY NextSettled
<1> QED
  BY <1>1, <1>2, <1>3, Invariance, PTL DEF Spec

\* What a save has restored is sampled only once the game on screen has
\* finished initializing: a watcher that validates and says so is bound to that
\* game's own initializer, or else to one that survived the game it belonged to.
THEOREM RestoredStateIsSampled ==
  ASSUME SlowLoads
  PROVE  Spec => []SamplesRestoredState
<1>1. IInv /\ World /\ Settled => SamplesRestoredState
  <2> SUFFICES ASSUME IInv, World, Settled, pc = "Watch", Initialized(rs), ~Gone, ~loading,
                      ~Left(rs.inst)
               PROVE  \E a \in LiveSet : heap[a].st >= FINISHED
    BY DEF SamplesRestoredState
  <2>1. IsBound(rs) /\ rs.inst \in Addr /\ rs.last >= FINISHED
    BY DEF Initialized, IsBound, IInv, TypeOK, Watcher
  <2>2. heap[rs.inst].of \in Load /\ heap[rs.inst].of <= load
    BY <2>1 DEF Gone, World, ValidIsBuilt, Owned
  <2>3. Live(rs.inst)
    <3>1. load \in Load /\ \A n \in Load : n \in Int /\ 0 <= n
      BY GameWorldAssumption DEF IInv, TypeOK, GameTypeOK, Load
    <3>2. heap[rs.inst].of \notin 0 .. load - 1
      BY DEF Left
    <3> QED
      BY <2>2, <3>1, <3>2 DEF Live
  <2>4. heap[rs.inst].st >= FINISHED
    BY <2>1, <2>3 DEF Settled, Polling, FinishedIsSeen
  <2> QED
    BY <2>1, <2>3, <2>4 DEF LiveSet
<1> QED
  BY <1>1, SettledInvariance, PTL

\* The status line warns of a run start only in a scene that is not the menu,
\* however the last game's initializers read meanwhile.
THEOREM QuietMenu ==
  ASSUME SlowLoads
  PROVE  Spec => QuietOnTheMenu
<1>1. ASSUME IInv, Settled, [Next]_vars, status' # status, status' \in LateWarning
      PROVE  scene.loaded # "Menu" /\ (loading \/ scene.loaded = "Unknown" \/ InGame)
  <2>1. pc \in {"Bind", "Scan", "Watch", "BindWatch"}
    <3>1. status' \notin {"", status, "Cannot tell a new game from a loaded save"}
      BY <1>1 DEF LateWarning
    <3>2. ~ GameMoves(GameNext) /\ ~ UserTimer /\ ~ UNCHANGED vars
      BY <1>1 DEF GameMoves, UserTimer, vars, splitterVars
    <3>3. SplitterNext
      BY <1>1, <3>2 DEF Next
    <3> QED
      BY <3>1, <3>3 DEF SplitterNext, WatchLoad, BeginBindDuringLoad, LeaveLoad, MenuDelay,
                        PollDuringScan, ScanFinds, ScanFindsNothing, WatchEnds, WatchTick,
                        BeginBindInWatch, BindDuringLoad, BindAfterLoad, BindInWatch, StatusAfterBind
  <2>2. scene.loaded # "Menu"
    BY <1>1, <2>1 DEF Settled, NotMenu
  <2>3. loading \/ scene.loaded \in {kinds[load], "Unknown"}
    BY <1>1 DEF IInv, LoadedIsCurrent
  <2> QED
    BY <1>1, <2>2, <2>3 DEF IInv, LoadHasAKind, SceneKind, InGame
<1>2. IInv /\ Settled /\ [Next]_vars
        => [(status' # status /\ status' \in LateWarning)
              => (scene.loaded # "Menu" /\ (loading \/ scene.loaded = "Unknown" \/ InGame))]_vars
  BY <1>1
<1> QED
  BY <1>2, SettledInvariance, PTL DEF Spec, QuietOnTheMenu

(***************************************************************************)
(* The refinement: the timer is started for runs only.  The state a        *)
(* watcher crosses the overlay with is the state of the game that is       *)
(* followed, because an initializer steps on only in the scene that is up, *)
(* unless its memory has been freed: then nothing is known of what it      *)
(* reads as, and nothing is claimed.                                       *)
(***************************************************************************)
IsFreed(a) == heap[a].of = OtherOwner

ShownFirst ==
  \A a \in Addr : heap[a].st >= SHOW_UI /\ ~IsFreed(a) => heap[a].of \in shown

\* Away from the load loop the scene is what the load that is followed made.
SceneOfCur == ~InLoop => Cur \in Load /\ scene.loaded \in {kinds[Cur], "Unknown"}

\* During a load a search is for the initializer of a game; once it has found
\* one, the loader has said what loads.
BoundForScene ==
  /\ pc = "BindLoad" => scene.loaded \in GameKind
  /\ pc = "Load" /\ IsBound(rs) => scene.loaded # "Unknown"
  /\ pc = "Menu" => ~IsBound(rs)

\* Games were started when their time came, and are past their overlay since.
StartedPast == \A n \in started \ {OtherOwner} : n \in Load /\ n <= Cur
StartedIsUp ==
  ~loading /\ load \in started => \A a \in Addr : Live(a) => heap[a].st >= SHOW_UI

\* A watcher is told what loaded.  One that has seen its instance before the
\* overlay and has not decided read it so last: if the instance is past the
\* overlay by now, then in the game that is followed, which the timer was not
\* started for, and whose save can still be told by its name.
CrossesHere(a) ==
  heap[a].st >= SHOW_UI /\ ~IsFreed(a) =>
    /\ heap[a].of = Cur /\ Cur \notin started
    /\ kinds[Cur] = "Save" => saveName

Undecided(w) == IsBound(w) /\ w.seen /\ ~w.fired /\ w.newGame # "save"

Knows(w) ==
  /\ IsBound(w) => w.newGame = VerdictOf(scene.loaded)
  /\ Undecided(w) => w.last < SHOW_UI /\ CrossesHere(w.inst)

Crossing ==
  /\ ShownFirst /\ SceneOfCur /\ BoundForScene /\ StartedPast /\ StartedIsUp
  /\ Polling => Knows(rs)

RunInv == IInv /\ World /\ Settled /\ Crossing

LEMMA InitCrossing == Init => Crossing
<1> SUFFICES ASSUME Init PROVE Crossing
  OBVIOUS
<1>1. pc = "Load" /\ started = {} /\ ~IsBound(rs)
  BY NoWatcherIsUnpolled DEF Init
<1>2. ShownFirst
  <2>1. PICK s \in InitState, a \in Addr :
          heap = [b \in Addr |-> IF b = a /\ InGame /\ ~loading
                                   THEN [of |-> 0, st |-> s, valid |-> TRUE]
                                   ELSE Unused]
    BY DEF Init, GameInit
  <2>2. shown = {n \in {0} : OverlayUp} /\ load = 0
    BY DEF Init, GameInit
  <2> SUFFICES ASSUME NEW b \in Addr, heap[b].st >= SHOW_UI
               PROVE  heap[b].of = 0
    BY <2>2 DEF ShownFirst, OverlayUp, Live
  <2> QED
    BY <2>1 DEF Unused, Waiting, SHOW_UI
<1> QED
  BY <1>1, <1>2 DEF Crossing, SceneOfCur, InLoop, BoundForScene, StartedPast, StartedIsUp, Polling

\* Unless its memory was freed, an initializer that announces a run has the
\* timer started for a new game whose overlay was shown, and which it was not
\* started for.
LEMMA AnnouncedIsARun ==
  ASSUME SaveNameResolves, RunInv, Polling, SaysNewGame(rs), ~IsFreed(rs.inst)
  PROVE  LET n == heap[rs.inst].of IN
           /\ n = Cur /\ n \in Load
           /\ kinds[n] = "New" /\ n \in shown /\ n \notin started
<1>1. IsBound(rs) /\ rs.inst \in Addr /\ ReadState(rs) = heap[rs.inst].st
  BY DEF SaysNewGame, IsBound, ReadState, RunInv, IInv, TypeOK, Watcher
<1>2. /\ heap[rs.inst].st >= SHOW_UI
      /\ Undecided(rs)
      /\ rs.newGame = "new" \/ ~saveName
  BY <1>1 DEF SaysNewGame, Announces, Crosses, PastOverlay, Undecided
<1>3. heap[rs.inst].of = Cur /\ Cur \notin started /\ (kinds[Cur] = "Save" => saveName)
  BY <1>2 DEF RunInv, Crossing, Knows, CrossesHere, IsFreed
<1>4. Cur \in Load /\ scene.loaded \in {kinds[Cur], "Unknown"}
  BY DEF Polling, InLoop, RunInv, Crossing, SceneOfCur
<1>5. kinds[Cur] \in GameKind
  BY <1>1, <1>3, <1>4 DEF RunInv, World, Owned
<1>6. rs.newGame = "new" => kinds[Cur] = "New"
  <2>1. rs.newGame = VerdictOf(scene.loaded)
    BY <1>1 DEF RunInv, Crossing, Knows
  <2> QED
    BY <1>4, <1>5, <2>1 DEF VerdictOf, GameKind
<1>7. kinds[Cur] = "New"
  BY <1>2, <1>3, <1>5, <1>6 DEF GameKind
<1>8. Cur \in shown
  BY <1>1, <1>2, <1>3 DEF RunInv, Crossing, ShownFirst, IsFreed
<1> QED
  BY <1>3, <1>4, <1>7, <1>8

(***************************************************************************)
(* The game's steps.                                                       *)
(***************************************************************************)
LEMMA GameShowsFirst ==
  ASSUME IInv, ShownFirst, GameNext
  PROVE  ShownFirst'
<1>0. GameTypeOK
  BY DEF IInv, TypeOK
<1>1. ASSUME UNCHANGED <<heap, shown>>
      PROVE  ShownFirst'
  BY <1>1 DEF ShownFirst, IsFreed
<1>2. ASSUME NEW a \in Addr,
             BuildInitializer(a) \/ Inject(a) \/ Rot(a) \/ \E s \in Garbage : Reclaim(a, s)
      PROVE  ShownFirst'
  <2>1. shown' = shown
    BY <1>2 DEF BuildInitializer, Inject, Rot, Reclaim
  <2>2. ASSUME NEW b \in Addr
        PROVE  \/ heap'[b].st = Waiting \/ heap'[b].of = OtherOwner
               \/ heap'[b].st = heap[b].st /\ heap'[b].of = heap[b].of
    BY <1>0, <1>2 DEF BuildInitializer, Inject, Rot, Reclaim, Freed, GameTypeOK, Slot
  <2> QED
    BY <2>1, <2>2 DEF ShownFirst, IsFreed, Waiting, SHOW_UI
<1>3. ASSUME NEW a \in Addr, NEW s \in InitState, Advance(a, s)
      PROVE  ShownFirst'
  <2>1. heap[a].of = load /\ shown' = shown \cup {n \in {load} : s >= SHOW_UI}
    BY <1>3 DEF Advance, Live
  <2>2. \A b \in Addr : heap'[b].of = heap[b].of /\ heap'[b].st = IF b = a THEN s ELSE heap[b].st
    BY <1>0, <1>3 DEF Advance, GameTypeOK, Slot
  <2> QED
    BY <2>1, <2>2 DEF ShownFirst, IsFreed
<1> QED
  BY <1>1, <1>2, <1>3 DEF GameNext, StartLoad, SetParameters, EndLoad

\* An instance of the game that is followed stays its instance until it reads
\* as waiting, and comes to be past the overlay only in that game.
LEMMA GameCrossesHere ==
  ASSUME SlowLoads, RunInv, GameMoves(GameNext), Polling,
         Undecided(rs)
  PROVE  CrossesHere(rs.inst)'
<1> SUFFICES ASSUME heap'[rs.inst].st >= SHOW_UI, heap'[rs.inst].of # OtherOwner
             PROVE  /\ heap'[rs.inst].of = Cur' /\ Cur' \notin started
                    /\ kinds'[Cur'] = "Save" => saveName'
  BY DEF CrossesHere, IsFreed, GameMoves, splitterVars
<1>0. /\ GameNext /\ UNCHANGED splitterVars
      /\ IsBound(rs) /\ rs.inst \in Addr /\ GameTypeOK
      /\ Cur' = Cur /\ Cur \in Load /\ Cur \in Int
      /\ Knows(rs)
  <2>1. ~InLoop
    BY DEF Polling, InLoop
  <2> QED
    BY <2>1, CurKept, GameWorldAssumption
       DEF GameMoves, Undecided, IsBound, RunInv, IInv, TypeOK, Watcher, Crossing, SceneOfCur, Load
<1>1. kinds'[Cur] = kinds[Cur]
  <2>1. ASSUME NEW k \in SceneKind, StartLoad(k)
        PROVE  kinds'[Cur] = kinds[Cur]
    <3>1. Cur = load /\ kinds' = [kinds EXCEPT ![load + 1] = k]
      BY <2>1 DEF StartLoad, Cur
    <3> QED
      BY <1>0, <3>1 DEF GameTypeOK
  <2> QED
    BY <1>0, <2>1 DEF GameNext, SetParameters, EndLoad, BuildInitializer, Inject, Advance, Rot, Reclaim
<1>2. ASSUME heap[rs.inst].st >= SHOW_UI
      PROVE  saveName' = saveName
  <2>1. rs.last < SHOW_UI
    BY <1>0 DEF Knows
  <2>2. PollDue
    BY <1>0, <1>2, <2>1 DEF PollDue, Polling, ReadState, RunInv, IInv, TypeOK, Watcher, InitState,
                            Unread, SHOW_UI, FINISHED, Waiting
  <2> QED
    BY <2>2 DEF GameMoves
<1>3. ASSUME heap'[rs.inst].of = heap[rs.inst].of, heap[rs.inst].st >= SHOW_UI
      PROVE  /\ heap'[rs.inst].of = Cur' /\ Cur' \notin started
             /\ kinds'[Cur'] = "Save" => saveName'
  BY <1>0, <1>1, <1>2, <1>3 DEF Knows, CrossesHere, IsFreed
<1>4. ASSUME UNCHANGED heap
      PROVE  /\ heap'[rs.inst].of = Cur' /\ Cur' \notin started
             /\ kinds'[Cur'] = "Save" => saveName'
  BY <1>3, <1>4
<1>5. ASSUME NEW a \in Addr,
             BuildInitializer(a) \/ Inject(a) \/ Rot(a) \/ \E s \in Garbage : Reclaim(a, s)
      PROVE  heap'[rs.inst].of = heap[rs.inst].of /\ heap[rs.inst].st >= SHOW_UI
  <2>1. \/ heap'[rs.inst].st = Waiting
        \/ heap'[rs.inst].of = OtherOwner
        \/ heap'[rs.inst].st = heap[rs.inst].st /\ heap'[rs.inst].of = heap[rs.inst].of
    BY <1>0, <1>5 DEF BuildInitializer, Inject, Rot, Reclaim, Freed, GameTypeOK, Slot
  <2> QED
    BY <2>1 DEF Waiting, SHOW_UI
<1>6. ASSUME NEW a \in Addr, NEW s \in InitState, Advance(a, s)
      PROVE  /\ heap'[rs.inst].of = Cur' /\ Cur' \notin started
             /\ kinds'[Cur'] = "Save" => saveName'
  <2>1. /\ ~loading /\ Cur = load /\ heap[a].of = load
        /\ heap'[rs.inst].of = heap[rs.inst].of
        /\ saveName' = saveName
        /\ rs.inst # a => heap'[rs.inst].st = heap[rs.inst].st
        /\ rs.inst = a => s > heap[a].st /\ heap'[a].st = s
    BY <1>0, <1>6 DEF Advance, Live, Cur, GameTypeOK, Slot
  <2>2. CASE heap[rs.inst].st >= SHOW_UI
    BY <1>3, <2>1, <2>2
  <2>3. CASE ~ (heap[rs.inst].st >= SHOW_UI)
    <3>1. rs.inst = a
      BY <2>1, <2>3
    <3>2. load \notin started
      BY <2>1, <2>3, <3>1 DEF RunInv, Crossing, StartedIsUp, Live
    <3>3. kinds[load] = "Save" => saveName
      BY <2>1 DEF RunInv, World, Named
    <3> QED
      BY <1>0, <1>1, <2>1, <3>1, <3>2, <3>3
  <2> QED
    BY <2>2, <2>3
<1> QED
  BY <1>0, <1>3, <1>4, <1>5, <1>6 DEF GameNext, StartLoad, SetParameters, EndLoad

LEMMA GameCrossing ==
  ASSUME SlowLoads, RunInv, GameMoves(GameNext)
  PROVE  Crossing'
<1> USE DEF RunInv, Crossing
<1>0. GameNext /\ UNCHANGED splitterVars /\ GameTypeOK /\ load \in Int /\ Cur \in Int
  BY GameWorldAssumption DEF GameMoves, IInv, TypeOK, GameTypeOK, Load, Cur
<1>1. UNCHANGED <<pc, scene, rs, started>>
  BY <1>0 DEF splitterVars
<1>2. ShownFirst'
  BY <1>0, GameShowsFirst
<1>3. BoundForScene'
  BY <1>1 DEF BoundForScene
<1>4. StartedPast'
  <2>1. Cur' >= Cur /\ Cur' \in Int
    BY GameStepIInv, GameWorldAssumption, CurKept DEF IInv, TypeOK, GameTypeOK, Load, Cur
  <2>2. \A n \in Load : n \in Int
    BY GameWorldAssumption DEF Load
  <2> QED
    BY <1>0, <1>1, <2>1, <2>2 DEF StartedPast
<1>5. SceneOfCur'
  <2> SUFFICES ASSUME ~InLoop
               PROVE  Cur' \in Load /\ scene.loaded \in {kinds'[Cur'], "Unknown"}
    BY <1>1 DEF SceneOfCur, InLoop
  <2>1. Cur' = Cur /\ Cur \in Load /\ scene.loaded \in {kinds[Cur], "Unknown"}
    BY CurKept DEF SceneOfCur
  <2>2. kinds'[Cur] = kinds[Cur]
    <3>1. ASSUME NEW k \in SceneKind, StartLoad(k)
          PROVE  kinds'[Cur] = kinds[Cur]
      <4>1. Cur = load /\ kinds' = [kinds EXCEPT ![load + 1] = k]
        BY <3>1 DEF StartLoad, Cur
      <4> QED
        BY <1>0, <4>1 DEF GameTypeOK
    <3> QED
      BY <1>0, <3>1 DEF GameNext, SetParameters, EndLoad, BuildInitializer, Inject, Advance, Rot, Reclaim
  <2> QED
    BY <2>1, <2>2
<1>6. StartedIsUp'
  <2> SUFFICES ASSUME ~loading', load' \in started, NEW b \in Addr, Live(b)'
               PROVE  heap'[b].st >= SHOW_UI
    BY <1>1 DEF StartedIsUp
  <2>1. ~loading /\ load' = load
    <3>1. load' = load
      BY <1>0 DEF GameNext, StartLoad, SetParameters, EndLoad, BuildInitializer, Inject, Advance, Rot, Reclaim
    <3>2. load <= Cur /\ load \in Int
      BY <1>0, <3>1, GameWorldAssumption
         DEF StartedPast, IInv, TypeOK, GameTypeOK, Load, OtherOwner
    <3> QED
      BY <1>0, <3>1, <3>2 DEF Cur
  <2>2. ASSUME UNCHANGED heap
        PROVE  heap'[b].st >= SHOW_UI
    BY <2>1, <2>2 DEF StartedIsUp, Live
  <2>3. ASSUME NEW a \in Addr, Inject(a)
        PROVE  heap'[b].st >= SHOW_UI
    BY <1>0, <2>1, <2>3 DEF StartedIsUp, Live, Inject, GameTypeOK, Slot
  <2>4. ASSUME NEW a \in Addr, NEW s \in InitState, Advance(a, s)
        PROVE  heap'[b].st >= SHOW_UI
    BY <1>0, <2>1, <2>4 DEF StartedIsUp, Live, Advance, GameTypeOK, Slot, InitState, SHOW_UI,
                            FINISHED, Waiting
  <2>5. ASSUME NEW a \in Addr, Rot(a) \/ \E s \in Garbage : Reclaim(a, s)
        PROVE  heap'[b].st >= SHOW_UI
    <3>1. load # OtherOwner
      BY GameWorldAssumption DEF GameTypeOK, Load, OtherOwner, IInv, TypeOK
    <3>2. b # a
      BY <1>0, <2>1, <2>5, <3>1 DEF Rot, Reclaim, Left, Live, Freed, GameTypeOK, Slot
    <3>3. heap'[b] = heap[b]
      BY <1>0, <2>5, <3>2 DEF Rot, Reclaim, GameTypeOK
    <3> QED
      BY <2>1, <3>3 DEF StartedIsUp, Live
  <2> QED
    BY <1>0, <2>1, <2>2, <2>3, <2>4, <2>5 DEF GameNext, StartLoad, SetParameters, EndLoad, BuildInitializer
<1>7. Polling => Knows(rs)'
  <2> SUFFICES ASSUME Polling
               PROVE  Knows(rs)'
    OBVIOUS
  <2>1. Undecided(rs) => CrossesHere(rs.inst)'
    BY GameCrossesHere
  <2> QED
    BY <1>1, <2>1 DEF Knows, Undecided, CrossesHere
<1> QED
  BY <1>1, <1>2, <1>3, <1>4, <1>5, <1>6, <1>7 DEF Polling

(***************************************************************************)
(* The splitter's steps.                                                   *)
(***************************************************************************)
\* What nobody has polled yet knows what it was told, and has decided nothing.
LEMMA UnpolledKnows ==
  ASSUME NEW w, ~w.seen, IsBound(w) => w.newGame = VerdictOf(scene.loaded)
  PROVE  Knows(w)
BY DEF Knows, Undecided

\* A poll either decides, or reads a state before the overlay.
LEMMA PollKnows ==
  ASSUME GameTypeOK, NEW w \in Watcher(Addr), Knows(w)
  PROVE  /\ Knows(PollResult(w))
         /\ SaysNewGame(w) => ~ Undecided(PollResult(w))
<1>1. CASE ~IsBound(w)
  BY <1>1 DEF PollResult, SaysNewGame
<1>2. CASE IsBound(w)
  <2>1. w.inst \in Addr /\ heap[w.inst].st \in InitState /\ ReadState(w) = heap[w.inst].st
    BY <1>2 DEF IsBound, Watcher, GameTypeOK, Slot, ReadState
  <2>2. PollResult(w) = Polled(w, heap[w.inst].st)
    BY <1>2, <2>1 DEF PollResult
  <2>3. PollResult(w).inst = w.inst /\ PollResult(w).newGame = w.newGame
    BY <2>2 DEF Polled, Watcher
  <2>4. ASSUME Undecided(PollResult(w))
        PROVE  PollResult(w).last = heap[w.inst].st /\ heap[w.inst].st < SHOW_UI
    <3>1. PollResult(w).last = heap[w.inst].st
      BY <2>2 DEF Polled, Watcher
    <3>2. CASE Crosses(w, heap[w.inst].st)
      <4>1. heap[w.inst].st >= SHOW_UI
        BY <3>2 DEF Crosses, PastOverlay
      <4>2. PollResult(w) = [w EXCEPT !.last = heap[w.inst].st, !.fired = TRUE]
        BY <2>1, <2>2, <3>2, <4>1 DEF Polled, InitState, SHOW_UI, FINISHED, Waiting
      <4> QED
        BY <2>4, <4>2 DEF Undecided, Watcher
    <3>3. CASE ~ Crosses(w, heap[w.inst].st)
      <4>1. CASE heap[w.inst].st < SHOW_UI
        BY <3>1, <4>1
      <4>2. CASE ~ (heap[w.inst].st < SHOW_UI)
        <5>1. /\ PollResult(w).seen = w.seen
              /\ PollResult(w).fired = w.fired
          BY <2>2, <3>3, <4>2 DEF Polled, Watcher
        <5>2. heap[w.inst].st >= SHOW_UI
          BY <2>1, <4>2 DEF InitState, SHOW_UI, FINISHED, Waiting
        <5> QED
          BY <2>3, <2>4, <3>3, <5>1, <5>2 DEF Undecided, Crosses, PastOverlay
      <4> QED
        BY <4>1, <4>2
    <3> QED
      BY <3>2, <3>3
  <2>5. Knows(PollResult(w))
    <3>1. IsBound(PollResult(w)) => PollResult(w).newGame = VerdictOf(scene.loaded)
      BY <1>2, <2>3 DEF Knows
    <3>2. Undecided(PollResult(w)) => PollResult(w).last < SHOW_UI
      BY <2>4
    <3>3. Undecided(PollResult(w)) => CrossesHere(w.inst)
      BY <2>1, <2>4 DEF CrossesHere, InitState, SHOW_UI, FINISHED, Waiting
    <3> QED
      BY <2>3, <3>1, <3>2, <3>3 DEF Knows
  <2>6. SaysNewGame(w) => heap[w.inst].st >= SHOW_UI
    BY <2>1 DEF SaysNewGame, Announces, Crosses, PastOverlay
  <2> QED
    BY <2>1, <2>4, <2>5, <2>6 DEF InitState, SHOW_UI, FINISHED, Waiting
<1> QED
  BY <1>1, <1>2

\* Of the steps that poll: what has been started since, if anything, is the
\* game that is followed, and its watcher has decided.
LEMMA PollCrossing ==
  ASSUME SaveNameResolves, RunInv, Polling,
         NEW w, w = rs \/ w = NoWatcher,
         rs' = PollResult(w),
         IF SaysNewGame(w) THEN StartTimer(w) ELSE UNCHANGED <<timer, started>>,
         UNCHANGED <<gameVars, scene, pc>>
  PROVE  Crossing'
<1> USE DEF RunInv, Crossing
<1>1. /\ UNCHANGED <<loading, load, heap, shown, kinds, saveName>> /\ Cur' = Cur
      /\ w \in Watcher(Addr) /\ GameTypeOK
      /\ Knows(w)
      /\ SaysNewGame(w) => w = rs
  BY NoWatcherType, NoWatcherIsUnpolled, UnpolledKnows DEF gameVars, Cur, IInv, TypeOK, SaysNewGame
<1>2. ShownFirst' /\ SceneOfCur' /\ BoundForScene'
  BY <1>1 DEF ShownFirst, IsFreed, SceneOfCur, BoundForScene, Polling, InLoop
<1>3. CASE UNCHANGED started
  <2>1. Knows(rs')
    BY <1>1, PollKnows
  <2>2. Knows(rs)'
    BY <1>1, <1>3, <2>1 DEF Knows, Undecided, CrossesHere, IsFreed
  <2>3. StartedPast' /\ StartedIsUp'
    BY <1>1, <1>3 DEF StartedPast, StartedIsUp, Live
  <2> QED
    BY <1>2, <2>2, <2>3
<1>4. CASE started' # started
  <2>1. SaysNewGame(rs) /\ w = rs
    BY <1>1, <1>4
  <2> DEFINE n == heap[rs.inst].of
  <2>2. started' = started \cup {n} /\ (IsFreed(rs.inst) \/ (n = Cur /\ n \in Load))
    BY <1>4, <2>1, AnnouncedIsARun DEF StartTimer
  <2>3. ~ Undecided(rs') /\ Knows(rs')
    BY <1>1, <2>1, PollKnows
  <2>4. Knows(rs)'
    BY <1>1, <2>3 DEF Knows, Undecided
  <2>5. load \in Load /\ load # OtherOwner /\ Cur \in Int
    BY <1>1, GameWorldAssumption DEF GameTypeOK, Load, OtherOwner, Cur
  <2>6. StartedPast'
    BY <1>1, <2>2, <2>5 DEF StartedPast, IsFreed
  <2>7. StartedIsUp'
    <3> SUFFICES ASSUME ~loading, NEW a \in Addr, Live(a), load \in started'
                 PROVE  heap[a].st >= SHOW_UI
      BY <1>1 DEF StartedIsUp, Live
    <3>1. CASE load \in started
      BY <3>1 DEF StartedIsUp
    <3>2. CASE load \notin started
      <4>1. n = load /\ rs.inst \in Addr
        BY <1>1, <2>1, <2>2, <3>2 DEF SaysNewGame, IsBound, Watcher
      <4>2. a = rs.inst
        BY <2>5, <4>1 DEF World, OneEach, Live
      <4> QED
        BY <2>1, <4>2 DEF SaysNewGame, Announces, Crosses, PastOverlay, ReadState
    <3> QED
      BY <3>1, <3>2
  <2> QED
    BY <1>2, <2>4, <2>6, <2>7
<1> QED
  BY <1>3, <1>4

LEMMA SplitterCrossing ==
  ASSUME SaveNameResolves, RunInv, SplitterNext
  PROVE  Crossing'
<1> USE NoWatcherIsUnpolled DEF RunInv, Crossing
<1>0. /\ UNCHANGED <<loading, load, heap, shown, kinds, saveName>> /\ Cur' = Cur
      /\ rs \in Watcher(Addr) /\ GameTypeOK /\ scene \in SceneLoad
      /\ ShownFirst' /\ (Knows(rs) /\ UNCHANGED <<rs, scene, started>> => Knows(rs)')
  BY SplitterReads DEF Cur, IInv, TypeOK, ShownFirst, IsFreed, Knows, Undecided, CrossesHere
<1>1. ASSUME UNCHANGED started
      PROVE  StartedPast' /\ StartedIsUp'
  BY <1>0, <1>1 DEF StartedPast, StartedIsUp, Live
<1>2. CASE WatchLoad \/ BeginBindDuringLoad
  <2>1. scene'.loaded = (IF params = "Unknown" THEN scene.loaded ELSE params)
    BY <1>2 DEF WatchLoad, BeginBindDuringLoad, Sample
  <2> QED
    BY <1>0, <1>1, <1>2, <2>1 DEF WatchLoad, BeginBindDuringLoad, SceneOfCur, InLoop, BoundForScene,
                                  Polling
<1>3. CASE LeaveLoad
  <2>1. /\ scene'.loaded = scene.loaded /\ pc = "Load" /\ ~loading
        /\ ~rs.seen /\ ~rs.fired /\ ~rs.warned
    BY <1>0, <1>3 DEF LeaveLoad, SceneLoad, Settled, Unpolled, Polling
  <2>2. SceneOfCur'
    BY <1>0, <2>1 DEF SceneOfCur, Cur, IInv, LoadedIsCurrent, TypeOK, GameTypeOK
  <2>3. \/ pc' = "Menu" /\ rs' = NoWatcher
        \/ pc' = "Bind"
        \/ pc' = "Scan" /\ IsBound(rs) /\ scene.loaded # "Menu"
    <3>1. CASE scene.loaded = "Menu"
      BY <1>3, <3>1 DEF LeaveLoad, GameKind
    <3>2. CASE scene.loaded # "Menu" /\ IsBound(rs)
      BY <1>3, <3>2 DEF LeaveLoad
    <3>3. CASE scene.loaded # "Menu" /\ ~IsBound(rs)
      BY <1>3, <3>3 DEF LeaveLoad
    <3> QED
      BY <3>1, <3>2, <3>3
  <2>4. BoundForScene'
    BY <2>3 DEF BoundForScene
  <2>5. ASSUME pc' = "Scan"
        PROVE  Knows(rs)'
    <3>1. IsBound(rs) /\ scene.loaded \in GameKind /\ scene.loaded # "Menu"
      BY <2>1, <2>3, <2>5, <1>0 DEF BoundForScene, SceneLoad, SceneKind
    <3>2. rs' = ExpectNewGame(rs, VerdictOf(scene.loaded))
      BY <1>3, <3>1 DEF LeaveLoad
    <3>3. rs'.newGame = VerdictOf(scene.loaded) /\ ~rs'.seen
      BY <1>0, <2>1, <3>2 DEF ExpectNewGame, Watcher
    <3> QED
      BY <2>1, <3>3 DEF Knows, Undecided, VerdictOf
  <2>6. Polling' => Knows(rs)'
    BY <2>3, <2>5 DEF Polling
  <2>7. started' = started
    BY <1>3 DEF LeaveLoad
  <2> QED
    BY <1>0, <1>1, <2>2, <2>4, <2>6, <2>7
<1>4. CASE MenuDelay
  BY <1>0, <1>1, <1>4 DEF MenuDelay, SceneOfCur, InLoop, BoundForScene, Polling
<1>5. CASE PollDuringScan
  BY <1>5, PollCrossing DEF PollDuringScan, Polling
<1>6. CASE ScanFinds
  BY <1>0, <1>1, <1>6 DEF ScanFinds, SceneOfCur, InLoop, BoundForScene, Polling
<1>7. CASE ScanFindsNothing \/ WatchEnds
  BY <1>0, <1>1, <1>7 DEF ScanFindsNothing, WatchEnds, SceneOfCur, InLoop, BoundForScene, Polling
<1>8. CASE WatchTick
  <2> DEFINE w == IF Gone THEN NoWatcher ELSE rs
  <2>1. w = rs \/ w = NoWatcher
    OBVIOUS
  <2>2. /\ rs' = PollResult(w) /\ pc = "Watch"
        /\ IF SaysNewGame(w) THEN StartTimer(w) ELSE UNCHANGED <<timer, started>>
        /\ UNCHANGED <<gameVars, scene, pc>>
    BY <1>8 DEF WatchTick, WatchPoll
  <2> HIDE DEF w
  <2> QED
    BY <2>1, <2>2, PollCrossing DEF Polling
<1>9. CASE BeginBindInWatch
  BY <1>0, <1>1, <1>9 DEF BeginBindInWatch, SceneOfCur, InLoop, BoundForScene, Polling
<1>10. ASSUME NEW a \in Addr \cup {NoAddr}, BindDuringLoad(a)
       PROVE  Crossing'
  BY <1>0, <1>1, <1>10 DEF BindDuringLoad, SceneOfCur, InLoop, BoundForScene, Polling, GameKind
<1>11. ASSUME NEW a \in Addr \cup {NoAddr}, BindAfterLoad(a)
       PROVE  Crossing'
  <2>1. /\ ~rs'.seen /\ (IsBound(rs') => rs'.newGame = VerdictOf(scene.loaded))
        /\ scene' = scene
    BY <1>11, BoundIsUnpolled DEF BindAfterLoad
  <2>2. Knows(rs)'
    BY <2>1, UnpolledKnows DEF Knows, Undecided
  <2> QED
    BY <1>0, <1>1, <1>11, <2>2 DEF BindAfterLoad, SceneOfCur, InLoop, BoundForScene, Polling
<1>12. ASSUME NEW a \in Addr \cup {NoAddr}, BindInWatch(a)
       PROVE  Crossing'
  <2> DEFINE w == BoundOrNone(a, VerdictOf(scene.loaded), scene.observed)
  <2>1. w \in Watcher(Addr)
    BY <1>0, VerdictType, BoundOrNoneType DEF SceneLoad
  <2>2. ~w.seen /\ (IsBound(w) => w.newGame = VerdictOf(scene.loaded))
    BY BoundIsUnpolled
  <2>3. /\ rs' = PollResult(w) /\ pc = "BindWatch" /\ pc' = "Watch"
        /\ IF SaysNewGame(w) THEN StartTimer(w) ELSE UNCHANGED <<timer, started>>
        /\ UNCHANGED scene
    BY <1>12 DEF BindInWatch, WatchPoll
  <2> HIDE DEF w
  <2>4. ~SaysNewGame(w)
    BY <2>2 DEF SaysNewGame, Announces, Crosses
  <2>5. started' = started /\ Knows(rs')
    BY <1>0, <2>1, <2>2, <2>3, <2>4, UnpolledKnows, PollKnows
  <2>6. Knows(rs)'
    BY <1>0, <2>3, <2>5 DEF Knows, Undecided, CrossesHere, IsFreed
  <2> QED
    BY <1>0, <1>1, <2>3, <2>5, <2>6 DEF SceneOfCur, InLoop, BoundForScene, Polling
<1> QED
  BY <1>2, <1>3, <1>4, <1>5, <1>6, <1>7, <1>8, <1>9, <1>10, <1>11, <1>12 DEF SplitterNext

LEMMA NextCrossing ==
  ASSUME SlowLoads, SaveNameResolves, RunInv, [Next]_vars
  PROVE  Crossing'
<1>1. CASE GameMoves(GameNext)
  BY <1>1, GameCrossing
<1>2. CASE SplitterNext
  BY <1>2, SplitterCrossing
<1>3. CASE UserTimer \/ UNCHANGED vars
  BY <1>3 DEF UserTimer, vars, splitterVars, gameVars, RunInv, Crossing, ShownFirst, SceneOfCur,
              BoundForScene, StartedPast, StartedIsUp, Knows, Undecided, CrossesHere, IsFreed, Live, Cur,
              InLoop, Polling
<1> QED
  BY <1>1, <1>2, <1>3 DEF Next

LEMMA RunInvariance ==
  ASSUME SlowLoads, SaveNameResolves
  PROVE  Spec => []RunInv
<1>1. Init => Crossing
  BY InitCrossing
<1>2. RunInv /\ [Next]_vars => Crossing'
  BY NextCrossing
<1> QED
  BY <1>1, <1>2, SettledInvariance, PTL DEF Spec, RunInv

(***************************************************************************)
(* Every step is a step of the promise, or none.                           *)
(***************************************************************************)
LEMMA InitPromised == Init => Promise!Init
<1> SUFFICES ASSUME Init PROVE Promise!Init
  OBVIOUS
<1>1. TypeOK
  BY InitIInv DEF IInv
<1> QED
  BY <1>1 DEF Init, Promise!Init, TypeOK, GameTypeOK, Load, Promise!Load, SceneKind, GameKind, Promise!Kind

LEMMA GamePromised ==
  ASSUME IInv, World, GameMoves(GameNext)
  PROVE  [Promise!Next]_Promise!rtVars
<1>0. GameNext /\ UNCHANGED <<started, timer>> /\ GameTypeOK /\ load \in Load /\ Load = Promise!Load
  BY DEF GameMoves, splitterVars, IInv, TypeOK, GameTypeOK, Load, Promise!Load
<1>1. ASSUME UNCHANGED <<kinds, shown>>
      PROVE  UNCHANGED Promise!rtVars
  BY <1>0, <1>1 DEF Promise!rtVars
<1>2. ASSUME NEW k \in SceneKind, StartLoad(k)
      PROVE  Promise!LoadScene(load + 1, k) /\ load + 1 \in Load
  <2>1. load + 1 \in Load /\ load + 1 > load
    BY <1>0, <1>2, GameWorldAssumption DEF StartLoad, Load
  <2>2. kinds[load + 1] = "None"
    BY <2>1 DEF World, NotYet
  <2> QED
    BY <1>0, <1>2, <2>1, <2>2 DEF StartLoad, Promise!LoadScene
<1>3. ASSUME NEW a \in Addr, NEW s \in InitState, Advance(a, s)
      PROVE  [Promise!ShowOverlay(load)]_Promise!rtVars
  <2>1. kinds' = kinds /\ shown' = shown \cup {n \in {load} : s >= SHOW_UI}
    BY <1>3 DEF Advance
  <2>2. kinds[load] \in GameKind
    BY <1>0, <1>3 DEF Advance, Live, World, Owned
  <2>3. CASE s >= SHOW_UI
    <3>1. shown' = shown \cup {load}
      BY <2>1, <2>3
    <3> QED
      BY <1>0, <2>1, <2>2, <3>1 DEF Promise!ShowOverlay, GameKind
  <2>4. CASE ~ (s >= SHOW_UI)
    <3>1. shown' = shown
      BY <2>1, <2>4
    <3> QED
      BY <1>1, <2>1, <3>1
  <2> QED
    BY <2>3, <2>4
<1>4. \/ \E k \in SceneKind : StartLoad(k)
      \/ \E a \in Addr, s \in InitState : Advance(a, s)
      \/ UNCHANGED <<kinds, shown>>
  BY <1>0 DEF GameNext, SetParameters, EndLoad, BuildInitializer, Inject, Rot, Reclaim
<1>5. SceneKind = {"New", "Save", "Menu"}
  BY DEF SceneKind, GameKind
<1> QED
  BY <1>0, <1>1, <1>2, <1>3, <1>4, <1>5 DEF Promise!Next

LEMMA SplitterPromised ==
  ASSUME SaveNameResolves, RunInv, SplitterNext
  PROVE  [Promise!Next \/ FalseStart]_Promise!rtVars
<1>0. UNCHANGED <<kinds, shown>> /\ Load = Promise!Load
  BY SplitterReads DEF Load, Promise!Load
<1>1. ASSUME UNCHANGED <<timer, started>>
      PROVE  UNCHANGED Promise!rtVars
  BY <1>0, <1>1 DEF Promise!rtVars
<1>2. ASSUME Polling, SaysNewGame(rs), StartTimer(rs), pc = "Watch" => ~Gone
      PROVE  [Promise!Next \/ FalseStart]_Promise!rtVars
  <2> DEFINE n == heap[rs.inst].of
  <2>1. IsFreed(rs.inst) \/ (n \in Load /\ kinds[n] = "New" /\ n \in shown /\ n \notin started)
    BY <1>2, AnnouncedIsARun
  <2>2. CASE UNCHANGED <<timer, started>>
    BY <1>1, <2>2
  <2>3. CASE timer = "NotRunning" /\ timer' = "Running" /\ started' = started \cup {n}
    <3>1. CASE IsFreed(rs.inst)
      <4>1. IsBound(rs) /\ rs.inst \in Addr
        BY <1>2 DEF SaysNewGame, IsBound, RunInv, IInv, TypeOK, Watcher
      <4>2. ~heap[rs.inst].valid
        BY <3>1, <4>1, GameWorldAssumption
           DEF IsFreed, RunInv, World, ValidIsBuilt, Load, OtherOwner
      <4>3. pc = "Scan"
        BY <1>2, <4>1, <4>2 DEF Polling, Gone
      <4> QED
        BY <1>0, <2>3, <3>1, <4>1, <4>2, <4>3 DEF FalseStart, IsFreed
    <3>2. CASE ~IsFreed(rs.inst)
      <4>1. n \in Load /\ Promise!AutoStart(n)
        BY <1>0, <2>1, <2>3, <3>2 DEF Promise!AutoStart
      <4> QED
        BY <1>0, <4>1 DEF Promise!Next
    <3> QED
      BY <3>1, <3>2
  <2> QED
    BY <1>2, <2>2, <2>3 DEF StartTimer
<1>3. CASE PollDuringScan
  BY <1>1, <1>2, <1>3 DEF PollDuringScan, Polling
<1>4. CASE WatchTick
  <2>1. CASE Gone
    BY <1>1, <1>4, <2>1, NoWatcherIsUnpolled DEF WatchTick, WatchPoll, SaysNewGame
  <2>2. CASE ~Gone
    BY <1>1, <1>2, <1>4, <2>2 DEF WatchTick, WatchPoll, Polling
  <2> QED
    BY <2>1, <2>2
<1>5. ASSUME NEW a \in Addr \cup {NoAddr}, BindInWatch(a)
      PROVE  [Promise!Next \/ FalseStart]_Promise!rtVars
  <2> DEFINE w == BoundOrNone(a, VerdictOf(scene.loaded), scene.observed)
  <2>1. ~SaysNewGame(w)
    BY BoundIsUnpolled DEF SaysNewGame, Announces, Crosses
  <2>2. IF SaysNewGame(w) THEN StartTimer(w) ELSE UNCHANGED <<timer, started>>
    BY <1>5 DEF BindInWatch, WatchPoll
  <2> QED
    BY <1>1, <2>1, <2>2
<1>6. CASE \/ WatchLoad \/ BeginBindDuringLoad \/ LeaveLoad \/ MenuDelay
           \/ ScanFinds \/ ScanFindsNothing \/ WatchEnds \/ BeginBindInWatch
  BY <1>1, <1>6 DEF WatchLoad, BeginBindDuringLoad, LeaveLoad, MenuDelay, ScanFinds, ScanFindsNothing,
                    WatchEnds, BeginBindInWatch
<1>7. ASSUME NEW a \in Addr \cup {NoAddr}, BindDuringLoad(a) \/ BindAfterLoad(a)
      PROVE  [Promise!Next \/ FalseStart]_Promise!rtVars
  BY <1>1, <1>7 DEF BindDuringLoad, BindAfterLoad
<1> QED
  BY <1>3, <1>4, <1>5, <1>6, <1>7 DEF SplitterNext

LEMMA UserPromised ==
  ASSUME TypeOK, UserTimer
  PROVE  Promise!Next
BY DEF UserTimer, TypeOK, gameVars, Promise!Next, Promise!UserStart, Promise!UserReset

\* But for what the container scan reads in a freed initializer the splitter
\* keeps the promise of RunTimer: it starts the runner's timer for new games
\* alone, from a stopped timer, after the game's overlay was shown and once for
\* each, whatever freed memory reads as, wherever loads and searches overtake
\* each other and however often the runner uses the timer.
THEOREM StartsRunsOnly ==
  ASSUME SlowLoads, SaveNameResolves
  PROVE  Spec => StartsOnlyRuns
<1>1. RunInv /\ [Next]_vars => [Promise!Next \/ FalseStart]_Promise!rtVars
  <2> SUFFICES ASSUME RunInv, [Next]_vars
               PROVE  [Promise!Next \/ FalseStart]_Promise!rtVars
    OBVIOUS
  <2>1. CASE GameMoves(GameNext)
    BY <2>1, GamePromised DEF RunInv
  <2>2. CASE SplitterNext
    BY <2>2, SplitterPromised
  <2>3. CASE UserTimer
    BY <2>3, UserPromised DEF RunInv, IInv
  <2>4. CASE UNCHANGED vars
    BY <2>4 DEF vars, gameVars, splitterVars, Promise!rtVars
  <2> QED
    BY <2>1, <2>2, <2>3, <2>4 DEF Next
<1> QED
  BY <1>1, InitPromised, RunInvariance, PTL DEF Spec, StartsOnlyRuns
=============================================================================
