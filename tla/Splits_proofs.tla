---------------------------- MODULE Splits_proofs ----------------------------
(***************************************************************************)
(* What holds of Splits whatever watchers a game offers, splits are turned *)
(* on, and however often watched objects fail their validation.            *)
(***************************************************************************)
EXTENDS Splits, FiniteSetTheorems, TLAPS

(***************************************************************************)
(* One poll of the watchers.                                               *)
(***************************************************************************)
\* An end that fires has not been split for, and is remembered.
LEMMA FiresOnce ==
  ASSUME NEW b, NEW q, NEW s, NEW w \in Ends, w \in Fires(b, q, s)
  PROVE  w \notin ended
BY DEF Fires

LEMMA WatcherFinite == IsFiniteSet(Watcher)
<1>1. IsFiniteSet({"buildings"})
  BY FS_Singleton
<1>2. IsFiniteSet({"buildings", "unlock"})
  <2>1. {"buildings", "unlock"} = {"buildings"} \cup {"unlock"}
    OBVIOUS
  <2> QED
    BY <1>1, <2>1, FS_AddElement
<1>3. IsFiniteSet({"completion"})
  BY FS_Singleton
<1>4. IsFiniteSet({"completion", "bots"})
  <2>1. {"completion", "bots"} = {"completion"} \cup {"bots"}
    OBVIOUS
  <2> QED
    BY <1>3, <2>1, FS_AddElement
<1>5. IsFiniteSet(Ends)
  <2>1. Ends = {"completion", "bots"} \cup {"wellbeing"}
    BY DEF Ends
  <2> QED
    BY <1>4, <2>1, FS_AddElement
<1> QED
  BY <1>2, <1>5, FS_Union DEF Watcher

\* A poll of watchers that are in the container keeps the types.
LEMMA PollAllType ==
  ASSUME TypeOK, NEW b \in SUBSET Watcher, NEW q \in SUBSET Watcher,
         NEW s \in SUBSET Watcher, NEW r \in BOOLEAN, PollAll(b, q, s, r)
  PROVE  /\ bound' \subseteq b /\ quiet' \subseteq Watcher /\ spent' \subseteq Watcher
         /\ ended' \subseteq Ends
         /\ splits' \in [Watcher -> Nat]
         /\ drops' \in 0 .. MaxDrops
<1>1. PICK lost \in SUBSET b :
        LET news == Fires(b \ lost, q, s) IN
        /\ Cardinality(lost) <= 1
        /\ drops' = drops + Cardinality(lost) /\ drops' <= MaxDrops
        /\ bound' = b \ lost
        /\ quiet' = q \ lost
        /\ spent' = (s \ lost) \cup (news \ Ends)
        /\ ended' = ended \cup (news \cap Ends)
        /\ splits' = [w \in Watcher |->
                        splits[w] + IF r /\ w \in news \cap Enabled THEN 1 ELSE 0]
  BY DEF PollAll
<1> DEFINE news == Fires(b \ lost, q, s)
<1>2. news \subseteq Watcher
  BY DEF Fires
<1>3. splits' \in [Watcher -> Nat]
  BY <1>1 DEF TypeOK
<1>4. drops' \in 0 .. MaxDrops
  <2>1. Cardinality(lost) \in Nat
    <3>2. IsFiniteSet(lost)
      BY WatcherFinite, FS_Subset
    <3> QED
      BY <3>2, FS_CardinalityType
  <2> QED
    BY <1>1, <2>1, SplitsAssumption DEF TypeOK
<1> QED
  BY <1>1, <1>2, <1>3, <1>4 DEF TypeOK

(***************************************************************************)
(* EndsSplitOnce.  The flags `ended`, `bot_ended`, `wellbeing_ended` live  *)
(* as long as the watch, and a new timing only lowers the counts.          *)
(***************************************************************************)
Once ==
  /\ splits \in [Watcher -> Nat]
  /\ \A w \in Ends : splits[w] <= 1 /\ (splits[w] = 1 => w \in ended)

LEMMA PollAllOnce ==
  ASSUME Once, NEW b, NEW q, NEW s, NEW r, PollAll(b, q, s, r)
  PROVE  Once'
<1>1. PICK news :
        /\ \A w \in news \cap Ends : w \notin ended
        /\ ended' = ended \cup (news \cap Ends)
        /\ splits' = [w \in Watcher |->
                        splits[w] + IF r /\ w \in news \cap Enabled THEN 1 ELSE 0]
  BY FiresOnce DEF PollAll
<1>2. splits' \in [Watcher -> Nat]
  BY <1>1 DEF Once
<1>3. ASSUME NEW w \in Ends
      PROVE  splits'[w] <= 1 /\ (splits'[w] = 1 => w \in ended')
  <2>1. w \in Watcher /\ splits[w] \in Nat /\ splits[w] <= 1
    BY DEF Watcher, Once
  <2>2. CASE w \in ended
    <3>1. w \notin news
      BY <1>1, <2>2
    <3> QED
      BY <1>1, <2>1, <2>2, <3>1
  <2>3. CASE w \notin ended
    <3>1. splits[w] = 0
      BY <2>1, <2>3 DEF Once
    <3> QED
      BY <1>1, <2>1, <3>1
  <2> QED
    BY <2>2, <2>3
<1> QED
  BY <1>2, <1>3 DEF Once

LEMMA OnceStep == Once /\ [Next]_vars => Once'
<1> SUFFICES ASSUME Once, [Next]_vars PROVE Once'
  OBVIOUS
<1>1. CASE GameNext
  BY <1>1 DEF GameNext, Advance, Fall, Leave, Restore, Register, Happen, Rot, watchVars,
              timerVars, Once
<1>2. CASE WatchEnds \/ BeginRefresh
  BY <1>2 DEF WatchEnds, BeginRefresh, timerVars, Once
<1>3. CASE QuickTick
  BY <1>3, PollAllOnce DEF QuickTick
<1>4. CASE Refreshed
  <2>1. CASE Arriving({"buildings"}, snapshot') # {}
    BY <1>4, <2>1 DEF Refreshed, Once
  <2>2. CASE ~(Arriving({"buildings"}, snapshot') # {})
    BY <1>4, <2>2, PollAllOnce DEF Refreshed
  <2> QED
    BY <2>1, <2>2
<1>5. CASE Walked
  BY <1>5, PollAllOnce DEF Walked
<1>6. CASE UserTimer
  BY <1>6 DEF UserTimer, watchVars, Once, Watcher
<1>7. CASE UNCHANGED vars
  BY <1>7 DEF vars, watchVars, timerVars, Once
<1> QED
  BY <1>1, <1>2, <1>3, <1>4, <1>5, <1>6, <1>7 DEF Next, WatchNext

\* No end of a run is split for twice in one timing, however many times its
\* watcher is dropped and resolved again.
THEOREM EndsAreSplitOnce == Spec => []EndsSplitOnce
<1>1. Init => Once
  BY DEF Init, Once, Watcher
<1>2. Once => EndsSplitOnce
  BY DEF Once, EndsSplitOnce
<1> QED
  BY <1>1, <1>2, OnceStep, PTL DEF Spec

(***************************************************************************)
(* Type correctness.                                                       *)
(***************************************************************************)
LEMMA ArrivingType ==
  ASSUME NEW ws, NEW held
  PROVE  Arriving(ws, held) \subseteq ws \cap held
BY DEF Arriving

LEMMA QuietedType ==
  ASSUME NEW now \in SUBSET Watcher, NEW began
  PROVE  Quieted(now, began) \subseteq Watcher
BY DEF Quieted

LEMMA GameTypeStep ==
  ASSUME TypeOK, GameNext
  PROVE  TypeOK'
<1> USE DEF TypeOK, watchVars, timerVars
<1>1. CASE Advance
  BY <1>1 DEF Advance
<1>2. CASE Fall
  BY <1>2 DEF Fall
<1>3. CASE Leave
  BY <1>3 DEF Leave
<1>4. ASSUME NEW w \in Offered, Restore(w) \/ Register(w) \/ Happen(w) \/ Rot(w)
      PROVE  TypeOK'
  <2>1. w \in Watcher
    BY SplitsAssumption
  <2> QED
    BY <1>4, <2>1 DEF Restore, Register, Happen, Rot
<1> QED
  BY <1>1, <1>2, <1>3, <1>4 DEF GameNext

LEMMA WatchTypeStep ==
  ASSUME TypeOK, WatchNext
  PROVE  TypeOK'
<1>1. CASE WatchEnds
  BY <1>1 DEF WatchEnds, gameVars, timerVars, TypeOK
<1>2. CASE QuickTick
  <2>1. AfterRunStart(bound) \in SUBSET Watcher /\ AfterRunStart(bound) \subseteq bound
    BY DEF AfterRunStart, TypeOK
  <2>2. TypeOK /\ quiet \cap AfterRunStart(bound) \in SUBSET Watcher
          /\ spent \cap AfterRunStart(bound) \in SUBSET Watcher
    BY <2>1
  <2>3. /\ bound' \subseteq AfterRunStart(bound) /\ quiet' \subseteq Watcher
        /\ spent' \subseteq Watcher /\ ended' \subseteq Ends
        /\ splits' \in [Watcher -> Nat] /\ drops' \in 0 .. MaxDrops
    BY <1>2, <2>1, <2>2, PollAllType DEF QuickTick
  <2>4. /\ runBegan' \in BOOLEAN
        /\ timer' \in {"NotRunning", "Running"}
        /\ timed' => runBegan' /\ timer' = "Running"
    BY <1>2 DEF QuickTick, StartTimer, Began, RunStarts, TypeOK
  <2> QED
    BY <1>2, <2>1, <2>3, <2>4 DEF QuickTick, gameVars, TypeOK
<1>3. CASE BeginRefresh
  <2>1. AfterRunStart(bound) \subseteq bound
    BY DEF AfterRunStart
  <2>2. /\ runBegan' \in BOOLEAN
        /\ timer' \in {"NotRunning", "Running"}
        /\ timed' => runBegan' /\ timer' = "Running"
    BY <1>3 DEF BeginRefresh, StartTimer, Began, RunStarts, TypeOK
  <2> QED
    BY <1>3, <2>1, <2>2 DEF BeginRefresh, gameVars, TypeOK
<1>4. CASE Refreshed
  <2>1. snapshot' = registered /\ registered \subseteq Watcher /\ bound \subseteq registered
    BY <1>4 DEF Refreshed, Reread, TypeOK
  <2>2. CASE Arriving({"buildings"}, snapshot') # {}
    <3> DEFINE now == Arriving({"completion", "unlock"}, snapshot')
    <3>1. now \subseteq registered /\ Quieted(now, runBegan) \subseteq Watcher
      BY <2>1, ArrivingType, QuietedType
    <3>2. /\ bound' = bound \cup now /\ quiet' = quiet \cup Quieted(now, runBegan)
          /\ pc' = "Walk" /\ UNCHANGED <<spent, ended, splits, drops>>
          /\ UNCHANGED <<gameVars, polled, runBegan, timer, timed>>
      BY <1>4, <2>2 DEF Refreshed
    <3> HIDE DEF now
    <3> QED
      BY <2>1, <3>1, <3>2 DEF gameVars, TypeOK
  <2>3. CASE ~(Arriving({"buildings"}, snapshot') # {})
    <3> DEFINE now == Arriving(Watcher, snapshot')
    <3>1. now \subseteq registered /\ Quieted(now, runBegan) \subseteq Watcher
      BY <2>1, ArrivingType, QuietedType
    <3>2. /\ PollAll(bound \cup now, quiet \cup Quieted(now, runBegan), spent, timer = "Running")
          /\ pc' = "Top" /\ UNCHANGED <<gameVars, polled, runBegan, timer, timed>>
      BY <1>4, <2>3 DEF Refreshed
    <3> HIDE DEF now
    <3>3. /\ bound \cup now \in SUBSET Watcher /\ spent \in SUBSET Watcher
          /\ quiet \cup Quieted(now, runBegan) \in SUBSET Watcher
      BY <2>1, <3>1 DEF TypeOK
    <3>4. /\ bound' \subseteq bound \cup now /\ quiet' \subseteq Watcher
          /\ spent' \subseteq Watcher /\ ended' \subseteq Ends
          /\ splits' \in [Watcher -> Nat] /\ drops' \in 0 .. MaxDrops
      BY <3>2, <3>3, PollAllType
    <3> QED
      BY <2>1, <3>1, <3>2, <3>4 DEF gameVars, TypeOK
  <2> QED
    BY <2>2, <2>3
<1>5. CASE Walked
  <2> DEFINE now == Arriving(Watcher, snapshot)
  <2>1. now \subseteq snapshot /\ snapshot \subseteq Watcher /\ Quieted(now, runBegan) \subseteq Watcher
    BY ArrivingType, QuietedType DEF TypeOK
  <2>2. /\ PollAll(bound \cup now, quiet \cup Quieted(now, runBegan), spent, timer = "Running")
        /\ pc' = "Top" /\ UNCHANGED <<gameVars, polled, snapshot, runBegan, timer, timed>>
    BY <1>5 DEF Walked
  <2> HIDE DEF now
  <2>3. /\ bound \cup now \in SUBSET Watcher /\ spent \in SUBSET Watcher
        /\ quiet \cup Quieted(now, runBegan) \in SUBSET Watcher
    BY <2>1 DEF TypeOK
  <2>4. /\ bound' \subseteq bound \cup now /\ quiet' \subseteq Watcher
        /\ spent' \subseteq Watcher /\ ended' \subseteq Ends
        /\ splits' \in [Watcher -> Nat] /\ drops' \in 0 .. MaxDrops
    BY <2>2, <2>3, PollAllType
  <2> QED
    BY <2>1, <2>2, <2>4 DEF gameVars, TypeOK
<1> QED
  BY <1>1, <1>2, <1>3, <1>4, <1>5 DEF WatchNext

LEMMA TypeStep == TypeOK /\ [Next]_vars => TypeOK'
<1> SUFFICES ASSUME TypeOK, [Next]_vars PROVE TypeOK'
  OBVIOUS
<1>1. CASE UserTimer
  BY <1>1 DEF UserTimer, gameVars, watchVars, TypeOK
<1>2. CASE UNCHANGED vars
  BY <1>2 DEF vars, gameVars, watchVars, timerVars, TypeOK
<1> QED
  BY <1>1, <1>2, GameTypeStep, WatchTypeStep DEF Next

LEMMA InitType == Init => TypeOK
<1> SUFFICES ASSUME Init PROVE TypeOK
  OBVIOUS
<1>1. stage \in 0 .. 2 /\ polled \in 0 .. stage
  BY DEF Init
<1>2. splits \in [Watcher -> Nat] /\ drops \in 0 .. MaxDrops
  <2>1. MaxDrops \in Nat
    BY SplitsAssumption
  <2> QED
    BY <2>1 DEF Init
<1>3. /\ timer \in {"NotRunning", "Running"} /\ timed \in BOOLEAN
      /\ timed => runBegan /\ timer = "Running"
  <2>1. timed \in {FALSE, newGame /\ runBegan /\ timer = "Running"}
    BY DEF Init
  <2>2. timer \in {"NotRunning", "Running"}
    BY DEF Init
  <2>3. (newGame /\ runBegan /\ timer = "Running") \in BOOLEAN
    OBVIOUS
  <2>4. timed \in BOOLEAN /\ (timed => runBegan /\ timer = "Running")
    BY <2>1, <2>3, Zenon
  <2> QED
    BY <2>2, <2>4
<1>4. runBegan \in BOOLEAN
  <2>1. (polled = 1) \in BOOLEAN /\ (newGame /\ polled = 1) \in BOOLEAN
    OBVIOUS
  <2>2. runBegan \in {polled = 1, newGame /\ polled = 1}
    BY DEF Init
  <2> QED
    BY <2>1, <2>2, Zenon
<1> QED
  BY <1>1, <1>2, <1>3, <1>4 DEF Init, TypeOK

\* Every watcher that is resolved is one the container held when it was last
\* read, and only a run that has begun is timed by the splitter.
THEOREM SplitsTypeCorrect == Spec => []TypeOK
BY InitType, TypeStep, PTL DEF Spec

(***************************************************************************)
(* SplitsAreNews.  A watcher is bound only once initialization has         *)
(* finished, when nothing more is restored; so what a bound watcher finds  *)
(* done happened, is torn memory, or was found on arrival.  The last is    *)
(* quiet unless a run has begun, and then the game is a new one, in which  *)
(* nothing was restored, or a save that is taken for a run.  Once the      *)
(* scene is Over no watcher is polled any more.                            *)
(***************************************************************************)
Due == happened \cup torn

BoundIsFinished == (bound # {} \/ pc \in {"Refresh", "Walk"}) => stage = 2
NewIsNews       == newGame /\ ~Over => done \subseteq Due
OldIsQuiet      == ~Over /\ ~TakenForARun => bound \cap done \subseteq Due \cup quiet

News == TypeOK /\ BoundIsFinished /\ NewIsNews /\ OldIsQuiet /\ SplitsAreNews

LEMMA PollAllNews ==
  ASSUME splits \in [Watcher -> Nat], SplitsAreNews, TakenForARun => TakenForARun',
         UNCHANGED <<done, happened, torn>>,
         NEW b, NEW q, NEW s, NEW r, PollAll(b, q, s, r),
         ~TakenForARun' => b \cap done \subseteq Due \cup q
  PROVE  OldIsQuiet' /\ SplitsAreNews' /\ bound' \subseteq b
<1>1. PICK lost \in SUBSET b :
        LET news == Fires(b \ lost, q, s) IN
        /\ Cardinality(lost) <= 1
        /\ drops' = drops + Cardinality(lost) /\ drops' <= MaxDrops
        /\ bound' = b \ lost
        /\ quiet' = q \ lost
        /\ spent' = (s \ lost) \cup (news \ Ends)
        /\ ended' = ended \cup (news \cap Ends)
        /\ splits' = [w \in Watcher |->
                        splits[w] + IF r /\ w \in news \cap Enabled THEN 1 ELSE 0]
  BY DEF PollAll
<1>2. Due' = Due /\ (~TakenForARun' => Fires(b \ lost, q, s) \subseteq Due)
  BY DEF Fires, Due
<1>3. OldIsQuiet' /\ bound' \subseteq b
  BY <1>1, <1>2 DEF OldIsQuiet
<1>4. ASSUME NEW w \in Watcher, splits'[w] > 0, ~TakenForARun'
      PROVE  w \in Due'
  <2>1. CASE w \in Fires(b \ lost, q, s)
    BY <1>2, <1>4, <2>1
  <2>2. CASE w \notin Fires(b \ lost, q, s)
    <3>1. splits'[w] = splits[w]
      BY <1>1, <2>2
    <3> QED
      BY <1>2, <1>4, <3>1 DEF SplitsAreNews, Due
  <2> QED
    BY <2>1, <2>2
<1>5. SplitsAreNews'
  BY <1>4 DEF SplitsAreNews, Due
<1> QED
  BY <1>3, <1>5

\* Watchers resolved now are quiet about what they find, or a run is under way.
LEMMA ResolvedNews ==
  ASSUME ~Over, NewIsNews, OldIsQuiet, ~TakenForARun, NEW now
  PROVE  (bound \cup now) \cap done \subseteq Due \cup (quiet \cup Quieted(now, runBegan))
<1>1. CASE runBegan
  BY <1>1 DEF TakenForARun, NewIsNews
<1>2. CASE ~runBegan
  BY <1>2 DEF OldIsQuiet, Quieted
<1> QED
  BY <1>1, <1>2

LEMMA GameNewsStep ==
  ASSUME News, GameNext, TypeOK'
  PROVE  News'
<1> USE DEF News, BoundIsFinished, NewIsNews, OldIsQuiet, SplitsAreNews, Over, Due,
           TakenForARun, watchVars, timerVars
<1>1. CASE Advance
  BY <1>1 DEF Advance, TypeOK
<1>2. CASE Fall
  BY <1>2 DEF Fall
<1>3. CASE Leave
  BY <1>3 DEF Leave
<1>4. ASSUME NEW w \in Offered, Restore(w)
      PROVE  News'
  <2>1. bound = {}
    BY <1>4 DEF Restore
  <2> QED
    BY <1>4, <2>1 DEF Restore
<1>5. ASSUME NEW w \in Offered, Register(w) \/ Happen(w)
      PROVE  News'
  BY <1>5 DEF Register, Happen
<1>6. ASSUME NEW w \in Offered, Rot(w)
      PROVE  News'
  BY <1>6 DEF Rot
<1> QED
  BY <1>1, <1>2, <1>3, <1>4, <1>5, <1>6 DEF GameNext

LEMMA WatchNewsStep ==
  ASSUME News, WatchNext, TypeOK'
  PROVE  News'
<1>1. /\ splits \in [Watcher -> Nat]
      /\ UNCHANGED <<newGame, stage, done, happened, torn>> /\ Due' = Due
  BY DEF News, TypeOK, WatchNext, WatchEnds, QuickTick, BeginRefresh, Refreshed, Walked, gameVars, Due
<1>0. (WatchEnds /\ Over') \/ ~Over
  BY DEF Over, WatchNext, WatchEnds, QuickTick, BeginRefresh, Refreshed, Walked, gameVars
<1>2. NewIsNews'
  BY <1>0, <1>1 DEF News, NewIsNews
<1>3. TakenForARun' <=> TakenForARun
  <2>1. runBegan' \in {runBegan, Began}
    BY DEF WatchNext, WatchEnds, QuickTick, BeginRefresh, Refreshed, Walked
  <2>2. runBegan \in BOOLEAN /\ newGame \in BOOLEAN
    BY DEF News, TypeOK
  <2> QED
    BY <1>1, <2>1, <2>2 DEF Began, RunStarts, TakenForARun
<1>4. CASE WatchEnds
  <2>1. Over'
    BY <1>4 DEF WatchEnds, Over, gameVars
  <2> QED
    BY <1>1, <1>2, <1>3, <1>4, <2>1 DEF WatchEnds, timerVars, News, BoundIsFinished, OldIsQuiet,
                                       SplitsAreNews, Due
<1>5. CASE QuickTick
  <2>0. ~Over
    BY <1>5 DEF QuickTick, Over
  <2> DEFINE b == AfterRunStart(bound)
  <2>1. b \subseteq bound
    BY DEF AfterRunStart
  <2>2. PollAll(b, quiet \cap b, spent \cap b, timer' = "Running") /\ pc' = pc
    BY <1>5 DEF QuickTick
  <2> HIDE DEF b
  <2>3. ~TakenForARun => b \cap done \subseteq Due \cup (quiet \cap b)
    BY <2>0, <2>1 DEF News, OldIsQuiet
  <2>4. OldIsQuiet' /\ SplitsAreNews' /\ bound' \subseteq b
    BY <1>1, <1>3, <2>2, <2>3, PollAllNews DEF News
  <2>5. BoundIsFinished'
    BY <1>1, <2>1, <2>2, <2>4 DEF News, BoundIsFinished
  <2> QED
    BY <1>2, <1>3, <2>4, <2>5 DEF News
<1>6. CASE BeginRefresh
  <2>0. ~Over
    BY <1>6 DEF BeginRefresh, Over
  <2>1. bound' \subseteq bound /\ quiet' = quiet \cap bound' /\ stage = 2 /\ splits' = splits
    BY <1>6 DEF BeginRefresh, AfterRunStart, Initialized
  <2> QED
    BY <1>1, <1>2, <1>3, <2>0, <2>1 DEF News, BoundIsFinished, OldIsQuiet, SplitsAreNews, Due
<1>7. CASE Refreshed
  <2>0. ~Over
    BY <1>7 DEF Refreshed, Over
  <2>1. stage = 2
    BY <1>7 DEF Refreshed, News, BoundIsFinished
  <2>2. CASE Arriving({"buildings"}, snapshot') # {}
    <3> DEFINE now == Arriving({"completion", "unlock"}, snapshot')
    <3>1. /\ bound' = bound \cup now /\ quiet' = quiet \cup Quieted(now, runBegan)
          /\ splits' = splits
      BY <1>7, <2>2 DEF Refreshed
    <3> HIDE DEF now
    <3>2. OldIsQuiet'
      BY <1>1, <1>3, <2>0, <3>1, ResolvedNews DEF News, OldIsQuiet
    <3> QED
      BY <1>1, <1>2, <1>3, <2>1, <3>1, <3>2 DEF News, BoundIsFinished, SplitsAreNews, Due
  <2>3. CASE ~(Arriving({"buildings"}, snapshot') # {})
    <3> DEFINE now == Arriving(Watcher, snapshot')
    <3>1. PollAll(bound \cup now, quiet \cup Quieted(now, runBegan), spent, timer = "Running")
      BY <1>7, <2>3 DEF Refreshed
    <3> HIDE DEF now
    <3>2. OldIsQuiet' /\ SplitsAreNews'
      BY <1>1, <1>3, <2>0, <3>1, ResolvedNews, PollAllNews DEF News
    <3> QED
      BY <1>1, <1>2, <1>3, <2>1, <3>2 DEF News, BoundIsFinished
  <2> QED
    BY <2>2, <2>3
<1>8. CASE Walked
  <2> DEFINE now == Arriving(Watcher, snapshot)
  <2>0. ~Over
    BY <1>8 DEF Walked, Over
  <2>1. stage = 2
    BY <1>8 DEF Walked, News, BoundIsFinished
  <2>2. PollAll(bound \cup now, quiet \cup Quieted(now, runBegan), spent, timer = "Running")
    BY <1>8 DEF Walked
  <2> HIDE DEF now
  <2>3. OldIsQuiet' /\ SplitsAreNews'
    BY <1>1, <1>3, <2>0, <2>2, ResolvedNews, PollAllNews DEF News
  <2> QED
    BY <1>1, <1>2, <1>3, <2>1, <2>3 DEF News, BoundIsFinished
<1> QED
  BY <1>4, <1>5, <1>6, <1>7, <1>8 DEF WatchNext

\* Nothing that a loaded save restored is ever split for, unless the save was
\* taken for a run, whenever its watchers are resolved, dropped and resolved
\* again; nor is what a scene that is being left reads as, but for what turns
\* under a suspended tick.
THEOREM OnlyNewsIsSplit == Spec => []SplitsAreNews
<1>1. Init => News
  <2> SUFFICES ASSUME Init PROVE News
    OBVIOUS
  <2>1. TypeOK
    BY InitType
  <2>2. bound = {} /\ done = {} /\ pc = "Top" /\ splits = [w \in Watcher |-> 0]
    BY DEF Init
  <2> QED
    BY <2>1, <2>2 DEF News, BoundIsFinished, NewIsNews, OldIsQuiet, SplitsAreNews
<1>2. News /\ [Next]_vars => News'
  <2> SUFFICES ASSUME News, [Next]_vars PROVE News'
    OBVIOUS
  <2>1. TypeOK'
    BY TypeStep DEF News
  <2>2. CASE UserTimer
    BY <2>1, <2>2 DEF UserTimer, gameVars, watchVars, News, BoundIsFinished, NewIsNews,
                      OldIsQuiet, SplitsAreNews, Over, Due, TakenForARun
  <2>3. CASE UNCHANGED vars
    BY <2>1, <2>3 DEF vars, gameVars, watchVars, timerVars, News, BoundIsFinished,
                      NewIsNews, OldIsQuiet, SplitsAreNews, Over, Due, TakenForARun
  <2> QED
    BY <2>1, <2>2, <2>3, GameNewsStep, WatchNewsStep DEF Next
<1>3. News => SplitsAreNews
  BY DEF News
<1> QED
  BY <1>1, <1>2, <1>3, PTL DEF Spec
=============================================================================
