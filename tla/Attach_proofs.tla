--------------------------- MODULE Attach_proofs ----------------------------
(***************************************************************************)
(* What holds of Attach for any programs, any number of processes and any  *)
(* ticks: types, that what is held is the game, and that a game is found   *)
(* within the ticks after which candidates are forgotten.  And, in the     *)
(* second half, what holds of Recorder, the other program here that takes  *)
(* hold of a game: that it does not leave the game stopped, and that what  *)
(* it records is the game's memory at one instant.                         *)
(***************************************************************************)
EXTENDS Attach, Recorder, FiniteSetTheorems, SequenceTheorems, WellFoundedInduction, TLAPS

F == FORGET_RULED_OUT_TICKS

LEMMA TicksArePositive ==
  /\ FORGET_RULED_OUT_TICKS \in Nat /\ FORGET_RULED_OUT_TICKS > 0
  /\ PROCESS_GONE_DELAY_TICKS \in Nat /\ PROCESS_GONE_DELAY_TICKS > 0
  /\ PROCESS_GONE_DELAY_TICKS <= FORGET_RULED_OUT_TICKS
  /\ 0 \in 0 .. FORGET_RULED_OUT_TICKS - 1 /\ 0 \in 0 .. PROCESS_GONE_DELAY_TICKS - 1
  /\ MaxStarted \in Nat /\ 0 \in 0 .. MaxStarted /\ NoPid \notin Pids
  /\ 0 % AMBIGUOUS_RETRY_TICKS = 0
<1>1. /\ FORGET_RULED_OUT_TICKS \in Nat \ {0} /\ PROCESS_GONE_DELAY_TICKS \in Nat \ {0}
      /\ PROCESS_GONE_DELAY_TICKS <= FORGET_RULED_OUT_TICKS
      /\ MaxStarted \in Nat /\ NoPid \notin Pids
      /\ AMBIGUOUS_RETRY_TICKS \in Nat \ {0}
  BY AttachAssumption
<1> QED
  BY <1>1

\* The next pass: the count of passes goes round.
LEMMA WaitedGoesRound ==
  ASSUME NEW w \in 0 .. F - 1
  PROVE  /\ (w + 1) % F = IF w + 1 = F THEN 0 ELSE w + 1
         /\ (w + 1) % F \in 0 .. F - 1
BY TicksArePositive DEF F

(***************************************************************************)
(* Types.                                                                  *)
(***************************************************************************)
LEMMA InitType == Init => TypeOK
<1> SUFFICES ASSUME Init
             PROVE  TypeOK
  OBVIOUS
<1>1. proc \in [Pids -> Process]
  BY DEF Init, Process
<1>2. started \in 0 .. MaxStarted /\ overdue \in Nat /\ waited \in 0 .. F - 1
  BY TicksArePositive DEF Init, F
<1>3. held = NoPid /\ pc = "Exact" /\ pc \notin Attached
  BY DEF Init, Attached, Starting
<1>4. /\ listed \subseteq Pids /\ ruled_out \subseteq Pids
      /\ gone \in 0 .. PROCESS_GONE_DELAY_TICKS - 1
      /\ tick_rate = DETACHED_TICKS_PER_SEC /\ status = ""
  BY TicksArePositive DEF Init
<1> QED
  BY <1>1, <1>2, <1>3, <1>4 DEF TypeOK, Searching, F

\* A number that runs has all that a process has.
LEMMA RunningProcess ==
  ASSUME TypeOK, NEW p \in Pids, Running(p)
  PROVE  proc[p] \in [runs : {TRUE}, is : Programs, named : BOOLEAN, mapped : BOOLEAN,
                      open : BOOLEAN, stage : Stage]
<1>1. proc[p] \in Process /\ proc[p].runs
  BY DEF TypeOK, Running
<1>2. proc[p] # Nobody
  BY <1>1 DEF Nobody
<1> QED
  BY <1>1, <1>2 DEF Process

\* What a change of one process keeps of it.
LEMMA ChangedProcess ==
  ASSUME TypeOK, NEW p \in Pids,
         NameItself(p) \/ MapModule(p) \/ Progress(p) \/ Reap(p)
  PROVE  /\ proc' \in [Pids -> Process]
         /\ \A q \in Pids : q # p => proc'[q] = proc[q]
         /\ ~ Running(p)' \/
              /\ Running(p) /\ proc'[p].is = proc[p].is
              /\ proc[p].named => proc'[p].named
              /\ proc[p].mapped => proc'[p].mapped
              /\ proc'[p].mapped => proc[p].mapped \/ proc[p].is.game
              /\ proc'[p].open = proc[p].open
         /\ Open(p) => Running(p)'
         /\ UNCHANGED <<pc, searchVars, held, gone, tick_rate, status, started, overdue>>
<1>1. proc[p] \in Process /\ proc \in [Pids -> Process]
  BY DEF TypeOK
<1>2. CASE NameItself(p)
  BY <1>1, <1>2 DEF NameItself, Change, Open, Running, Process, Nobody, splitterUnchanged
<1>3. CASE MapModule(p)
  BY <1>1, <1>3 DEF MapModule, Change, Open, IsGame, Running, Process, Nobody, splitterUnchanged
<1>4. CASE Progress(p)
  <2>1. proc[p].stage + 1 \in Stage
    <3>1. Running(p) /\ proc[p].stage < 3 /\ proc[p].stage \in Stage
      <4>1. Running(p) /\ proc[p].stage < 3
        BY <1>4 DEF Progress, Open
      <4> QED
        BY <4>1, RunningProcess
    <3> QED
      BY <3>1 DEF Stage
  <2> QED
    BY <1>1, <1>4, <2>1 DEF Progress, Change, Open, Running, Process, Nobody, splitterUnchanged
<1>5. CASE Reap(p)
  BY <1>1, <1>5 DEF Reap, Change, Open, Running, Process, Nobody, splitterUnchanged
<1> QED
  BY <1>2, <1>3, <1>4, <1>5

LEMMA StartedProcess ==
  ASSUME TypeOK, Start
  PROVE  \E p \in Pids \ {held} :
           /\ ~ Running(p)
           /\ proc' \in [Pids -> Process]
           /\ \A q \in Pids : q # p => proc'[q] = proc[q]
           /\ ~ proc'[p].mapped /\ ~ proc'[p].named
           /\ started' \in 0 .. MaxStarted
           /\ UNCHANGED <<pc, searchVars, held, gone, tick_rate, status, overdue>>
<1>1. PICK p \in Pids \ {held}, is \in Programs :
        /\ ~ Running(p)
        /\ proc' = [proc EXCEPT ![p] =
             [runs |-> TRUE, is |-> is, named |-> FALSE, mapped |-> FALSE,
              open |-> TRUE, stage |-> 0]]
  BY DEF Start
<1>2. proc' \in [Pids -> Process]
  <2> DEFINE new == [runs |-> TRUE, is |-> is, named |-> FALSE, mapped |-> FALSE,
                     open |-> TRUE, stage |-> 0]
  <2>1. new \in Process
    BY DEF Process, Stage
  <2>2. proc \in [Pids -> Process] /\ proc' = [proc EXCEPT ![p] = new]
    BY <1>1 DEF TypeOK
  <2> HIDE DEF new
  <2> QED
    BY <2>1, <2>2
<1>3. started' \in 0 .. MaxStarted
  <2>1. started \in 0 .. MaxStarted /\ started < MaxStarted /\ started' = started + 1
    BY DEF Start, TypeOK
  <2> QED
    BY <2>1, TicksArePositive
<1>4. ~ proc'[p].mapped /\ ~ proc'[p].named /\ \A q \in Pids : q # p => proc'[q] = proc[q]
  BY <1>1 DEF TypeOK
<1> QED
  BY <1>1, <1>2, <1>3, <1>4 DEF Start, splitterUnchanged

LEMMA ClosedProcess ==
  ASSUME TypeOK, NEW p \in Pids, Close(p)
  PROVE  /\ proc' \in [Pids -> Process]
         /\ \A q \in Pids : q # p => proc'[q] = proc[q]
         /\ Running(p) /\ proc'[p].is = proc[p].is
         /\ proc'[p].mapped => proc[p].mapped
         /\ overdue' = 0
         /\ UNCHANGED <<pc, searchVars, held, gone, tick_rate, status, started>>
<1>1. proc[p] \in Process /\ proc \in [Pids -> Process]
  BY DEF TypeOK
<1>2. PICK m \in {proc[p].mapped, FALSE} :
        proc' = [proc EXCEPT ![p].open = FALSE, ![p].mapped = m]
  BY DEF Close
<1>3. Running(p) /\ m \in BOOLEAN
  <2>1. Running(p)
    BY DEF Close, Open
  <2> QED
    BY <1>2, <2>1, RunningProcess
<1>4. proc'[p] = [proc[p] EXCEPT !.open = FALSE, !.mapped = m]
  BY <1>1, <1>2
<1>5. proc' \in [Pids -> Process]
  BY <1>1, <1>2, <1>3 DEF Process, Running, Nobody
<1> QED
  BY <1>1, <1>2, <1>3, <1>4, <1>5 DEF Close, splitterUnchanged, Running, Process, Nobody

LEMMA SystemType == TypeOK /\ SystemNext => TypeOK'
<1> SUFFICES ASSUME TypeOK, SystemNext
             PROVE  TypeOK'
  OBVIOUS
<1>1. CASE Start
  BY <1>1, StartedProcess DEF TypeOK, searchVars
<1>2. ASSUME NEW p \in Pids, NameItself(p) \/ MapModule(p) \/ Progress(p) \/ Reap(p)
      PROVE  TypeOK'
  BY <1>2, ChangedProcess DEF TypeOK, searchVars
<1>3. ASSUME NEW p \in Pids, Close(p)
      PROVE  TypeOK'
  <2>1. overdue' \in Nat
    BY <1>3, ClosedProcess
  <2> QED
    BY <1>3, <2>1, ClosedProcess DEF TypeOK, searchVars
<1> QED
  BY <1>1, <1>2, <1>3 DEF SystemNext

LEMMA OverdueType ==
  ASSUME TypeOK
  PROVE  Overdue \in Nat /\ (Overdue = 0 \/ Overdue = overdue + 1)
<1>1. overdue \in Nat
  BY DEF TypeOK
<1> DEFINE owed == (\E p \in Pids : Findable(p)) /\ (\A p \in Pids : Running(p) => Open(p))
<1>2. Overdue = IF owed THEN overdue + 1 ELSE 0
  BY DEF Overdue
<1> HIDE DEF owed
<1> QED
  BY <1>1, <1>2

LEMMA TakeType == ASSUME TypeOK, NEW p \in Pids, Take(p) PROVE TypeOK'
<1> QED
  BY TicksArePositive DEF Take, TypeOK, systemVars, Attached, Starting

LEMMA SearchType == TypeOK /\ Search => TypeOK'
<1> SUFFICES ASSUME TypeOK, Search
             PROVE  TypeOK'
  OBVIOUS
<1> USE DEF TypeOK, systemVars, searchVars, Searching, Attached, Starting
<1>1. CASE ListAmbiguous
  BY <1>1 DEF ListAmbiguous
<1>2. CASE NextPass
  <2>1. waited' \in 0 .. F - 1
    <3>1. waited \in 0 .. F - 1
      BY DEF F
    <3>2. waited' = (waited + 1) % F
      BY <1>2 DEF NextPass, F
    <3> QED
      BY <3>1, <3>2, WaitedGoesRound
  <2> QED
    BY <1>2, <2>1, OverdueType DEF NextPass, F
<1>3. ASSUME NEW p \in Pids, Skip(p)
      PROVE  TypeOK'
  BY <1>3 DEF Skip
<1>4. ASSUME NEW p \in Pids, RuleOut(p)
      PROVE  TypeOK'
  BY <1>4 DEF RuleOut
<1>5. ASSUME NEW p \in Pids, AttachExact(p) \/ AttachAmbiguous(p)
      PROVE  TypeOK'
  BY <1>5, TakeType DEF AttachExact, AttachAmbiguous
<1> QED
  BY <1>1, <1>2, <1>3, <1>4, <1>5 DEF Search

LEMMA LetGoType ==
  ASSUME TypeOK, NEW line \in {"", "Game version not supported"}, LetGo(line)
  PROVE  TypeOK'
<1> QED
  BY TicksArePositive DEF LetGo, TypeOK, systemVars, searchVars, Attached, Starting, Searching

LEMMA RunType == TypeOK /\ (Run \/ WaitOut) => TypeOK'
<1> SUFFICES ASSUME TypeOK, Run \/ WaitOut
             PROVE  TypeOK'
  OBVIOUS
<1>1. ASSUME NEW at \in Starting, NEW stage, NEW next \in Starting, Await(at, stage, next)
      PROVE  TypeOK'
  BY <1>1 DEF Await, attachedUnchanged, TypeOK, systemVars, searchVars, Attached, Searching
<1>2. CASE AttachModule \/ ResolveScene \/ AwaitBus
  BY <1>1, <1>2 DEF AttachModule, ResolveScene, AwaitBus, Starting
<1>3. CASE FindTable \/ ResolveClock \/ SceneLoads
  BY <1>3 DEF FindTable, ResolveClock, SceneLoads, attachedUnchanged, TypeOK, systemVars,
              searchVars, Attached, Starting, Searching
<1>4. CASE Unsupported \/ Closed
  BY <1>4, LetGoType DEF Unsupported, Closed, TypeOK
<1>5. CASE WaitOut
  <2>1. gone' \in 0 .. PROCESS_GONE_DELAY_TICKS - 1 /\ pc' \in {"Gone", "Exact"}
    <3>1. gone \in 0 .. PROCESS_GONE_DELAY_TICKS - 1
      BY DEF TypeOK
    <3>2. CASE gone + 1 < PROCESS_GONE_DELAY_TICKS
      BY <1>5, <3>1, <3>2, TicksArePositive DEF WaitOut
    <3>3. CASE ~ (gone + 1 < PROCESS_GONE_DELAY_TICKS)
      BY <1>5, <3>3, TicksArePositive DEF WaitOut
    <3> QED
      BY <3>2, <3>3
  <2> QED
    BY <1>5, <2>1, OverdueType DEF WaitOut, TypeOK, systemVars, searchVars, Attached, Starting,
                                   Searching
<1> QED
  BY <1>2, <1>3, <1>4, <1>5 DEF Run

LEMMA NextType == TypeOK /\ [Next]_vars => TypeOK'
<1>1. TypeOK /\ UNCHANGED vars => TypeOK'
  BY DEF TypeOK, vars, systemVars, searchVars
<1> QED
  BY <1>1, SystemType, SearchType, RunType DEF Next

\* The variables keep their types; in particular a process is held exactly while
\* run waits for something of it or watches it.
THEOREM AttachTypeCorrect == Spec => []TypeOK
BY InitType, NextType, PTL DEF Spec

(***************************************************************************)
(* NeverAnother.  What is taken is the game by its name or by its module,  *)
(* and only the game maps the module.                                      *)
(***************************************************************************)
MappedIsGame == \A p \in Pids : HasModule(p) => IsGame(p)

Known == MappedIsGame /\ NeverAnother

LEMMA SystemKnown ==
  ASSUME TypeOK, Known, SystemNext
  PROVE  Known'
<1>1. CASE Start
  <2>1. PICK p \in Pids \ {held} :
          /\ ~ proc'[p].mapped /\ ~ proc'[p].named
          /\ \A q \in Pids : q # p => proc'[q] = proc[q]
          /\ held' = held
    BY <1>1, StartedProcess
  <2>2. MappedIsGame'
    BY <2>1 DEF Known, MappedIsGame, HasModule, IsGame, Running
  <2>3. held \in Pids \cup {NoPid}
    BY DEF TypeOK
  <2>4. NeverAnother'
    BY <2>1, <2>3 DEF Known, NeverAnother, IsGame, Running
  <2> QED
    BY <2>2, <2>4 DEF Known
<1>2. ASSUME NEW p \in Pids, NameItself(p) \/ MapModule(p) \/ Progress(p) \/ Reap(p)
      PROVE  Known'
  <2>1. /\ \A q \in Pids : q # p => proc'[q] = proc[q]
        /\ Running(p)' => /\ Running(p) /\ proc'[p].is = proc[p].is
                          /\ proc'[p].mapped => proc[p].mapped \/ proc[p].is.game
        /\ held' = held
    BY <1>2, ChangedProcess
  <2>2. held \in Pids \cup {NoPid}
    BY DEF TypeOK
  <2>3. MappedIsGame'
    BY <2>1 DEF Known, MappedIsGame, HasModule, IsGame, Running
  <2>4. NeverAnother'
    BY <2>1, <2>2 DEF Known, NeverAnother, IsGame, Running
  <2> QED
    BY <2>3, <2>4 DEF Known
<1>3. ASSUME NEW p \in Pids, Close(p)
      PROVE  Known'
  <2>1. /\ \A q \in Pids : q # p => proc'[q] = proc[q]
        /\ Running(p) /\ proc'[p].is = proc[p].is
        /\ proc'[p].mapped => proc[p].mapped
        /\ held' = held
    BY <1>3, ClosedProcess
  <2>2. held \in Pids \cup {NoPid}
    BY DEF TypeOK
  <2>3. MappedIsGame'
    BY <2>1 DEF Known, MappedIsGame, HasModule, IsGame, Running
  <2>4. NeverAnother'
    BY <2>1, <2>2 DEF Known, NeverAnother, IsGame, Running
  <2> QED
    BY <2>3, <2>4 DEF Known
<1> QED
  BY <1>1, <1>2, <1>3 DEF SystemNext

\* The game is known by a name no other program has, by its module, or by its
\* path.
LEMMA TakenIsGame ==
  ASSUME TypeOK, Known, NEW p \in Pids, AttachExact(p) \/ AttachAmbiguous(p)
  PROVE  IsGame(p)
<1>1. Running(p)
  BY DEF AttachExact, AttachAmbiguous, Named
<1>2. proc[p].is \in Programs
  BY <1>1, RunningProcess
<1>3. CASE AttachExact(p)
  BY <1>2, <1>3, AttachAssumption DEF AttachExact, Named, IsGame
<1>4. CASE AttachAmbiguous(p)
  <2>1. CASE HasModule(p)
    BY <2>1 DEF Known, MappedIsGame
  <2>2. CASE proc[p].is.path
    BY <1>1, <1>2, <2>2, AttachAssumption DEF IsGame
  <2> QED
    BY <1>4, <2>1, <2>2 DEF AttachAmbiguous, is_timberborn
<1> QED
  BY <1>3, <1>4

LEMMA SplitterKnown ==
  ASSUME TypeOK, Known, Search \/ Run \/ WaitOut
  PROVE  Known'
<1>1. proc' = proc
  BY DEF Search, ListAmbiguous, NextPass, AttachExact, AttachAmbiguous, Skip, RuleOut, Take,
         Run, AttachModule, ResolveScene, AwaitBus, Await, FindTable, ResolveClock, Unsupported,
         SceneLoads, Closed, LetGo, WaitOut, attachedUnchanged, systemVars
<1>2. held' = held \/ held' = NoPid \/
        \E p \in Pids : held' = p /\ (AttachExact(p) \/ AttachAmbiguous(p))
  BY DEF Search, ListAmbiguous, NextPass, AttachExact, AttachAmbiguous, Skip, RuleOut, Take,
         Run, AttachModule, ResolveScene, AwaitBus, Await, FindTable, ResolveClock, Unsupported,
         SceneLoads, Closed, LetGo, WaitOut
<1>3. NeverAnother'
  BY <1>1, <1>2, TakenIsGame DEF Known, NeverAnother, Running, IsGame
<1>4. MappedIsGame'
  BY <1>1 DEF Known, MappedIsGame, HasModule, IsGame, Running
<1> QED
  BY <1>3, <1>4 DEF Known

\* A process that is held is Timberborn as long as it runs: an ambiguous name is
\* never enough, whatever ran under the number when it was listed.
THEOREM HeldIsTheGame == Spec => []NeverAnother
<1>1. Init => Known
  <2> SUFFICES ASSUME Init
               PROVE  Known
    OBVIOUS
  <2>1. \A p \in Pids : ~ Running(p)
    BY DEF Init, Running, Nobody
  <2>2. held = NoPid
    BY DEF Init
  <2> QED
    BY <2>1, <2>2 DEF Known, MappedIsGame, NeverAnother, HasModule
<1>2. TypeOK /\ Known /\ [Next]_vars => Known'
  <2>1. Known /\ UNCHANGED vars => Known'
    BY DEF Known, MappedIsGame, NeverAnother, HasModule, IsGame, Running, vars, systemVars
  <2> QED
    BY <2>1, SystemKnown, SplitterKnown DEF Next
<1>3. Known => NeverAnother
  BY DEF Known
<1> QED
  BY <1>1, <1>2, <1>3, AttachTypeCorrect, PTL DEF Spec

(***************************************************************************)
(* FoundInTime.  The ticks a game was owed are counted against the passes  *)
(* since the last forgetting; the first pass after it looks at every       *)
(* candidate again, so it cannot end without the game that was owed.       *)
(***************************************************************************)
Candidate(p) == Findable(p) /\ Named(p, "ambiguous")

\* An owed game is there, and is on the list of a pass that rules nothing out.
Owed ==
  /\ overdue > 0 => \E p \in Pids : Findable(p)
  /\ pc = "Ambiguous" /\ waited = 0 /\ overdue > 0 =>
       \E p \in listed \ ruled_out : Candidate(p)

\* What a search has remembered when it begins.
Fresh ==
  /\ pc \notin Searching => waited = 0 /\ ruled_out = {} /\ listed = {}
  /\ pc = "Exact" /\ waited = 0 => ruled_out = {}

Tally ==
  /\ pc \in Attached => overdue = 0
  /\ pc = "Gone" => overdue <= gone
  /\ pc \in Searching /\ waited > 0 => overdue <= waited
  /\ pc \in Searching /\ waited = 0 => overdue <= F

Slow == pc \in Searching \cup {"Gone"} => tick_rate = DETACHED_TICKS_PER_SEC

Timely == Owed /\ Fresh /\ Tally /\ Slow

LEMMA InitTimely == Init => Timely
<1> SUFFICES ASSUME Init
             PROVE  Timely
  OBVIOUS
<1>1. /\ pc = "Exact" /\ waited = 0 /\ listed = {} /\ ruled_out = {} /\ overdue = 0
      /\ tick_rate = DETACHED_TICKS_PER_SEC
  BY DEF Init
<1>2. overdue <= F
  BY <1>1, TicksArePositive DEF F
<1> QED
  BY <1>1, <1>2 DEF Timely, Owed, Fresh, Tally, Slow, Searching, Attached, Starting

LEMMA Numbers ==
  ASSUME TypeOK
  PROVE  /\ waited \in Nat /\ gone \in Nat /\ overdue \in Nat
         /\ F \in Nat /\ F > 0 /\ waited < F /\ gone < F
<1>1. /\ waited \in 0 .. F - 1 /\ gone \in 0 .. PROCESS_GONE_DELAY_TICKS - 1
      /\ overdue \in Nat
  BY DEF TypeOK, F
<1>2. /\ F \in Nat /\ F > 0
      /\ PROCESS_GONE_DELAY_TICKS \in Nat /\ PROCESS_GONE_DELAY_TICKS <= F
  BY TicksArePositive DEF F
<1> HIDE DEF F
<1> QED
  BY <1>1, <1>2

\* A game that can be found stays so until something closes.
LEMMA FindableLasts ==
  ASSUME TypeOK, SystemNext, overdue' # 0, NEW p \in Pids, Findable(p)
  PROVE  Findable(p)' /\ (Candidate(p) => Candidate(p)')
<1>1. Running(p) /\ Open(p)
  BY DEF Findable, Open
<1>2. CASE Start
  <2>1. proc'[p] = proc[p]
    BY <1>1, <1>2, StartedProcess
  <2> QED
    BY <2>1 DEF Findable, Candidate, Open, Running, Named, is_timberborn, HasModule
<1>3. ASSUME NEW q \in Pids, NameItself(q) \/ MapModule(q) \/ Progress(q) \/ Reap(q)
      PROVE  Findable(p)' /\ (Candidate(p) => Candidate(p)')
  <2>1. CASE q # p
    <3>1. proc'[p] = proc[p]
      BY <1>3, <2>1, ChangedProcess
    <3> QED
      BY <3>1 DEF Findable, Candidate, Open, Running, Named, is_timberborn, HasModule
  <2>2. CASE q = p
    <3>1. /\ Running(p)' /\ proc'[p].is = proc[p].is
          /\ proc[p].named => proc'[p].named
          /\ proc[p].mapped => proc'[p].mapped
          /\ proc'[p].open = proc[p].open
      BY <1>1, <1>3, <2>2, ChangedProcess
    <3> QED
      BY <3>1 DEF Findable, Candidate, Open, Running, Named, is_timberborn, HasModule
  <2> QED
    BY <2>1, <2>2
<1>4. ASSUME NEW q \in Pids, Close(q)
      PROVE  FALSE
  BY <1>4, ClosedProcess
<1> QED
  BY <1>2, <1>3, <1>4 DEF SystemNext

LEMMA SystemTimely ==
  ASSUME TypeOK, Timely, SystemNext
  PROVE  Timely'
<1>1. /\ UNCHANGED <<pc, searchVars, held, gone, tick_rate, status>>
      /\ overdue' = overdue \/ overdue' = 0
  BY StartedProcess, ChangedProcess, ClosedProcess DEF SystemNext
<1>2. /\ overdue \in Nat /\ waited \in Nat /\ gone \in Nat /\ F \in Nat
      /\ listed \subseteq Pids
  BY Numbers DEF TypeOK
<1>3. Owed'
  <2>1. CASE overdue' = 0
    BY <2>1 DEF Owed
  <2>2. CASE overdue' # 0
    <3>1. \A p \in Pids : (Findable(p) => Findable(p)') /\ (Candidate(p) => Candidate(p)')
      BY <2>2, FindableLasts DEF Candidate
    <3> QED
      BY <1>1, <1>2, <2>2, <3>1 DEF Timely, Owed, searchVars
  <2> QED
    BY <2>1, <2>2
<1>4. Fresh' /\ Slow'
  BY <1>1 DEF Timely, Fresh, Slow, searchVars
<1>5. Tally'
  <2>1. pc' = pc /\ waited' = waited /\ gone' = gone
    BY <1>1 DEF searchVars
  <2>2. Tally
    BY DEF Timely
  <2> QED
    BY <1>1, <1>2, <2>1, <2>2 DEF Tally, F
<1> QED
  BY <1>3, <1>4, <1>5 DEF Timely

LEMMA OverdueOwed ==
  ASSUME TypeOK
  PROVE  Overdue > 0 => \E p \in Pids : Findable(p)
<1> DEFINE owed == (\E p \in Pids : Findable(p)) /\ (\A p \in Pids : Running(p) => Open(p))
<1>1. Overdue = IF owed THEN overdue + 1 ELSE 0
  BY DEF Overdue
<1>2. owed => \E p \in Pids : Findable(p)
  OBVIOUS
<1> HIDE DEF owed
<1> QED
  BY <1>1, <1>2

LEMMA NextPassTimely ==
  ASSUME TypeOK, Timely, NextPass
  PROVE  Timely'
<1>1. /\ pc = "Ambiguous" /\ listed = {} /\ listed' = {} /\ pc' = "Exact"
      /\ waited' = (waited + 1) % F /\ overdue' = Overdue /\ tick_rate' = tick_rate
      /\ waited' = 0 => ruled_out' = {}
      /\ proc' = proc
  BY DEF NextPass, F, systemVars
<1>2. waited \in 0 .. F - 1 /\ overdue \in Nat
  BY DEF TypeOK, F
<1>3. waited' = IF waited + 1 = F THEN 0 ELSE waited + 1
  BY <1>1, <1>2, WaitedGoesRound
<1>4. F \in Nat /\ F > 0
  BY TicksArePositive DEF F
<1>5. overdue' \in Nat /\ overdue' <= overdue + 1
  BY <1>1, <1>2, OverdueType
<1>6. overdue <= waited
  <2>1. CASE waited = 0
    BY <1>1, <1>2, <2>1 DEF Timely, Owed
  <2>2. CASE waited # 0
    BY <1>1, <1>2, <2>2 DEF Timely, Tally, Searching
  <2> QED
    BY <2>1, <2>2
<1>7. (waited' > 0 => overdue' <= waited') /\ (waited' = 0 => overdue' <= F)
  <2>1. overdue' <= waited + 1
    BY <1>2, <1>5, <1>6
  <2> HIDE DEF F
  <2> QED
    BY <1>2, <1>3, <1>4, <1>5, <2>1
<1>8. Owed'
  BY <1>1, OverdueOwed DEF Owed, Findable, Open, Running, Named, is_timberborn, HasModule
<1> QED
  BY <1>1, <1>7, <1>8 DEF Timely, Tally, Fresh, Slow, Searching, Attached, Starting, F

LEMMA ListTimely ==
  ASSUME TypeOK, Timely, ListAmbiguous
  PROVE  Timely'
<1>1. /\ pc = "Exact" /\ pc' = "Ambiguous"
      /\ UNCHANGED <<systemVars, waited, ruled_out, gone, tick_rate, overdue>>
      /\ \A p \in Pids : ~ Named(p, "exact")
      /\ waited = 0 => listed' = {p \in Pids : Named(p, "ambiguous")}
  BY TicksArePositive DEF ListAmbiguous
<1>2. Owed'
  <2>1. overdue > 0 => \E p \in Pids : Candidate(p)
    BY <1>1 DEF Timely, Owed, Candidate, Findable
  <2>2. waited = 0 => ruled_out = {}
    BY <1>1 DEF Timely, Fresh
  <2>3. waited = 0 /\ overdue > 0 => \E p \in listed' \ ruled_out : Candidate(p)
    BY <1>1, <2>1, <2>2 DEF Candidate
  <2> QED
    BY <1>1, <2>1, <2>3 DEF Owed, Candidate, Findable, Open, Running, Named, is_timberborn,
                            HasModule, systemVars
<1> QED
  BY <1>1, <1>2 DEF Timely, Tally, Fresh, Slow, Searching, Attached, Starting

LEMMA LookTimely ==
  ASSUME TypeOK, Timely, NEW p \in Pids, Skip(p) \/ RuleOut(p)
  PROVE  Timely'
<1>1. /\ pc = "Ambiguous" /\ pc' = "Ambiguous"
      /\ UNCHANGED <<systemVars, waited, gone, tick_rate, overdue>>
      /\ listed' = listed \ {p}
      /\ ruled_out' = ruled_out \/ ruled_out' = ruled_out \cup {p}
  BY DEF Skip, RuleOut
<1>2. ~ Candidate(p) \/ p \in ruled_out
  BY DEF Skip, RuleOut, Candidate, Findable, Open, Named
<1>3. Owed'
  BY <1>1, <1>2 DEF Timely, Owed, Candidate, Findable, Open, Running, Named, is_timberborn,
                    HasModule, systemVars
<1> QED
  BY <1>1, <1>3 DEF Timely, Tally, Fresh, Slow, Searching, Attached, Starting

LEMMA TakeTimely ==
  ASSUME TypeOK, Timely, NEW p \in Pids, Take(p)
  PROVE  Timely'
<1>1. /\ pc' = "Module" /\ overdue' = 0
      /\ waited' = 0 /\ listed' = {} /\ ruled_out' = {}
  BY DEF Take
<1> QED
  BY <1>1 DEF Timely, Owed, Tally, Fresh, Slow, Searching, Attached, Starting

LEMMA LetGoTimely ==
  ASSUME TypeOK, Timely, NEW line, pc \in Attached, LetGo(line)
  PROVE  Timely'
<1>1. /\ pc' = "Gone" /\ gone' = 0 /\ tick_rate' = DETACHED_TICKS_PER_SEC
      /\ UNCHANGED <<waited, listed, ruled_out, overdue>>
  BY DEF LetGo, searchVars
<1>2. overdue = 0 /\ pc \notin Searching
  BY DEF Timely, Tally, Searching, Attached, Starting
<1> QED
  BY <1>1, <1>2 DEF Timely, Owed, Tally, Fresh, Slow, Searching, Attached, Starting

LEMMA AttachedTimely ==
  ASSUME TypeOK, Timely,
         AttachModule \/ ResolveScene \/ FindTable \/ AwaitBus \/ ResolveClock \/ SceneLoads
  PROVE  Timely'
<1>1. /\ pc \in Attached /\ pc' \in Attached
      /\ UNCHANGED <<waited, listed, ruled_out, overdue>>
  BY DEF AttachModule, ResolveScene, FindTable, AwaitBus, ResolveClock, SceneLoads, Await,
         attachedUnchanged, searchVars, Attached, Starting
<1>2. overdue = 0 /\ pc \notin Searching /\ pc' \notin Searching /\ pc' # "Gone"
  BY <1>1 DEF Timely, Tally, Searching, Attached, Starting
<1> QED
  BY <1>1, <1>2 DEF Timely, Owed, Tally, Fresh, Slow, Searching

LEMMA WaitOutTimely ==
  ASSUME TypeOK, Timely, WaitOut
  PROVE  Timely'
<1>1. /\ pc = "Gone" /\ overdue' = Overdue
      /\ UNCHANGED <<systemVars, waited, listed, ruled_out, tick_rate>>
  BY DEF WaitOut, searchVars
<1>2. waited = 0 /\ listed = {} /\ ruled_out = {}
  BY <1>1 DEF Timely, Fresh, Searching
<1>3. /\ gone \in Nat /\ overdue \in Nat /\ overdue <= gone /\ gone + 1 <= F /\ F \in Nat
  <2>1. overdue <= gone
    BY <1>1 DEF Timely, Tally
  <2> HIDE DEF F
  <2> QED
    BY <2>1, Numbers
<1>4. overdue' \in Nat /\ overdue' <= gone + 1 /\ overdue' <= F
  <2>1. overdue' = 0 \/ overdue' = overdue + 1
    BY <1>1, OverdueType
  <2> HIDE DEF F
  <2> QED
    BY <1>3, <2>1
<1>5. Owed'
  BY <1>1, <1>2, OverdueOwed DEF Owed, WaitOut, Findable, Open, Running, Named, is_timberborn,
                                  HasModule, systemVars
<1>6. \/ pc' = "Gone" /\ gone' = gone + 1
      \/ pc' = "Exact" /\ gone' = 0
  BY <1>1 DEF WaitOut
<1>7. tick_rate = DETACHED_TICKS_PER_SEC
  BY <1>1 DEF Timely, Slow
<1> QED
  BY <1>1, <1>2, <1>4, <1>5, <1>6, <1>7
     DEF Timely, Tally, Fresh, Slow, Searching, Attached, Starting

\* A game that can be attached to is attached to within the ticks after which
\* candidates are forgotten, and the splitter counts them at a tick a second.
THEOREM GameIsFoundInTime == Spec => []FoundInTime
<1>1. TypeOK /\ Timely /\ [Next]_vars => Timely'
  <2> SUFFICES ASSUME TypeOK, Timely, [Next]_vars
               PROVE  Timely'
    OBVIOUS
  <2>1. CASE SystemNext
    BY <2>1, SystemTimely
  <2>2. CASE Search
    BY <2>2, ListTimely, NextPassTimely, LookTimely, TakeTimely
       DEF Search, AttachExact, AttachAmbiguous
  <2>3. CASE Run
    BY <2>3, AttachedTimely, LetGoTimely DEF Run, Unsupported, Closed, Attached, Starting
  <2>4. CASE WaitOut
    BY <2>4, WaitOutTimely
  <2>5. CASE UNCHANGED vars
    BY <2>5 DEF vars, systemVars, searchVars, Timely, Owed, Tally, Fresh, Slow, Candidate,
                Findable, Open, Running, Named, is_timberborn, HasModule
  <2> QED
    BY <2>1, <2>2, <2>3, <2>4, <2>5 DEF Next
<1>2. TypeOK /\ Timely => FoundInTime
  <2> SUFFICES ASSUME TypeOK, Timely
               PROVE  overdue <= FORGET_RULED_OUT_TICKS
    BY DEF Timely, Slow, FoundInTime
  <2>1. pc \in Searching \/ pc \in Attached \/ pc = "Gone"
    BY DEF TypeOK
  <2>2. \/ overdue = 0 \/ overdue <= gone \/ overdue <= waited \/ overdue <= F
    BY <2>1, Numbers DEF Timely, Tally
  <2>3. overdue <= F
    BY <2>2, Numbers
  <2> QED
    BY <2>3 DEF F
<1> QED
  BY <1>1, <1>2, InitTimely, AttachTypeCorrect, PTL DEF Spec

(***************************************************************************)
(* The recorder.  It shares nothing with the search above, neither state   *)
(* nor steps.                                                              *)
(***************************************************************************)
\* The pid is noted while a stop can be taken back, and a stop is only pending
\* or in force while the recorder is at it, or ended by one of the WaysOut.
LetsGo ==
  /\ game \in {"running", "posted", "stopped", "gone"}
  /\ phase \in {"Posted", "Reading"} => FROZEN
  /\ game \in {"posted", "stopped"} =>
       phase \in {"Sent", "Posted", "Reading"} \/ (phase = "Dead" /\ stranded # "none")

LEMMA InitLetsGo == RecorderInit => LetsGo
BY DEF RecorderInit, LetsGo

LEMMA GameLetsGo == LetsGo /\ GameNext => LetsGo'
<1> SUFFICES ASSUME LetsGo, GameNext
             PROVE  LetsGo'
  OBVIOUS
<1>1. UNCHANGED <<phase, FROZEN, stranded>>
  BY DEF GameNext, Alter, Stopped, Exit, recorderUnchanged
<1>2. \/ game' = game
      \/ game = "posted" /\ game' = "stopped"
      \/ game' = "gone"
  BY DEF GameNext, Alter, Stopped, Exit
<1> QED
  BY <1>1, <1>2 DEF LetsGo

LEMMA TakeLetsGo == LetsGo /\ take => LetsGo'
<1> SUFFICES ASSUME LetsGo, take
             PROVE  LetsGo'
  OBVIOUS
<1> USE DEF LetsGo, gameVars
<1>1. CASE List \/ Describe \/ Index \/ \E r \in left : ReadRange(r)
  BY <1>1 DEF List, Describe, Index, ReadRange
<1>2. CASE SendStop
  BY <1>2 DEF SendStop
<1>3. CASE NotePid
  BY <1>3 DEF NotePid
<1>4. CASE Reported \/ Disappeared
  BY <1>4 DEF Reported, Disappeared
<1>5. CASE EndReading
  BY <1>5 DEF EndReading, Resume, Continued
<1> QED
  BY <1>1, <1>2, <1>3, <1>4, <1>5 DEF take

\* The recorder ends: on an error the guard resumes the game, on a signal the
\* handler does if the pid was noted, on a kill nothing does.
LEMMA EndLetsGo == LetsGo /\ (TimedOut \/ WriteFails \/ Interrupt \/ Kill) => LetsGo'
<1> SUFFICES ASSUME LetsGo, TimedOut \/ WriteFails \/ Interrupt \/ Kill
             PROVE  LetsGo'
  OBVIOUS
<1> USE DEF LetsGo, gameVars
<1>1. CASE TimedOut
  BY <1>1 DEF TimedOut
<1>2. CASE WriteFails
  BY <1>2 DEF WriteFails, Resume, Continued
<1>3. CASE Interrupt
  <2>1. phase # "Dead" /\ phase' = "Dead"
        /\ (phase = "Sent" => stranded' = "early")
        /\ game' = (IF FROZEN THEN Continued ELSE game)
    BY <1>3 DEF Interrupt
  <2>2. CASE FROZEN
    BY <2>1, <2>2 DEF Continued
  <2>3. CASE ~FROZEN
    BY <2>1, <2>3
  <2> QED
    BY <2>2, <2>3
<1>4. CASE Kill
  BY <1>4 DEF Kill
<1> QED
  BY <1>1, <1>2, <1>3, <1>4

\* A recorder that ended has not left the game stopped, whatever ended it, unless
\* the stop was reported too late, a signal came before the pid was noted, or a
\* kill that no handler sees came between the stop and the resume.
THEOREM TheGameIsNotLeftStopped == RecorderSpec => []NotLeftStopped
<1>1. LetsGo /\ UNCHANGED recorderVars => LetsGo'
  BY DEF LetsGo, recorderVars, gameVars
<1>2. LetsGo /\ [RecorderNext]_recorderVars => LetsGo'
  BY <1>1, GameLetsGo, TakeLetsGo, EndLetsGo DEF RecorderNext
<1>3. LetsGo => NotLeftStopped
  BY DEF LetsGo, NotLeftStopped
<1> QED
  BY <1>2, <1>3, InitLetsGo, PTL DEF RecorderSpec

(***************************************************************************)
(* The instant is kept.  First what a read through the chain of captures   *)
(* gives.  `read` is recursive, over the steps and over the words that are *)
(* left; it is compared with Slice, which says at once, word by word, what *)
(* the last step that covers an address holds there.  The two agree by     *)
(* taking the least read on which they would not: the first step, and of   *)
(* its reads the shortest.                                                 *)
(***************************************************************************)
\* The order of the natural numbers is well-founded, so a set of them that is not
\* empty has a least member: that stands for an induction here.
Less == {s \in Nat \X Nat : s[1] < s[2]}

LEMMA LeastExists ==
  ASSUME NEW T, T \subseteq Nat, T # {}
  PROVE  \E x \in T : \A y \in T : x <= y
<1>1. OpToRel(<, Nat) = Less
  BY DEF OpToRel, Less
<1>2. PICK x \in T : \A y \in T : ~ (<<y, x>> \in Less)
  BY <1>1, NatLessThanWellFounded, WFMin
<1>3. ASSUME NEW y \in T
      PROVE  x <= y
  <2>1. <<y, x>> \in Nat \X Nat /\ <<y, x>>[1] = y /\ <<y, x>>[2] = x
    BY <1>2
  <2>2. ~ (y < x)
    BY <1>2, <2>1 DEF Less
  <2> QED
    BY <1>2, <2>2
<1> QED
  BY <1>3

\* The chunk holds the word at the address.
Covers(c, a) == c.address <= a /\ a < c.address + Len(c.bytes)

\* Chunks that hold something, of which no two hold the same word: what the
\* bisection of `chunk_at` takes for granted.
Sound(S) ==
  /\ \A c \in S : c.address \in Nat /\ c.bytes \in Seq(Value) /\ c.bytes # <<>>
  /\ \A c, d \in S : \A a \in Int : Covers(c, a) /\ Covers(d, a) => c = d

SoundStore == \A j \in 1 .. Len(steps) : Sound(Chunks(j))

\* The last step, up to j, with a chunk that holds the word (no step, or one),
\* and what it says there.
Tops(j, a) ==
  {k \in 1 .. j : chunk_at(k, a) # {} /\ \A l \in k + 1 .. j : chunk_at(l, a) = {}}
ByteAt(k, a) == LET c == CHOOSE c \in chunk_at(k, a) : TRUE IN c.bytes[a - c.address + 1]
Has(j, a)  == Tops(j, a) # {}
Words(j, a) == {ByteAt(k, a) : k \in Tops(j, a)}
Word(j, a) == CHOOSE w \in Words(j, a) : TRUE

\* What a read of m words should be: all of them, or nothing.
Slice(j, a, m) ==
  IF m # 0 /\ \A b \in a .. a + m - 1 : Has(j, b) THEN [k \in 1 .. m |-> Word(j, a + k - 1)]
                                                 ELSE <<>>

\* One step more: its own chunk where it has one, and the step before elsewhere.
LEMMA TopsStep ==
  ASSUME NEW j \in Nat, j # 0, NEW a
  PROVE  /\ chunk_at(j, a) = {} => Has(j, a) = Has(j - 1, a) /\ Word(j, a) = Word(j - 1, a)
         /\ chunk_at(j, a) # {} => Has(j, a) /\ Word(j, a) = ByteAt(j, a)
<1>1. ASSUME chunk_at(j, a) = {}
      PROVE  Tops(j, a) = Tops(j - 1, a)
  BY <1>1 DEF Tops
<1>2. ASSUME chunk_at(j, a) # {}
      PROVE  Tops(j, a) = {j}
  BY <1>2 DEF Tops
<1>3. ASSUME NEW w
      PROVE  (CHOOSE x \in {w} : TRUE) = w
  OBVIOUS
<1>4. ASSUME chunk_at(j, a) = {}
      PROVE  Has(j, a) = Has(j - 1, a) /\ Word(j, a) = Word(j - 1, a)
  BY <1>1, <1>4 DEF Has, Word, Words
<1>5. ASSUME chunk_at(j, a) # {}
      PROVE  Has(j, a) /\ Word(j, a) = ByteAt(j, a)
  <2>1. Words(j, a) = {ByteAt(j, a)}
    BY <1>2, <1>5 DEF Words
  <2> QED
    BY <1>2, <1>3, <1>5, <2>1 DEF Has, Word
<1> QED
  BY <1>4, <1>5

LEMMA NothingAtZero == \A a : ~Has(0, a)
BY DEF Has, Tops

LEMMA SliceIs ==
  ASSUME NEW j, NEW a \in Int, NEW m \in Nat \ {0}
  PROVE  /\ Slice(j, a, m) = <<>> <=> \E b \in a .. a + m - 1 : ~Has(j, b)
         /\ Slice(j, a, m) # <<>> => Slice(j, a, m) = [k \in 1 .. m |-> Word(j, a + k - 1)]
<1>1. [k \in 1 .. m |-> Word(j, a + k - 1)] # <<>>
  <2>1. DOMAIN [k \in 1 .. m |-> Word(j, a + k - 1)] = 1 .. m /\ 1 \in 1 .. m
    OBVIOUS
  <2>2. DOMAIN <<>> = {}
    OBVIOUS
  <2> QED
    BY <2>1, <2>2
<1> QED
  BY <1>1 DEF Slice

\* The first part of a read and the rest of it, as `read` puts them together.
Joined(first, part, m, rest) ==
  IF first = <<>> \/ (part < m /\ rest = <<>>) THEN <<>> ELSE first \o rest

\* A slice is cut anywhere and joined again.
LEMMA SlicesJoin ==
  ASSUME NEW j, NEW a \in Int, NEW m \in Nat \ {0}, NEW t \in 1 .. m
  PROVE  Joined(Slice(j, a, t), t, m, Slice(j, a + t, m - t)) = Slice(j, a, m)
<1> DEFINE w(b) == Word(j, b)
           s == [k \in 1 .. t |-> w(a + k - 1)]
           r == [k \in 1 .. m - t |-> w(a + t + k - 1)]
<1>1. CASE \E b \in a .. a + m - 1 : ~Has(j, b)
  <2>1. PICK b \in a .. a + m - 1 : ~Has(j, b)
    BY <1>1
  <2>2. CASE b < a + t
    <3>1. b \in a .. a + t - 1
      BY <2>2
    <3> QED
      BY <2>1, <3>1, SliceIs DEF Joined
  <2>3. CASE b >= a + t
    <3>1. b \in a + t .. (a + t) + (m - t) - 1 /\ m - t \in Nat \ {0} /\ t < m /\ a + t \in Int
      BY <2>3
    <3>2. Slice(j, a + t, m - t) = <<>>
      BY <2>1, <3>1, SliceIs
    <3>3. Slice(j, a, m) = <<>>
      BY <2>1, SliceIs
    <3> QED
      BY <3>1, <3>2, <3>3 DEF Joined
  <2> QED
    BY <2>2, <2>3
<1>2. CASE \A b \in a .. a + m - 1 : Has(j, b)
  <2>1. Slice(j, a, t) = s /\ s # <<>>
    <3>1. \A b \in a .. a + t - 1 : Has(j, b)
      BY <1>2
    <3> QED
      BY <3>1, SliceIs
  <2>2. Slice(j, a, m) = [k \in 1 .. m |-> w(a + k - 1)]
    BY <1>2, SliceIs
  <2>3. Slice(j, a + t, m - t) = r /\ (t < m => r # <<>>)
    <3>1. CASE t = m
      <4>1. r = <<>>
        BY <3>1
      <4> QED
        BY <3>1, <4>1 DEF Slice
    <3>2. CASE t < m
      <4>1. m - t \in Nat \ {0} /\ a + t \in Int
        BY <3>2
      <4>2. \A b \in a + t .. (a + t) + (m - t) - 1 : Has(j, b)
        BY <1>2
      <4>3. Slice(j, a + t, m - t) # <<>>
        BY <4>1, <4>2, SliceIs
      <4> QED
        BY <4>1, <4>3, SliceIs
    <3> QED
      BY <3>1, <3>2
  <2>4. s \o r = [k \in 1 .. m |-> w(a + k - 1)]
    <3> DEFINE V == {w(b) : b \in Int}
    <3>1. s \in Seq(V) /\ r \in Seq(V) /\ Len(s) = t /\ Len(r) = m - t
      OBVIOUS
    <3>2. s \o r \in Seq(V) /\ Len(s \o r) = m
      BY <3>1
    <3>3. ASSUME NEW k \in 1 .. m
          PROVE  (s \o r)[k] = w(a + k - 1)
      <4>1. CASE k <= t
        BY <3>1, <4>1
      <4>2. CASE k > t
        <5>1. (s \o r)[k] = r[k - t] /\ k - t \in 1 .. m - t
          BY <3>1, <4>2
        <5>2. a + t + (k - t) - 1 = a + k - 1
          OBVIOUS
        <5> QED
          BY <5>1, <5>2
      <4> QED
        BY <4>1, <4>2
    <3> QED
      BY <3>2, <3>3
  <2> QED
    BY <2>1, <2>2, <2>3, <2>4 DEF Joined
<1> QED
  BY <1>1, <1>2

(***************************************************************************)
(* The body of `read`, by its parts: f stands for the function itself.     *)
(***************************************************************************)
OwnAt(j, a) == CHOOSE c \in chunk_at(j, a) : TRUE

TakeOf(j, a, m) ==
  IF chunk_at(j, a) # {} THEN Least(OwnAt(j, a).address + Len(OwnAt(j, a).bytes) - a, m)
                         ELSE Boundary(j, a, m)

At(f, j, a, m) == f[j][a][m]

FirstOf(f, j, a, m) ==
  IF chunk_at(j, a) # {}
    THEN SubSeq(OwnAt(j, a).bytes, a - OwnAt(j, a).address + 1,
                a - OwnAt(j, a).address + TakeOf(j, a, m))
    ELSE At(f, j - 1, a, TakeOf(j, a, m))

Piece(f, j, a, m) ==
  IF m = 0 \/ j = 0 THEN <<>>
  ELSE Joined(FirstOf(f, j, a, m), TakeOf(j, a, m), m,
              At(f, j, a + TakeOf(j, a, m), m - TakeOf(j, a, m)))

Body(f) == [j \in 0 .. Len(steps) |-> [a \in Int |-> [m \in Nat |-> Piece(f, j, a, m)]]]

\* A recursive function is some function that is equal to its body of itself, if
\* there is any; so one has to be shown before anything is known of `read`.
LEMMA ReadIsChosen == read = CHOOSE f : f = Body(f)
BY DEF read, Body, Piece, Joined, FirstOf, TakeOf, OwnAt, At

LEMMA ReadUnfolds ==
  ASSUME NEW g, g = Body(g)
  PROVE  read = Body(read)
<1> DEFINE P(f) == f = Body(f)
<1>1. P(g)
  OBVIOUS
<1>2. read = CHOOSE f : P(f)
  BY ReadIsChosen
<1> HIDE DEF P
<1>3. P(read)
  BY <1>1, <1>2, Zenon
<1> QED
  BY <1>3 DEF P

\* Inside an own chunk.
LEMMA OwnPiece ==
  ASSUME NEW j \in Nat, j # 0, Sound(Chunks(j)), NEW a \in Int, NEW m \in Nat \ {0},
         chunk_at(j, a) # {}, NEW f
  PROVE  /\ TakeOf(j, a, m) \in 1 .. m
         /\ FirstOf(f, j, a, m) = Slice(j, a, TakeOf(j, a, m))
<1> DEFINE c == OwnAt(j, a)
           t == TakeOf(j, a, m)
<1>1. c \in Chunks(j) /\ Covers(c, a)
  BY DEF OwnAt, chunk_at, Covers
<1>2. c.address \in Nat /\ c.bytes \in Seq(Value) /\ Len(c.bytes) \in Nat
  BY <1>1 DEF Sound
<1>3. t = Least(c.address + Len(c.bytes) - a, m)
  BY DEF TakeOf
<1>4. t \in 1 .. m /\ a + t <= c.address + Len(c.bytes)
  BY <1>1, <1>2, <1>3 DEF Least, Covers
<1> HIDE DEF c, t
<1>5. ASSUME NEW b \in a .. a + t - 1
      PROVE  Has(j, b) /\ Word(j, b) = c.bytes[b - c.address + 1]
  <2>1. b \in Int /\ Covers(c, b)
    BY <1>1, <1>2, <1>4 DEF Covers
  <2>2. c \in chunk_at(j, b) /\ \A d \in chunk_at(j, b) : d = c
    BY <1>1, <2>1 DEF chunk_at, Covers, Sound
  <2>3. (CHOOSE d \in chunk_at(j, b) : TRUE) = c
    BY <2>2
  <2>4. ByteAt(j, b) = c.bytes[b - c.address + 1]
    BY <2>3 DEF ByteAt
  <2> QED
    BY <2>2, <2>4, TopsStep
<1>6. Slice(j, a, t) = [k \in 1 .. t |-> Word(j, a + k - 1)]
  <2>1. t \in Nat \ {0}
    BY <1>4
  <2> QED
    BY <1>5, <2>1, SliceIs
<1>7. SubSeq(c.bytes, a - c.address + 1, a - c.address + t)
        = [k \in 1 .. t |-> c.bytes[a - c.address + k]]
  <2> DEFINE p == a - c.address + 1
             q == a - c.address + t
             u == SubSeq(c.bytes, p, q)
  <2>1. p \in 1 .. Len(c.bytes) /\ q \in 1 .. Len(c.bytes) /\ q - p + 1 = t
    BY <1>1, <1>2, <1>4 DEF Covers
  <2>2. u \in Seq(Value) /\ Len(u) = t /\ \A k \in 1 .. t : u[k] = c.bytes[p + k - 1]
    <3>1. \A k \in p .. q : c.bytes[k] \in Value
      BY <1>2, <2>1
    <3>2. p \in Int /\ q \in Int /\ p <= q
      BY <1>2, <1>4, <2>1
    <3> HIDE DEF p, q
    <3> QED
      BY <2>1, <3>1, <3>2, SubSeqProperties DEF u
  <2>3. ASSUME NEW k \in 1 .. t
        PROVE  p + k - 1 = a - c.address + k
    BY <1>2, <1>4
  <2> QED
    BY <2>2, <2>3
<1>8. ASSUME NEW k \in 1 .. t
      PROVE  Word(j, a + k - 1) = c.bytes[a - c.address + k]
  <2>1. a + k - 1 \in a .. a + t - 1 /\ (a + k - 1) - c.address + 1 = a - c.address + k
    BY <1>2, <1>4
  <2> QED
    BY <1>5, <2>1
<1>9. FirstOf(f, j, a, m) = SubSeq(c.bytes, a - c.address + 1, a - c.address + t)
  BY DEF FirstOf, c, t
<1> QED
  BY <1>4, <1>6, <1>7, <1>8, <1>9 DEF t

\* Between own chunks.
LEMMA BasePiece ==
  ASSUME NEW j \in Nat, j # 0, Sound(Chunks(j)), NEW a \in Int, NEW m \in Nat \ {0},
         chunk_at(j, a) = {}
  PROVE  /\ TakeOf(j, a, m) \in 1 .. m
         /\ Slice(j - 1, a, TakeOf(j, a, m)) = Slice(j, a, TakeOf(j, a, m))
<1> DEFINE after == {c.address : c \in {d \in Chunks(j) : d.address > a}}
           t == TakeOf(j, a, m)
<1>1. t = IF after = {} THEN m ELSE Least(Lowest(after) - a, m)
  BY DEF TakeOf, Boundary
<1>2. after \subseteq Nat /\ \A x \in after : x > a
  BY DEF Sound
<1>3. ASSUME after # {}
      PROVE  Lowest(after) \in after /\ \A x \in after : Lowest(after) <= x
  BY <1>2, <1>3, LeastExists DEF Lowest
<1> HIDE DEF after, t
<1>4. t \in 1 .. m /\ \A x \in after : a + t <= x
  <2>1. CASE after = {}
    BY <1>1, <2>1
  <2>2. CASE after # {}
    <3>1. Lowest(after) \in Nat /\ Lowest(after) > a
      BY <1>2, <1>3, <2>2
    <3>2. t = Least(Lowest(after) - a, m)
      BY <1>1, <2>2
    <3>3. t \in 1 .. m /\ a + t <= Lowest(after)
      BY <3>1, <3>2 DEF Least
    <3>4. ASSUME NEW x \in after
          PROVE  a + t <= x
      BY <1>2, <1>3, <2>2, <3>1, <3>3
    <3> QED
      BY <3>3, <3>4
  <2> QED
    BY <2>1, <2>2
<1>5. ASSUME NEW b \in a .. a + t - 1
      PROVE  chunk_at(j, b) = {}
  <2> SUFFICES ASSUME NEW c \in chunk_at(j, b)
               PROVE  FALSE
    OBVIOUS
  <2>1. c \in Chunks(j) /\ c.address <= b /\ b < c.address + Len(c.bytes)
        /\ c.address \in Nat /\ Len(c.bytes) \in Nat /\ b \in Int
    BY <1>4 DEF chunk_at, Sound
  <2>2. CASE c.address <= a
    <3>1. c \in chunk_at(j, a)
      BY <2>1, <2>2, <1>4 DEF chunk_at
    <3> QED
      BY <3>1
  <2>3. CASE c.address > a
    <3>1. c.address \in after
      BY <2>1, <2>3 DEF after
    <3> QED
      BY <3>1, <2>1, <1>4
  <2> QED
    BY <2>1, <2>2, <2>3
<1>6. \A b \in a .. a + t - 1 : Has(j, b) = Has(j - 1, b) /\ Word(j, b) = Word(j - 1, b)
  BY <1>5, TopsStep
<1>7. \A k \in 1 .. t : a + k - 1 \in a .. a + t - 1
  BY <1>4
<1>8. Slice(j - 1, a, t) = Slice(j, a, t)
  <2>1. t \in Nat \ {0}
    BY <1>4
  <2>2. [k \in 1 .. t |-> Word(j, a + k - 1)] = [k \in 1 .. t |-> Word(j - 1, a + k - 1)]
    BY <1>6, <1>7
  <2> QED
    BY <2>1, <2>2, <1>6 DEF Slice
<1> QED
  BY <1>4, <1>8 DEF t

\* One unfolding of a read gives the slice, if those it asks for are slices.
LEMMA PieceIsSlice ==
  ASSUME SoundStore, NEW j \in 1 .. Len(steps), NEW a \in Int, NEW m \in Nat \ {0}, NEW f,
         \A t \in 1 .. m : /\ At(f, j - 1, a, t) = Slice(j - 1, a, t)
                           /\ At(f, j, a + t, m - t) = Slice(j, a + t, m - t)
  PROVE  Piece(f, j, a, m) = Slice(j, a, m)
<1> DEFINE t == TakeOf(j, a, m)
<1>1. j \in Nat /\ j # 0 /\ Sound(Chunks(j))
  BY DEF SoundStore
<1>2. t \in 1 .. m /\ FirstOf(f, j, a, m) = Slice(j, a, t)
  <2>1. CASE chunk_at(j, a) # {}
    BY <1>1, <2>1, OwnPiece
  <2>2. CASE chunk_at(j, a) = {}
    <3>1. t \in 1 .. m /\ Slice(j - 1, a, t) = Slice(j, a, t)
      BY <1>1, <2>2, BasePiece
    <3>2. FirstOf(f, j, a, m) = At(f, j - 1, a, t)
      BY <2>2 DEF FirstOf
    <3> QED
      BY <3>1, <3>2
  <2> QED
    BY <2>1, <2>2
<1> HIDE DEF t
<1>3. At(f, j, a + t, m - t) = Slice(j, a + t, m - t)
  BY <1>2
<1>4. Piece(f, j, a, m) = Joined(Slice(j, a, t), t, m, Slice(j, a + t, m - t))
  BY <1>1, <1>2, <1>3 DEF Piece, t
<1> QED
  BY <1>2, <1>4, SlicesJoin

LEMMA Applied ==
  ASSUME NEW f, NEW g, f = Body(g), NEW j \in 0 .. Len(steps), NEW a \in Int, NEW m \in Nat
  PROVE  At(f, j, a, m) = Piece(g, j, a, m)
BY DEF Body, At

\* The slices, as a function: it is equal to its body, so there is a `read`.
Star == [j \in 0 .. Len(steps) |-> [a \in Int |-> [m \in Nat |-> Slice(j, a, m)]]]

LEMMA StarIs ==
  ASSUME NEW j \in 0 .. Len(steps), NEW a \in Int, NEW m \in Nat
  PROVE  At(Star, j, a, m) = Slice(j, a, m)
BY DEF Star, At

LEMMA NothingToRead ==
  ASSUME NEW f, NEW j \in Nat, NEW a \in Int, NEW m \in Nat, m = 0 \/ j = 0
  PROVE  Piece(f, j, a, m) = <<>> /\ Slice(j, a, m) = <<>>
<1>1. ASSUME m # 0
      PROVE  a \in a .. a + m - 1
  BY <1>1
<1>2. Slice(j, a, m) = <<>>
  BY <1>1, NothingAtZero DEF Slice
<1> QED
  BY <1>2 DEF Piece

LEMMA StarSolves ==
  ASSUME SoundStore, Len(steps) \in Nat
  PROVE  Star = Body(Star)
<1>1. ASSUME NEW j \in 0 .. Len(steps), NEW a \in Int, NEW m \in Nat
      PROVE  Piece(Star, j, a, m) = Slice(j, a, m)
  <2>1. CASE m = 0 \/ j = 0
    BY <2>1, NothingToRead
  <2>2. CASE m # 0 /\ j # 0
    <3>1. ASSUME NEW t \in 1 .. m
          PROVE  /\ At(Star, j - 1, a, t) = Slice(j - 1, a, t)
                 /\ At(Star, j, a + t, m - t) = Slice(j, a + t, m - t)
      <4>1. j - 1 \in 0 .. Len(steps) /\ t \in Nat /\ a + t \in Int /\ m - t \in Nat
        BY <2>2
      <4> QED
        BY <4>1, StarIs
    <3>2. j \in 1 .. Len(steps) /\ m \in Nat \ {0}
      BY <2>2
    <3> QED
      BY <3>1, <3>2, PieceIsSlice
  <2> QED
    BY <2>1, <2>2
<1>2. ASSUME NEW j \in 0 .. Len(steps), NEW a \in Int
      PROVE  [m \in Nat |-> Piece(Star, j, a, m)] = [m \in Nat |-> Slice(j, a, m)]
  BY <1>1
<1>3. ASSUME NEW j \in 0 .. Len(steps)
      PROVE  [a \in Int |-> [m \in Nat |-> Piece(Star, j, a, m)]]
               = [a \in Int |-> [m \in Nat |-> Slice(j, a, m)]]
  BY <1>2
<1> QED
  BY <1>3 DEF Star, Body

\* What is read through a chain of sound captures is the slice, for all of them:
\* the shortest read of the first step for which it were not would be made of
\* two that are.
LEMMA ReadIsSlice ==
  ASSUME SoundStore, Len(steps) \in Nat
  PROVE  \A j \in 0 .. Len(steps), a \in Int, m \in Nat : read_through(j, a, m) = Slice(j, a, m)
<1> DEFINE Wrong(j, a, m) == At(read, j, a, m) # Slice(j, a, m)
           Steps == {j \in 0 .. Len(steps) : \E a \in Int, m \in Nat : Wrong(j, a, m)}
<1>1. read = Body(read)
  BY StarSolves, ReadUnfolds
<1>2. ASSUME Steps # {}
      PROVE  FALSE
  <2>1. PICK j \in Steps : \A k \in Steps : j <= k
    <3>1. Steps \subseteq Nat
      OBVIOUS
    <3> QED
      BY <1>2, <3>1, LeastExists
  <2> DEFINE Sizes == {m \in Nat : \E a \in Int : Wrong(j, a, m)}
  <2>2. PICK m \in Sizes : \A n \in Sizes : m <= n
    <3>1. Sizes \subseteq Nat /\ Sizes # {}
      OBVIOUS
    <3> QED
      BY <3>1, LeastExists
  <2>3. PICK a \in Int : Wrong(j, a, m)
    OBVIOUS
  <2>4. j \in 0 .. Len(steps) /\ m \in Nat
    OBVIOUS
  <2>5. Piece(read, j, a, m) # Slice(j, a, m)
    BY <1>1, <2>3, <2>4, Applied
  <2>6. m # 0 /\ j # 0
    BY <2>4, <2>5, NothingToRead
  <2>7. ASSUME NEW t \in 1 .. m
        PROVE  /\ At(read, j - 1, a, t) = Slice(j - 1, a, t)
               /\ At(read, j, a + t, m - t) = Slice(j, a + t, m - t)
    <3>1. j - 1 \in 0 .. Len(steps) /\ ~(j <= j - 1) /\ t \in Nat
      BY <2>4, <2>6
    <3>2. m - t \in Nat /\ ~(m <= m - t) /\ a + t \in Int
      BY <2>4
    <3>3. j - 1 \notin Steps
      BY <2>1, <3>1
    <3>4. m - t \notin Sizes
      BY <2>2, <3>2
    <3> QED
      BY <3>1, <3>2, <3>3, <3>4
  <2>8. j \in 1 .. Len(steps) /\ m \in Nat \ {0}
    BY <2>4, <2>6
  <2> QED
    BY <2>5, <2>7, <2>8, PieceIsSlice
<1> QED
  BY <1>2 DEF At, read_through

(***************************************************************************)
(* The chunks a range falls into.                                          *)
(***************************************************************************)
\* Division with rest, what two multiples are apart, and rounding down to one.
LEMMA Euclid ==
  ASSUME NEW C \in Nat \ {0}, NEW x \in Nat
  PROVE  x \div C \in Nat /\ x % C \in 0 .. C - 1 /\ x = C * (x \div C) + (x % C)
OBVIOUS

LEMMA Gap ==
  ASSUME NEW C \in Nat \ {0}, NEW p \in Nat, NEW q \in Nat, C * p < C * q
  PROVE  C * p + C <= C * q
<1>1. p < q
  <2>1. CASE p >= q
    <3>1. PICK d \in Nat : p = q + d
      BY <2>1
    <3>2. C * p = C * q + C * d /\ C * d \in Nat /\ C * q \in Nat
      BY <3>1
    <3> QED
      BY <3>2
  <2> QED
    BY <2>1
<1>2. PICK d \in Nat : q = p + 1 + d
  <2>1. q - p - 1 \in Nat /\ q = p + 1 + (q - p - 1)
    BY <1>1
  <2> QED
    BY <2>1
<1>3. C * q = C * p + C + C * d /\ C * d \in Nat
  BY <1>2
<1> QED
  BY <1>3

LEMMA Multiples ==
  ASSUME NEW C \in Nat \ {0}, NEW x \in Nat, NEW y \in Nat, x % C = 0, y % C = 0, x < y
  PROVE  x + C <= y
<1>1. x = C * (x \div C) /\ y = C * (y \div C) /\ x \div C \in Nat /\ y \div C \in Nat
  BY Euclid
<1> QED
  BY <1>1, Gap

LEMMA RoundsDown ==
  ASSUME NEW C \in Nat \ {0}, NEW x \in Nat
  PROVE  /\ x - (x % C) \in Nat /\ (x - (x % C)) % C = 0
         /\ x < (x - (x % C)) + C /\ x - (x % C) <= x
<1>1. x \div C \in Nat /\ x % C \in 0 .. C - 1 /\ x = C * (x \div C) + (x % C)
  BY Euclid
<1>2. x - (x % C) = C * (x \div C) /\ C * (x \div C) \in Nat
  BY <1>1
<1>3. (C * (x \div C)) % C = 0
  BY <1>1, SMTT(30)
<1> QED
  BY <1>1, <1>2, <1>3

(***************************************************************************)
(* The inductive invariant.  What is said of a capture while it is made and*)
(* until it is complete is said against its base, the steps before it: a   *)
(* word of a range that was read is in a chunk of the capture, as it was at*)
(* the instant, or the base serves it so.  The chunks a delta leaves out are*)
(* the ones its base serves; the steps before it are never written again,  *)
(* so the base goes on serving them.                                       *)
(***************************************************************************)
Chunk == [address : Addr, bytes : Seq(Value)]
Step  == [stored : SUBSET Stored, chunks : SUBSET Chunk, indexed : BOOLEAN]

USE DEF Chunk

\* The chunks hold what the game held, and what they leave out the base holds.
Tells(S, C, base) ==
  /\ \A c \in C, b \in Int : Covers(c, b) => c.bytes[b - c.address + 1] = moment[b]
  /\ \A s \in S : s.readable => \A b \in PagesOf(s) :
       (\E c \in C : Covers(c, b)) \/ (Has(base, b) /\ Word(base, b) = moment[b])

\* The types the proof needs.
Typed ==
  /\ layout \in Layouts /\ value \in [Addr -> Value]
  /\ mapped \in Layouts \cup {{}} /\ left \subseteq mapped
  /\ stored \subseteq Stored /\ chunks \subseteq Chunk
  /\ steps \in Seq(Step)

\* The capture that is made is not a step yet while it is read, and is the last
\* one once it is described; its base is what is before it.
Last == steps[Len(steps)]
Base == IF phase = "Described" THEN Len(steps) - 1 ELSE Len(steps)

\* Every chunk lies in a range that was read, and the ranges lie apart.
SoundCapture ==
  /\ Sound(chunks)
  /\ \A c \in chunks : \E r \in mapped \ left : \A b \in Int : Covers(c, b) => b \in PagesOf(r)

\* What is read is read while the game is stopped, so at the instant.
Phases ==
  /\ phase \in {"Idle", "Listed", "Sent", "Posted"} => stored = {} /\ chunks = {}
  /\ phase = "Reading" => game = "stopped" /\ moment = Snapped
  /\ phase = "Described" =>
       steps # <<>> /\ Last.stored = stored /\ Last.chunks = chunks /\ ~Last.indexed

\* The capture in hand, and the step it became.
Told ==
  /\ phase \in {"Reading", "Read", "Described"} => Tells(stored, chunks, Base)
  /\ phase = "Idle" /\ steps # <<>> => Tells(Last.stored, Chunks(Len(steps)), Len(steps) - 1)

Faithful == Typed /\ SoundStore /\ SoundCapture /\ Phases /\ Told

LEMMA Sizes ==
  /\ Size \in Nat \ {0} /\ CHUNK \in Nat \ {0} /\ Addr \subseteq Nat \ {0}
BY RecorderAssumption DEF Addr

LEMMA AreaIs ==
  ASSUME NEW r \in Area
  PROVE  r.address \in Nat /\ r.size \in Nat \ {0} /\ r.address \in Addr
BY Sizes DEF Area

\* A chunk holds the words of its part of the range.
LEMMA ChunkIs ==
  ASSUME value \in [Addr -> Value], NEW r \in Area, PagesOf(r) \subseteq Addr,
         NEW x \in 0 .. r.size - 1, NEW y \in x + 1 .. r.size,
         NEW c, c = ChunkAt(r.address + x, SubSeq(Bytes(r), x + 1, y))
  PROVE  /\ c.address = r.address + x /\ c.address \in Addr
         /\ c.bytes \in Seq(Value) /\ Len(c.bytes) = y - x
         /\ \A b \in Int : Covers(c, b) =>
              b \in PagesOf(r) /\ c.bytes[b - c.address + 1] = value[b]
<1> DEFINE w == Bytes(r)
           u == SubSeq(w, x + 1, y)
<1>1. r.address \in Nat /\ r.size \in Nat \ {0}
  BY AreaIs
<1>2. ASSUME NEW k \in 1 .. r.size
      PROVE  r.address + k - 1 \in PagesOf(r)
  BY <1>1 DEF PagesOf
<1>3. \A k \in 1 .. r.size : w[k] = value[r.address + k - 1] /\ w[k] \in Value
  BY <1>1, <1>2 DEF Bytes
<1>4. u \in Seq(Value) /\ Len(u) = y - x /\ \A k \in 1 .. y - x : u[k] = w[x + k]
  <2>1. \A k \in x + 1 .. y : w[k] \in Value
    BY <1>1, <1>3
  <2>2. x + 1 \in Int /\ y \in Int /\ x + 1 <= y /\ y - (x + 1) + 1 = y - x
    BY <1>1
  <2>3. \A k \in 1 .. y - x : (x + 1) + k - 1 = x + k
    BY <1>1
  <2> HIDE DEF w
  <2>4. /\ u \in Seq(Value) /\ Len(u) = y - (x + 1) + 1
        /\ \A k \in 1 .. y - (x + 1) + 1 : u[k] = w[(x + 1) + k - 1]
    BY <2>1, <2>2, SubSeqProperties
  <2> QED
    BY <2>2, <2>3, <2>4
<1>5. c.address = r.address + x /\ c.bytes = u
  BY DEF ChunkAt
<1> HIDE DEF u, w
<1>6. c.address \in Addr
  <2>1. r.address + x \in PagesOf(r)
    BY <1>1 DEF PagesOf
  <2> QED
    BY <1>5, <2>1
<1>7. ASSUME NEW b \in Int, Covers(c, b)
      PROVE  b \in PagesOf(r) /\ c.bytes[b - c.address + 1] = value[b]
  <2>1. r.address + x <= b /\ b < r.address + x + (y - x)
    BY <1>1, <1>4, <1>5, <1>7 DEF Covers
  <2>2. b - c.address + 1 \in 1 .. y - x /\ x + (b - c.address + 1) = b - r.address + 1
        /\ b - r.address + 1 \in 1 .. r.size
    BY <1>1, <1>5, <2>1
  <2>3. r.address + (b - r.address + 1) - 1 = b
    BY <1>1
  <2>4. c.bytes[b - c.address + 1] = value[b]
    BY <1>3, <1>4, <1>5, <2>2, <2>3
  <2> QED
    BY <1>1, <2>1, <2>4 DEF PagesOf
<1> QED
  BY <1>4, <1>5, <1>6, <1>7

\* The chunks of a range: each holds its words, none overlaps another, and
\* together they cover it.
LEMMA ChunksOfIs ==
  ASSUME value \in [Addr -> Value], NEW r \in Area, PagesOf(r) \subseteq Addr,
         NEW C, C \in {ChunksOf(r), {ChunkAt(r.address, Bytes(r))}}
  PROVE  /\ \A c \in C : /\ c \in Chunk /\ Len(c.bytes) > 0
                         /\ \A b \in Int : Covers(c, b) =>
                              b \in PagesOf(r) /\ c.bytes[b - c.address + 1] = value[b]
         /\ Sound(C)
         /\ \A b \in PagesOf(r) : \E c \in C : Covers(c, b)
<1>1. r.address \in Nat /\ r.size \in Nat \ {0} /\ CHUNK \in Nat \ {0}
  BY AreaIs, Sizes
<1> DEFINE At0 == {k \in 0 .. r.size - 1 : k % CHUNK = 0}
           end(x) == Least(x + CHUNK, r.size)
           chunk(x) == ChunkAt(r.address + x, SubSeq(Bytes(r), x + 1, end(x)))
<1>2. CASE C = ChunksOf(r)
  <2>1. C = {chunk(x) : x \in At0}
    BY <1>2 DEF ChunksOf
  <2>2. ASSUME NEW x \in At0
        PROVE  /\ x \in Nat /\ x \in 0 .. r.size - 1 /\ x % CHUNK = 0
               /\ end(x) \in x + 1 .. r.size /\ end(x) \in Nat /\ end(x) <= x + CHUNK
               /\ end(x) = x + CHUNK \/ end(x) = r.size
    BY <1>1 DEF Least
  <2> HIDE DEF At0, end
  <2>3. ASSUME NEW x \in At0
        PROVE  /\ chunk(x).address = r.address + x /\ chunk(x).address \in Addr
               /\ chunk(x).bytes \in Seq(Value) /\ Len(chunk(x).bytes) = end(x) - x
               /\ \A b \in Int : Covers(chunk(x), b) =>
                    b \in PagesOf(r) /\ chunk(x).bytes[b - chunk(x).address + 1] = value[b]
    <3>1. x \in 0 .. r.size - 1 /\ end(x) \in x + 1 .. r.size
      BY <2>2
    <3>2. PICK c : c = chunk(x)
      OBVIOUS
    <3>3. c = ChunkAt(r.address + x, SubSeq(Bytes(r), x + 1, end(x)))
      BY <3>2
    <3> HIDE DEF chunk
    <3>4. /\ c.address = r.address + x /\ c.address \in Addr
          /\ c.bytes \in Seq(Value) /\ Len(c.bytes) = end(x) - x
          /\ \A b \in Int : Covers(c, b) =>
               b \in PagesOf(r) /\ c.bytes[b - c.address + 1] = value[b]
      BY <3>1, <3>3, ChunkIs
    <3> QED
      BY <3>2, <3>4
  <2>4. ASSUME NEW x \in At0
        PROVE  chunk(x) \in Chunk /\ Len(chunk(x).bytes) > 0
    <3>1. chunk(x) = [address |-> chunk(x).address, bytes |-> chunk(x).bytes]
      BY DEF ChunkAt
    <3>2. end(x) - x > 0
      BY <2>2
    <3> HIDE DEF chunk
    <3> QED
      BY <2>3, <3>1, <3>2
  <2> HIDE DEF chunk
  <2>5. ASSUME NEW x \in At0, NEW y \in At0, x < y
        PROVE  end(x) <= y
    BY <1>1, <2>2, <2>5, Multiples
  <2>6. ASSUME NEW x \in At0, NEW y \in At0, NEW b \in Int,
               Covers(chunk(x), b), Covers(chunk(y), b)
        PROVE  x = y
    <3>1. /\ r.address + x <= b /\ b < r.address + end(x)
          /\ r.address + y <= b /\ b < r.address + end(y)
      <4>1. ASSUME NEW z \in At0, Covers(chunk(z), b)
            PROVE  r.address + z <= b /\ b < r.address + end(z)
        <5>1. chunk(z).address <= b /\ b < chunk(z).address + Len(chunk(z).bytes)
          BY <4>1 DEF Covers
        <5>2. /\ chunk(z).address = r.address + z /\ Len(chunk(z).bytes) = end(z) - z
              /\ z \in Nat /\ end(z) \in Nat
          BY <2>2, <2>3
        <5> QED
          BY <1>1, <5>1, <5>2
      <4> QED
        BY <2>6, <4>1
    <3> QED
      BY <1>1, <2>2, <2>5, <3>1
  <2>7. ASSUME NEW b \in PagesOf(r)
        PROVE  \E x \in At0 : Covers(chunk(x), b)
    <3> DEFINE k == b - r.address
               x == k - (k % CHUNK)
    <3>1. k \in Nat /\ k < r.size /\ b \in Int /\ b = r.address + k
      BY <1>1 DEF PagesOf
    <3> HIDE DEF k
    <3>2. x \in Nat /\ x % CHUNK = 0 /\ k < x + CHUNK /\ x <= k
      BY <1>1, <3>1, RoundsDown
    <3> HIDE DEF x
    <3>3. x \in At0
      BY <1>1, <3>1, <3>2 DEF At0
    <3>4. k < end(x)
      BY <1>1, <2>2, <3>1, <3>2, <3>3
    <3>5. Covers(chunk(x), b)
      BY <1>1, <2>2, <2>3, <3>1, <3>2, <3>3, <3>4 DEF Covers
    <3> QED
      BY <3>3, <3>5
  <2>8. Sound(C)
    <3>1. \A c \in C : c.address \in Nat /\ c.bytes \in Seq(Value) /\ c.bytes # <<>>
      <4> SUFFICES ASSUME NEW c \in C
                   PROVE  c.address \in Nat /\ c.bytes \in Seq(Value) /\ c.bytes # <<>>
        OBVIOUS
      <4>1. c \in Chunk /\ Len(c.bytes) > 0
        BY <2>1, <2>4
      <4>2. c.address \in Nat
        BY <4>1, Sizes
      <4> QED
        BY <4>1, <4>2
    <3>2. \A c, d \in C : \A a \in Int : Covers(c, a) /\ Covers(d, a) => c = d
      BY <2>1, <2>6
    <3> QED
      BY <3>1, <3>2 DEF Sound
  <2> QED
    BY <2>1, <2>3, <2>4, <2>7, <2>8
<1>3. CASE C = {ChunkAt(r.address, Bytes(r))}
  <2> DEFINE c == ChunkAt(r.address, Bytes(r))
  <2>1. c.address = r.address /\ c.bytes = Bytes(r)
    BY DEF ChunkAt
  <2>2. Bytes(r) \in Seq(Value) /\ Len(Bytes(r)) = r.size
    <3>1. ASSUME NEW k \in 1 .. r.size
          PROVE  value[r.address + k - 1] \in Value
      BY <1>1 DEF PagesOf
    <3> QED
      BY <1>1, <3>1 DEF Bytes
  <2>3. c \in Chunk /\ Len(c.bytes) > 0
    BY <1>1, <2>1, <2>2, AreaIs DEF ChunkAt
  <2>4. ASSUME NEW b \in Int
        PROVE  /\ Covers(c, b) <=> b \in PagesOf(r)
               /\ Covers(c, b) => c.bytes[b - c.address + 1] = value[b]
    <3>1. Covers(c, b) <=> b \in PagesOf(r)
      BY <1>1, <2>1, <2>2 DEF Covers, PagesOf
    <3>2. ASSUME Covers(c, b)
          PROVE  c.bytes[b - c.address + 1] = value[b]
      <4>1. b - c.address + 1 \in 1 .. r.size /\ r.address + (b - c.address + 1) - 1 = b
        BY <1>1, <2>1, <2>2, <3>2 DEF Covers
      <4> QED
        BY <2>1, <4>1 DEF Bytes
    <3> QED
      BY <3>1, <3>2
  <2>5. PagesOf(r) \subseteq Int
    BY <1>1 DEF PagesOf
  <2> HIDE DEF c
  <2>6. C = {c}
    BY <1>3 DEF c
  <2>7. Sound(C)
    <3>1. c.address \in Nat /\ c.bytes # <<>> /\ c.bytes \in Seq(Value)
      BY <1>1, <2>1, <2>3
    <3> QED
      BY <2>6, <3>1 DEF Sound
  <2> QED
    BY <2>3, <2>4, <2>5, <2>6, <2>7
<1> QED
  BY <1>2, <1>3

\* What a range adds to the capture, read while the game is stopped.
LEMMA KeptIs ==
  ASSUME Faithful, phase = "Reading", NEW r \in left, \A a \in PagesOf(r) : Readable(a)
  PROVE  /\ \A c \in Kept(r) : /\ c \in Chunk
                               /\ \A b \in Int : Covers(c, b) =>
                                    b \in PagesOf(r) /\ c.bytes[b - c.address + 1] = moment[b]
         /\ Sound(Kept(r))
         /\ \A b \in PagesOf(r) :
              \/ \E c \in Kept(r) : Covers(c, b)
              \/ Has(Len(steps), b) /\ Word(Len(steps), b) = moment[b]
<1> DEFINE N == Len(steps)
<1>1. r \in Area /\ PagesOf(r) \subseteq Addr
  BY RecorderAssumption DEF Faithful, Typed
<1>2. value \in [Addr -> Value] /\ steps \in Seq(Step) /\ N \in Nat /\ SoundStore
  BY DEF Faithful, Typed
<1>3. ASSUME NEW b \in PagesOf(r)
      PROVE  moment[b] = value[b]
  <2>1. b \in Addr /\ Readable(b) /\ moment = Snapped
    BY <1>1 DEF Faithful, Phases
  <2> QED
    BY <2>1 DEF Snapped
<1>4. CASE steps = <<>>
  <2>1. Kept(r) = {ChunkAt(r.address, Bytes(r))}
    BY <1>4 DEF Kept
  <2> QED
    BY <1>1, <1>2, <1>3, <2>1, ChunksOfIs
<1>5. CASE steps # <<>>
  <2>1. Kept(r) = {c \in ChunksOf(r) : Served(N, c.address, Len(c.bytes)) # c.bytes}
    BY <1>5 DEF Kept
  <2>2. /\ \A c \in ChunksOf(r) : /\ c \in Chunk /\ Len(c.bytes) > 0
                                  /\ \A b \in Int : Covers(c, b) =>
                                       b \in PagesOf(r) /\ c.bytes[b - c.address + 1] = value[b]
        /\ Sound(ChunksOf(r))
        /\ \A b \in PagesOf(r) : \E c \in ChunksOf(r) : Covers(c, b)
    BY <1>1, <1>2, ChunksOfIs
  <2>3. Sound(Kept(r))
    BY <2>1, <2>2 DEF Sound
  <2>4. ASSUME NEW b \in PagesOf(r), NEW c \in ChunksOf(r), Covers(c, b), c \notin Kept(r)
        PROVE  Has(N, b) /\ Word(N, b) = moment[b]
    <3> DEFINE n == Len(c.bytes)
               x == c.address
    <3>1. c.bytes \in Seq(Value) /\ n \in Nat \ {0} /\ x \in Nat /\ b \in Int
      <4>1. c \in Chunk /\ Len(c.bytes) > 0
        BY <2>2, <2>4
      <4>2. c.address \in Addr /\ c.bytes \in Seq(Value) /\ Len(c.bytes) \in Nat
        BY <4>1
      <4>3. b \in Addr
        BY <1>1, <2>4
      <4>4. b \in Int /\ c.address \in Nat
        <5>1. b \in Int
          BY <4>3, Sizes
        <5>2. c.address \in Nat
          BY <4>2, Sizes
        <5> QED
          BY <5>1, <5>2
      <4>5. Len(c.bytes) > 0
        BY <4>1
      <4> QED
        BY <4>2, <4>4, <4>5
    <3>2. Served(N, x, n) = c.bytes /\ c.bytes # <<>>
      BY <2>1, <2>4, <3>1
    <3>3. Slice(N, x, n) = c.bytes
      <4>1. read_through(N, x, n) = c.bytes
        BY <3>2 DEF Served
      <4>2. N \in 0 .. Len(steps) /\ x \in Int /\ n \in Nat
        BY <1>2, <3>1
      <4> QED
        BY <1>2, <4>1, <4>2, ReadIsSlice
    <3>4. x <= b /\ b < x + n
      BY <2>4 DEF Covers
    <3> HIDE DEF N, n, x
    <3>5. /\ \A d \in x .. x + n - 1 : Has(N, d)
          /\ c.bytes = [k \in 1 .. n |-> Word(N, x + k - 1)]
      BY <3>1, <3>2, <3>3, SliceIs
    <3>6. b \in x .. x + n - 1 /\ b - x + 1 \in 1 .. n /\ x + (b - x + 1) - 1 = b
      BY <3>1, <3>4
    <3>7. Has(N, b) /\ c.bytes[b - x + 1] = Word(N, b)
      BY <3>5, <3>6
    <3>8. c.bytes[b - x + 1] = value[b]
      BY <2>2, <2>4, <3>1 DEF x
    <3> QED
      BY <1>3, <3>7, <3>8
  <2>5. \A c \in Kept(r) : c \in ChunksOf(r)
    BY <2>1
  <2> QED
    BY <1>3, <2>2, <2>3, <2>4, <2>5
<1> QED
  BY <1>4, <1>5

\* Where the chunks of a step and of the ones before it stay, so does what is read
\* of it.
LEMMA StoreStands ==
  ASSUME NEW j, \A k \in 1 .. j : Chunks(k)' = Chunks(k)
  PROVE  \A a : Has(j, a)' = Has(j, a) /\ Word(j, a)' = Word(j, a)
<1>1. \A a : \A k \in 1 .. j : chunk_at(k, a)' = chunk_at(k, a)
  BY DEF chunk_at
<1>2. \A a : Tops(j, a)' = Tops(j, a)
  BY <1>1 DEF Tops
<1>3. \A a : \A k \in 1 .. j : ByteAt(k, a)' = ByteAt(k, a)
  BY <1>1 DEF ByteAt
<1>4. \A a : Words(j, a)' = Words(j, a)
  BY <1>2, <1>3 DEF Words, Tops
<1> QED
  BY <1>2, <1>4 DEF Has, Word

(***************************************************************************)
(* Every step keeps the invariant.                                         *)
(***************************************************************************)
LEMMA InitFaithful == RecorderInit => Faithful
<1> SUFFICES ASSUME RecorderInit
             PROVE  Faithful
  OBVIOUS
<1>1. /\ layout \in Layouts /\ mapped = {} /\ left = {} /\ stored = {} /\ chunks = {}
      /\ steps = <<>> /\ phase = "Idle"
  BY DEF RecorderInit
<1>2. value \in [Addr -> Value]
  BY DEF RecorderInit
<1>3. Typed
  BY <1>1, <1>2 DEF Typed
<1>4. SoundStore /\ SoundCapture /\ Phases /\ Told
  BY <1>1 DEF SoundStore, SoundCapture, Sound, Phases, Told
<1> QED
  BY <1>3, <1>4 DEF Faithful

\* Steps that leave the recording and the capture as they are.
LEMMA QuietFaithful ==
  ASSUME Faithful, UNCHANGED <<mapped, left, stored, chunks, steps, moment>>,
         layout' \in Layouts, value' \in [Addr -> Value],
         \/ phase' = phase /\ (phase = "Reading" => UNCHANGED <<game, layout, value, bad>>)
         \/ phase = "Reading" /\ phase' = "Read"
         \/ phase \in {"Listed", "Sent"} /\ phase' \in {"Sent", "Posted"}
         \/ phase' = "Dead"
  PROVE  Faithful'
<1>1. Typed'
  BY DEF Faithful, Typed
<1>2. SoundStore' /\ SoundCapture'
  BY DEF Faithful, SoundStore, SoundCapture, Chunks
<1>3. Phases'
  BY DEF Faithful, Phases, Snapped, Readable, Last
<1>4. Told'
  <2>1. \A j, a : Has(j, a)' = Has(j, a) /\ Word(j, a)' = Word(j, a)
    BY StoreStands DEF Chunks
  <2>2. ASSUME NEW S, NEW C, NEW j
        PROVE  Tells(S, C, j)' = Tells(S, C, j)
    BY <2>1 DEF Tells
  <2>3. \A i : Chunks(i)' = Chunks(i)
    BY DEF Chunks
  <2>4. Told
    BY DEF Faithful
  <2>5. CASE phase' \in {"Reading", "Read", "Described"}
    <3>1. phase \in {"Reading", "Read", "Described"} /\ Base' = Base
      BY <2>5 DEF Base
    <3>2. Tells(stored, chunks, Base)
      BY <2>4, <3>1 DEF Told
    <3>3. Tells(stored, chunks, Base)'
      BY <2>1, <3>1, <3>2 DEF Tells
    <3> QED
      BY <2>5, <3>3 DEF Told
  <2>6. CASE phase' = "Idle"
    <3>1. phase = "Idle"
      BY <2>6
    <3>2. steps # <<>> => Tells(Last.stored, Chunks(Len(steps)), Len(steps) - 1)
      BY <2>4, <3>1 DEF Told
    <3>3. steps' # <<>> => Tells(Last.stored, Chunks(Len(steps)), Len(steps) - 1)'
      BY <2>1, <2>3, <3>2 DEF Tells, Last
    <3> QED
      BY <2>6, <3>3 DEF Told
  <2>7. CASE phase' \notin {"Reading", "Read", "Described", "Idle"}
    BY <2>7 DEF Told
  <2> QED
    BY <2>5, <2>6, <2>7
<1> QED
  BY <1>1, <1>2, <1>3, <1>4 DEF Faithful

\* A capture begins anew.
LEMMA ListFaithful ==
  ASSUME Faithful, List
  PROVE  Faithful'
<1>1. /\ phase' = "Listed" /\ mapped' = layout /\ left' = layout /\ stored' = {} /\ chunks' = {}
      /\ UNCHANGED <<layout, value, steps>>
  BY DEF List, gameVars
<1>2. Typed'
  BY <1>1 DEF Faithful, Typed
<1>3. SoundStore'
  BY <1>1 DEF Faithful, SoundStore, Chunks
<1>4. SoundCapture' /\ Phases' /\ Told'
  BY <1>1 DEF SoundCapture, Sound, Phases, Told
<1> QED
  BY <1>2, <1>3, <1>4 DEF Faithful

\* The instant: what is read from now on is the memory of it.
LEMMA ReportedFaithful ==
  ASSUME Faithful, Reported
  PROVE  Faithful'
<1>1. /\ phase = "Posted" /\ game = "stopped" /\ phase' = "Reading" /\ moment' = Snapped
      /\ UNCHANGED <<game, layout, value, bad, mapped, left, stored, chunks, steps>>
  BY DEF Reported, gameVars, writerVars
<1>2. stored = {} /\ chunks = {}
  BY <1>1 DEF Faithful, Phases
<1>3. Typed'
  BY <1>1 DEF Faithful, Typed
<1>4. SoundStore' /\ SoundCapture'
  BY <1>1 DEF Faithful, SoundStore, SoundCapture, Chunks
<1>5. Phases'
  BY <1>1 DEF Phases, Snapped, Readable
<1>6. Told'
  BY <1>1, <1>2 DEF Told, Tells
<1> QED
  BY <1>3, <1>4, <1>5, <1>6 DEF Faithful

\* A range: what it adds overlaps no other, and what the others say is not touched.
LEMMA ReadRangeFaithful ==
  ASSUME Faithful, NEW r \in left, ReadRange(r)
  PROVE  Faithful'
<1> DEFINE whole == \A a \in PagesOf(r) : Readable(a)
           s0 == [address |-> r.address, size |-> r.size, readable |-> whole]
           K == IF whole THEN Kept(r) ELSE {}
           N == Len(steps)
<1>1. /\ phase = "Reading" /\ left' = left \ {r}
      /\ stored' = stored \cup {s0} /\ chunks' = chunks \cup K
      /\ UNCHANGED <<game, layout, value, bad, phase, mapped, steps, moment>>
  BY DEF ReadRange, gameVars
<1>2. Typed /\ SoundStore /\ SoundCapture /\ Phases /\ Told
  BY DEF Faithful
<1>3. /\ r \in mapped /\ r \in Area /\ PagesOf(r) \subseteq Addr
      /\ \A q \in mapped : q # r => PagesOf(q) \cap PagesOf(r) = {}
  BY <1>2, RecorderAssumption DEF Typed
<1>4. /\ \A c \in K : /\ c \in Chunk
                      /\ \A b \in Int : Covers(c, b) =>
                           b \in PagesOf(r) /\ c.bytes[b - c.address + 1] = moment[b]
      /\ Sound(K)
      /\ whole => \A b \in PagesOf(r) :
                    (\E c \in K : Covers(c, b)) \/ (Has(N, b) /\ Word(N, b) = moment[b])
  <2>1. CASE whole
    BY <1>1, <2>1, KeptIs
  <2>2. CASE ~whole
    BY <2>2 DEF Sound
  <2> QED
    BY <2>1, <2>2
<1>5. s0 \in Stored
  BY <1>3, AreaIs DEF Stored, Area
<1> HIDE DEF K, s0, whole
<1>6. Typed'
  BY <1>1, <1>2, <1>4, <1>5 DEF Typed
<1>7. SoundStore'
  BY <1>1, <1>2 DEF SoundStore, Chunks
<1>8. SoundCapture'
  <2>1. ASSUME NEW c \in chunks, NEW d \in K, NEW b \in Int, Covers(c, b), Covers(d, b)
        PROVE  FALSE
    <3>1. PICK q \in mapped \ left : b \in PagesOf(q)
      BY <1>2, <2>1 DEF SoundCapture
    <3>2. q # r /\ b \in PagesOf(r)
      BY <1>4, <2>1
    <3> QED
      BY <1>3, <3>1, <3>2
  <2>2. Sound(chunks \cup K)
    BY <1>2, <1>4, <2>1 DEF Sound, SoundCapture
  <2>3. \A c \in chunks \cup K : \E q \in mapped \ (left \ {r}) :
          \A b \in Int : Covers(c, b) => b \in PagesOf(q)
    BY <1>2, <1>3, <1>4 DEF SoundCapture
  <2> QED
    BY <1>1, <2>2, <2>3 DEF SoundCapture
<1>9. Phases'
  BY <1>1, <1>2 DEF Phases, Snapped, Readable
<1>10. Told'
  <2>1. \A a : Has(N, a)' = Has(N, a) /\ Word(N, a)' = Word(N, a)
    BY <1>1, StoreStands DEF Chunks
  <2>2. Tells(stored, chunks, N) /\ Base = N /\ Base' = N
    BY <1>1, <1>2 DEF Told, Base
  <2>3. s0.readable = whole /\ PagesOf(s0) = PagesOf(r)
    BY DEF s0, PagesOf
  <2>4. /\ \A c \in chunks \cup K, b \in Int :
             Covers(c, b) => c.bytes[b - c.address + 1] = moment[b]
        /\ \A s \in stored \cup {s0} : s.readable => \A b \in PagesOf(s) :
             (\E c \in chunks \cup K : Covers(c, b)) \/ (Has(N, b) /\ Word(N, b) = moment[b])
    BY <1>4, <2>2, <2>3 DEF Tells
  <2>5. Tells(stored, chunks, Base)'
    BY <1>1, <2>1, <2>2, <2>4 DEF Tells
  <2> QED
    BY <1>1, <2>5 DEF Told
<1> QED
  BY <1>6, <1>7, <1>8, <1>9, <1>10 DEF Faithful

\* The manifest makes it a step, whose index reads as empty: the steps before it
\* are the base it was made against.
LEMMA DescribeFaithful ==
  ASSUME Faithful, Describe
  PROVE  Faithful'
<1>0. PICK e : e = [stored |-> stored, chunks |-> chunks, indexed |-> FALSE]
  OBVIOUS
<1>1. /\ phase = "Read" /\ phase' = "Described" /\ steps' = Append(steps, e)
      /\ UNCHANGED <<layout, value, mapped, left, stored, chunks, moment>>
  BY <1>0 DEF Describe, gameVars, writerVars
<1>2. Typed /\ SoundStore /\ SoundCapture /\ Told
  BY DEF Faithful
<1>3. PICK N \in Nat : N = Len(steps)
  BY <1>2 DEF Typed
<1>11. /\ e \in Step /\ steps \in Seq(Step)
      /\ e.stored = stored /\ e.chunks = chunks /\ ~e.indexed
  BY <1>0, <1>2 DEF Typed, Step
<1>4. /\ steps' \in Seq(Step) /\ Len(steps') = N + 1 /\ steps'[N + 1] = e
      /\ \A k \in 1 .. N : steps'[k] = steps[k]
  BY <1>1, <1>3, <1>11
<1>5. (\A k \in 1 .. N : Chunks(k)' = Chunks(k)) /\ Chunks(N + 1)' = {}
  BY <1>4, <1>11 DEF Chunks
<1>6. Typed'
  BY <1>1, <1>2, <1>4 DEF Typed
<1>7. SoundStore'
  <2>1. \A k \in 1 .. N : Sound(Chunks(k)')
    BY <1>2, <1>3, <1>5 DEF SoundStore
  <2>2. Sound(Chunks(N + 1)')
    BY <1>5 DEF Sound
  <2>3. \A k \in 1 .. N + 1 : k \in 1 .. N \/ k = N + 1
    BY <1>3
  <2>4. \A k \in 1 .. N + 1 : Sound(Chunks(k)')
    BY <2>1, <2>2, <2>3
  <2>5. \A k \in 1 .. N + 1 : Sound(Chunks(k))'
    BY <2>4 DEF Sound, Covers
  <2> QED
    BY <1>4, <2>5 DEF SoundStore
<1>8. SoundCapture'
  BY <1>1, <1>2 DEF SoundCapture
<1>9. Phases'
  <2>1. Last' = e
    BY <1>4 DEF Last
  <2>2. steps' # <<>>
    BY <1>3, <1>4
  <2> QED
    BY <1>1, <1>11, <2>1, <2>2 DEF Phases
<1>12. Told'
  <2>1. \A a : Has(N, a)' = Has(N, a) /\ Word(N, a)' = Word(N, a)
    BY <1>5, StoreStands
  <2>2. Tells(stored, chunks, N) /\ Base' = N
    BY <1>1, <1>2, <1>3, <1>4 DEF Told, Base
  <2> QED
    BY <1>1, <2>1, <2>2 DEF Told, Tells
<1> QED
  BY <1>6, <1>7, <1>8, <1>9, <1>12 DEF Faithful

\* The index gives the last step its chunks, and no other step changes.
LEMMA IndexFaithful ==
  ASSUME Faithful, Index
  PROVE  Faithful'
<1>1. /\ phase = "Described" /\ phase' = "Idle"
      /\ steps' = [steps EXCEPT ![Len(steps)].indexed = TRUE]
      /\ mapped' = {} /\ left' = {} /\ stored' = {} /\ chunks' = {}
      /\ UNCHANGED <<layout, value, moment>>
  BY DEF Index, gameVars
<1>2. Typed /\ SoundStore /\ SoundCapture /\ Phases /\ Told
  BY DEF Faithful
<1>3. PICK N \in Nat \ {0} : N = Len(steps)
  BY <1>1, <1>2 DEF Phases, Typed
<1>4. /\ steps \in Seq(Step) /\ steps[N] \in Step
      /\ steps[N].stored = stored /\ steps[N].chunks = chunks
  BY <1>1, <1>2, <1>3 DEF Phases, Typed, Last
<1>5. /\ steps' \in Seq(Step) /\ Len(steps') = N
      /\ \A k \in 1 .. N - 1 : steps'[k] = steps[k]
      /\ steps'[N] = [steps[N] EXCEPT !.indexed = TRUE]
  <2>1. [steps[N] EXCEPT !.indexed = TRUE] \in Step
    BY <1>4 DEF Step
  <2>2. PICK f \in Step : f = [steps[N] EXCEPT !.indexed = TRUE]
    BY <2>1
  <2>3. steps' = [steps EXCEPT ![N] = f]
    BY <1>1, <1>3, <2>2
  <2>4. N \in 1 .. Len(steps)
    BY <1>3
  <2>5. steps' \in Seq(Step) /\ Len(steps') = N /\ steps'[N] = f
    BY <1>3, <1>4, <2>3, <2>4
  <2>6. \A k \in 1 .. N - 1 : steps'[k] = steps[k]
    BY <1>3, <1>4, <2>3
  <2> QED
    BY <2>2, <2>5, <2>6
<1>6. steps'[N].stored = stored /\ steps'[N].chunks = chunks /\ steps'[N].indexed
  BY <1>4, <1>5 DEF Step
<1>7. (\A k \in 1 .. N - 1 : Chunks(k)' = Chunks(k)) /\ Chunks(N)' = chunks
  BY <1>5, <1>6 DEF Chunks
<1>8. Typed'
  BY <1>1, <1>2, <1>5 DEF Typed
<1>9. SoundStore'
  <2>1. \A k \in 1 .. N - 1 : Sound(Chunks(k)')
    BY <1>2, <1>3, <1>7 DEF SoundStore
  <2>2. Sound(Chunks(N)')
    BY <1>2, <1>7 DEF SoundCapture
  <2>3. \A k \in 1 .. N : k \in 1 .. N - 1 \/ k = N
    BY <1>3
  <2>4. \A k \in 1 .. N : Sound(Chunks(k)')
    BY <2>1, <2>2, <2>3
  <2>5. \A k \in 1 .. N : Sound(Chunks(k))'
    BY <2>4 DEF Sound, Covers
  <2> QED
    BY <1>5, <2>5 DEF SoundStore
<1>10. SoundCapture' /\ Phases'
  BY <1>1 DEF SoundCapture, Sound, Phases
<1>11. Told'
  <2>1. \A a : Has(N - 1, a)' = Has(N - 1, a) /\ Word(N - 1, a)' = Word(N - 1, a)
    BY <1>7, StoreStands
  <2>2. Tells(stored, chunks, N - 1)
    BY <1>1, <1>2, <1>3 DEF Told, Base
  <2>3. Last.stored' = stored /\ Chunks(Len(steps))' = chunks /\ (Len(steps) - 1)' = N - 1
    BY <1>3, <1>5, <1>6, <1>7 DEF Last, Chunks
  <2>4. Tells(Last.stored, Chunks(Len(steps)), Len(steps) - 1)'
    BY <1>1, <2>1, <2>2, <2>3 DEF Tells
  <2> QED
    BY <1>1, <2>4 DEF Told
<1> QED
  BY <1>8, <1>9, <1>10, <1>11 DEF Faithful

LEMMA NextFaithful == Faithful /\ [RecorderNext]_recorderVars => Faithful'
<1> SUFFICES ASSUME Faithful, [RecorderNext]_recorderVars
             PROVE  Faithful'
  OBVIOUS
<1>1. layout \in Layouts /\ value \in [Addr -> Value]
  BY DEF Faithful, Typed
<1> USE DEF gameVars, writerVars
<1>2. CASE GameNext
  <2>1. phase # "Reading"
    BY <1>2 DEF GameNext, Alter, Stopped, Exit, Faithful, Phases
  <2>2. UNCHANGED <<phase, mapped, left, stored, chunks, steps, moment>>
    BY <1>2 DEF GameNext, Alter, Stopped, Exit, recorderUnchanged
  <2>3. layout' \in Layouts /\ value' \in [Addr -> Value]
    BY <1>1, <1>2 DEF GameNext, Alter, Stopped, Exit
  <2> QED
    BY <2>1, <2>2, <2>3, QuietFaithful
<1>3. CASE List
  BY <1>3, ListFaithful
<1>4. CASE SendStop \/ NotePid \/ Disappeared \/ TimedOut
  BY <1>1, <1>4, QuietFaithful DEF SendStop, NotePid, Disappeared, TimedOut
<1>5. CASE Reported
  BY <1>5, ReportedFaithful
<1>6. ASSUME NEW r \in left, ReadRange(r)
      PROVE  Faithful'
  BY <1>6, ReadRangeFaithful
<1>7. CASE EndReading \/ WriteFails \/ Interrupt \/ Kill
  BY <1>1, <1>7, QuietFaithful DEF EndReading, WriteFails, Resume, Interrupt, Kill
<1>8. CASE Describe
  BY <1>8, DescribeFaithful
<1>9. CASE Index
  BY <1>9, IndexFaithful
<1>10. CASE UNCHANGED recorderVars
  BY <1>1, <1>10, QuietFaithful DEF recorderVars
<1> QED
  BY <1>2, <1>3, <1>4, <1>5, <1>6, <1>7, <1>8, <1>9, <1>10 DEF RecorderNext, take

\* A read inside a range that was read finds each word in the step's own chunks or
\* in its base, and either way as it was at the instant.
LEMMA FaithfulIsKept == Faithful => InstantIsKept
<1> SUFFICES ASSUME Faithful, phase = "Idle", steps # <<>>,
                    NEW a \in Addr, NEW n \in 1 .. Size + 1 - a
             PROVE  Served(Len(steps), a, n) =
                      IF Contained(Len(steps), a, n) THEN [k \in 1 .. n |-> moment[a + k - 1]]
                                                     ELSE <<>>
  BY DEF InstantIsKept
<1> DEFINE N == Len(steps)
<1>1. /\ steps \in Seq(Step) /\ N \in Nat \ {0} /\ SoundStore
      /\ Tells(Last.stored, Chunks(N), N - 1)
  BY DEF Faithful, Typed, Told
<1>2. a \in Nat /\ n \in Nat \ {0}
  BY Sizes DEF Addr
<1>3. ASSUME Contained(N, a, n)
      PROVE  read_through(N, a, n) = [k \in 1 .. n |-> moment[a + k - 1]]
  <2>1. PICK s \in Last.stored : s.address <= a /\ s.readable /\ a + n <= s.address + s.size
    BY <1>3 DEF Contained, Last
  <2>2. s.address \in Nat /\ s.size \in Nat
    <3>1. Last \in Step
      BY <1>1 DEF Last
    <3>2. s \in Stored
      BY <2>1, <3>1 DEF Step
    <3> QED
      BY <3>2, Sizes DEF Stored
  <2>3. ASSUME NEW b \in a .. a + n - 1
        PROVE  Has(N, b) /\ Word(N, b) = moment[b]
    <3>1. b \in PagesOf(s) /\ b \in Int
      BY <1>2, <2>1, <2>2 DEF PagesOf
    <3>2. \/ \E c \in Chunks(N) : Covers(c, b)
          \/ Has(N - 1, b) /\ Word(N - 1, b) = moment[b]
      BY <1>1, <2>1, <3>1 DEF Tells
    <3>3. \A c \in chunk_at(N, b) : c.bytes[b - c.address + 1] = moment[b]
      BY <1>1, <3>1 DEF Tells, chunk_at, Covers
    <3>4. CASE chunk_at(N, b) # {}
      <4>1. ByteAt(N, b) = moment[b]
        BY <3>3, <3>4 DEF ByteAt
      <4> QED
        BY <1>1, <3>4, <4>1, TopsStep
    <3>5. CASE chunk_at(N, b) = {}
      <4>1. ~ \E c \in Chunks(N) : Covers(c, b)
        BY <3>5 DEF chunk_at, Covers
      <4> QED
        BY <1>1, <3>2, <3>5, <4>1, TopsStep
    <3> QED
      BY <3>4, <3>5
  <2>4. Slice(N, a, n) = [k \in 1 .. n |-> moment[a + k - 1]]
    <3>1. Slice(N, a, n) = [k \in 1 .. n |-> Word(N, a + k - 1)]
      <4>1. \A b \in a .. a + n - 1 : Has(N, b)
        BY <2>3
      <4> HIDE DEF N
      <4> QED
        BY <1>2, <4>1 DEF Slice
    <3>2. \A k \in 1 .. n : a + k - 1 \in a .. a + n - 1
      BY <1>2
    <3> QED
      BY <2>3, <3>1, <3>2
  <2> HIDE DEF N
  <2>5. N \in 0 .. Len(steps) /\ a \in Int /\ n \in Nat
    BY <1>1, <1>2 DEF N
  <2>6. Len(steps) \in Nat
    BY <1>1 DEF N
  <2> QED
    BY <1>1, <2>4, <2>5, <2>6, ReadIsSlice
<1> QED
  BY <1>3 DEF Served

\* A recorded step, read through however many steps it was made against, is the
\* game's memory at the one instant it was reported as stopped, for a memory, a
\* chunk and a recording of any size and whatever the game changes in between.
THEOREM TheInstantIsKept == RecorderSpec => []InstantIsKept
BY InitFaithful, NextFaithful, FaithfulIsKept, PTL DEF RecorderSpec

(***************************************************************************)
(* Types of the recorder, among them that of every range that was listed   *)
(* it is written what became of it: one entry for each that was read.      *)
(***************************************************************************)
Accounted ==
  /\ IsFiniteSet(stored)
  /\ \A s \in stored : \E q \in mapped \ left : s.address = q.address
  /\ Cardinality(stored) = Cardinality(mapped \ left)

\* A step that was begun has a place in the recording.
Room ==
  /\ Len(steps) <= MAX_STEPS
  /\ phase \in {"Listed", "Sent", "Posted", "Reading", "Read"} => Len(steps) < MAX_STEPS

Plain ==
  /\ game \in {"running", "posted", "stopped", "gone"}
  /\ bad \in Addr \cup {0} /\ changes \in 0 .. MaxChanges
  /\ FROZEN \in BOOLEAN /\ stranded \in {"none"} \cup WaysOut
  /\ phase \in {"Idle", "Listed", "Sent", "Posted", "Reading", "Read", "Described", "Dead"}
  /\ moment \in Memory

\* Ranges of a layout lie apart, so they begin apart, and there are finitely many.
LEMMA RangesDiffer ==
  ASSUME NEW L \in Layouts \cup {{}}
  PROVE  /\ \A q, r \in L : q.address = r.address => q = r
         /\ IsFiniteSet(L)
<1>1. ASSUME NEW q \in L, NEW r \in L, q.address = r.address
      PROVE  q = r
  <2>1. q \in Area /\ r \in Area /\ (q # r => PagesOf(q) \cap PagesOf(r) = {})
    BY RecorderAssumption
  <2>2. q.address \in PagesOf(q) /\ q.address \in PagesOf(r)
    BY <1>1, <2>1, AreaIs DEF PagesOf
  <2> QED
    BY <2>1, <2>2
<1>2. IsFiniteSet(L)
  <2> DEFINE f == [r \in L |-> r.address]
  <2>1. \A r \in L : r.address \in Addr
    BY RecorderAssumption, AreaIs
  <2>2. f \in Injection(L, Addr)
    BY <1>1, <2>1 DEF Injection, IsInjective
  <2>3. IsFiniteSet(Addr)
    BY Sizes, FS_Interval DEF Addr
  <2> QED
    BY <2>2, <2>3, FS_Injection
<1> QED
  BY <1>1, <1>2

LEMMA NextAccounted ==
  ASSUME Faithful, Accounted, [RecorderNext]_recorderVars
  PROVE  Accounted'
<1>1. mapped \in Layouts \cup {{}} /\ left \subseteq mapped
  BY DEF Faithful, Typed
<1>2. CASE UNCHANGED <<mapped, left, stored>>
  BY <1>2 DEF Accounted
<1>3. CASE stored' = {} /\ mapped' = left'
  <2>1. mapped' \ left' = {}
    BY <1>3
  <2> QED
    BY <1>3, <2>1, FS_EmptySet DEF Accounted
<1>4. ASSUME NEW r \in left, ReadRange(r)
      PROVE  Accounted'
  <2>1. PICK s : /\ stored' = stored \cup {s} /\ s.address = r.address
                 /\ left' = left \ {r} /\ mapped' = mapped
    BY <1>4 DEF ReadRange
  <2>2. mapped' \ left' = (mapped \ left) \cup {r} /\ r \notin mapped \ left /\ r \in mapped
    BY <1>1, <2>1
  <2>3. s \notin stored
    BY <1>1, <2>1, <2>2, RangesDiffer DEF Accounted
  <2>4. IsFiniteSet(mapped \ left)
    BY <1>1, RangesDiffer, FS_Subset
  <2>5. /\ IsFiniteSet(stored') /\ Cardinality(stored') = Cardinality(stored) + 1
        /\ Cardinality(mapped' \ left') = Cardinality(mapped \ left) + 1
    <3>1. IsFiniteSet(stored)
      BY DEF Accounted
    <3>2. /\ IsFiniteSet(stored \cup {s})
          /\ Cardinality(stored \cup {s}) = Cardinality(stored) + 1
      BY <2>3, <3>1, FS_AddElement
    <3>3. Cardinality((mapped \ left) \cup {r}) = Cardinality(mapped \ left) + 1
      BY <2>2, <2>4, FS_AddElement
    <3> QED
      BY <2>1, <2>2, <3>2, <3>3
  <2>6. \A t \in stored' : \E q \in mapped' \ left' : t.address = q.address
    BY <2>1, <2>2 DEF Accounted
  <2> QED
    BY <2>5, <2>6 DEF Accounted
<1>5. CASE \E r \in left : ReadRange(r)
  BY <1>4, <1>5
<1>6. \/ UNCHANGED <<mapped, left, stored>> \/ (stored' = {} /\ mapped' = left')
      \/ \E r \in left : ReadRange(r)
  BY DEF RecorderNext, GameNext, Alter, Stopped, Exit, recorderUnchanged, take, List, SendStop,
         NotePid, Reported, Disappeared, EndReading, Describe, Index, TimedOut, WriteFails, Resume,
         Interrupt, Kill, gameVars, writerVars, recorderVars
<1> QED
  BY <1>2, <1>3, <1>5, <1>6

LEMMA NextRoom ==
  ASSUME Faithful, Room, [RecorderNext]_recorderVars
  PROVE  Room'
<1>1. steps \in Seq(Step) /\ Len(steps) \in Nat /\ MAX_STEPS \in Nat
  BY RecorderAssumption DEF Faithful, Typed
<1>2. CASE Describe
  <2>1. Len(steps) < MAX_STEPS /\ Len(steps') = Len(steps) + 1 /\ phase' = "Described"
    BY <1>1, <1>2 DEF Describe, Room
  <2> QED
    BY <1>1, <2>1 DEF Room
<1>3. CASE Index
  <2>1. Len(steps') = Len(steps) /\ phase' = "Idle"
    BY <1>1, <1>3 DEF Index
  <2> QED
    BY <2>1 DEF Room
<1>4. CASE List
  BY <1>1, <1>4 DEF List, Room
<1>5. CASE steps' = steps /\ (phase' \in {"Listed", "Sent", "Posted", "Reading", "Read"} =>
                                 phase \in {"Listed", "Sent", "Posted", "Reading", "Read"})
  BY <1>5 DEF Room
<1>6. \/ Describe \/ Index \/ List
      \/ steps' = steps /\ (phase' \in {"Listed", "Sent", "Posted", "Reading", "Read"} =>
                              phase \in {"Listed", "Sent", "Posted", "Reading", "Read"})
  BY DEF RecorderNext, GameNext, Alter, Stopped, Exit, recorderUnchanged, take, SendStop,
         NotePid, Reported, ReadRange, Disappeared, EndReading, TimedOut, WriteFails, Resume,
         Interrupt, Kill, recorderVars
<1> QED
  BY <1>2, <1>3, <1>4, <1>5, <1>6

LEMMA NextPlain ==
  ASSUME Faithful, Plain, [RecorderNext]_recorderVars
  PROVE  Plain'
<1> USE DEF Plain
<1>1. bad' \in Addr \cup {0} /\ changes' \in 0 .. MaxChanges
  <2>1. changes' = changes \/ (changes < MaxChanges /\ changes' = changes + 1)
    BY DEF RecorderNext, GameNext, Alter, Stopped, Exit, take, List, SendStop, NotePid, Reported,
           Disappeared, ReadRange, EndReading, Describe, Index, TimedOut, WriteFails, Resume,
           Interrupt, Kill, gameVars, recorderVars
  <2>2. bad' = bad \/ bad' \in Addr \cup {0}
    BY DEF RecorderNext, GameNext, Alter, Stopped, Exit, take, List, SendStop, NotePid, Reported,
           Disappeared, ReadRange, EndReading, Describe, Index, TimedOut, WriteFails, Resume,
           Interrupt, Kill, gameVars, recorderVars
  <2>3. changes' \in 0 .. MaxChanges
    BY <2>1, RecorderAssumption
  <2> QED
    BY <2>2, <2>3
<1>2. /\ game' \in {"running", "posted", "stopped", "gone"}
      /\ phase' \in {"Idle", "Listed", "Sent", "Posted", "Reading", "Read", "Described", "Dead"}
  BY DEF RecorderNext, GameNext, Alter, Stopped, Exit, recorderUnchanged, take, List, SendStop,
         NotePid, Reported, Disappeared, ReadRange, EndReading, Describe, Index, TimedOut,
         WriteFails, Resume, Continued, Interrupt, Kill, gameVars, recorderVars
<1>3. FROZEN' \in BOOLEAN
  BY Zenon DEF RecorderNext, GameNext, Alter, Stopped, Exit, recorderUnchanged, take, List,
         SendStop, NotePid, Reported, Disappeared, ReadRange, EndReading, Describe, Index,
         TimedOut, WriteFails, Resume, Interrupt, Kill, gameVars, recorderVars
<1>4. moment' \in Memory
  <2>1. Snapped \in Memory
    BY DEF Faithful, Typed, Snapped, Memory
  <2>2. moment' = moment \/ moment' = Snapped
    BY DEF RecorderNext, GameNext, Alter, Stopped, Exit, recorderUnchanged, take, List, SendStop,
           NotePid, Reported, Disappeared, ReadRange, EndReading, Describe, Index, TimedOut,
           WriteFails, Resume, Interrupt, Kill, recorderVars
  <2> QED
    BY <2>1, <2>2
<1>5. stranded' \in {"none"} \cup WaysOut
  BY DEF RecorderNext, GameNext, Alter, Stopped, Exit, recorderUnchanged, take, List, SendStop,
         NotePid, Reported, Disappeared, ReadRange, EndReading, Describe, Index, TimedOut,
         WriteFails, Resume, Interrupt, Kill, WaysOut, recorderVars
<1> QED
  BY <1>1, <1>2, <1>3, <1>4, <1>5

LEMMA AccountedTypes == Faithful /\ Accounted /\ Room /\ Plain => RecorderTypeOK
<1> SUFFICES ASSUME Faithful, Accounted, Room, Plain
             PROVE  RecorderTypeOK
  OBVIOUS
<1>1. Typed
  BY DEF Faithful
<1>2. mapped \subseteq Area
  BY <1>1, RecorderAssumption DEF Typed
<1>3. \A i \in 1 .. Len(steps) : steps[i].stored \subseteq Stored /\ steps[i].indexed \in BOOLEAN
  <2>1. \A i \in 1 .. Len(steps) : steps[i] \in Step
    BY <1>1 DEF Typed
  <2> QED
    BY <2>1 DEF Step
<1> QED
  BY <1>1, <1>2, <1>3 DEF Typed, Accounted, Room, Plain, RecorderTypeOK

\* Every state of the recorder keeps its type: no recording outgrows its steps,
\* and a capture says of every range that was listed and read what became of it,
\* also of one that could not be read.
THEOREM RecorderTypeCorrect == RecorderSpec => []RecorderTypeOK
<1>1. RecorderInit => Accounted /\ Room /\ Plain
  <2> SUFFICES ASSUME RecorderInit
               PROVE  Accounted /\ Room /\ Plain
    OBVIOUS
  <2>1. stored = {} /\ mapped \ left = {} /\ Len(steps) = 0 /\ phase = "Idle"
    BY DEF RecorderInit
  <2>2. Accounted
    BY <2>1, FS_EmptySet DEF Accounted
  <2>3. Room
    BY <2>1, RecorderAssumption DEF Room
  <2>4. Plain
    <3>1. 0 \in 0 .. MaxChanges
      BY RecorderAssumption
    <3>2. [a \in Addr |-> NoValue] \in Memory
      BY DEF Memory
    <3> QED
      BY <3>1, <3>2 DEF RecorderInit, Plain
  <2> QED
    BY <2>2, <2>3, <2>4
<1> QED
  BY <1>1, InitFaithful, NextFaithful, NextAccounted, NextRoom, NextPlain, AccountedTypes, PTL
     DEF RecorderSpec
=============================================================================
