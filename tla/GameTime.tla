------------------------------ MODULE GameTime ------------------------------
(***************************************************************************)
(* The game's clock and the game time pushed at the host: Clock and        *)
(* GameTime of src/src/clock.rs, driven tick by tick the way `watch` and   *)
(* the container scan drive them.                                          *)
(*                                                                         *)
(* Time is counted in parts: S of them to a game tick, so that             *)
(* TickProgressService.Progress is the number of parts elapsed in the      *)
(* current tick, and a fractional day d is d * DayLength parts.  The game  *)
(* runs while the splitter reads its fields one after another.             *)
(***************************************************************************)
EXTENDS Integers

CONSTANTS
  Daytime,        \* ticks by day ...
  Nighttime,      \* ... and by night
  S,              \* parts in a tick
  NewGame,        \* where a new game's clock starts, in parts
  Saves,          \* where a saved game's clock may stand, in parts
  MaxNow,         \* bound: the latest moment a clock reaches
  MaxScenes,      \* bound: scenes loaded
  RawProgress,    \* what Progress may read as instead of its own value
  TogetherFilled, \* both length constants are filled in at once
  StartSetting    \* Settings.start

ASSUME GameTimeAssumption ==
  /\ Daytime \in Nat \ {0} /\ Nighttime \in Nat \ {0} /\ S \in Nat \ {0}
  /\ MaxNow \in Nat /\ MaxScenes \in Nat
  /\ NewGame \in 0 .. MaxNow /\ Saves \subseteq 0 .. MaxNow
  /\ RawProgress \subseteq Int
  /\ TogetherFilled \in BOOLEAN /\ StartSetting \in BOOLEAN

VARIABLES
  now,        \* the game's own clock
  filled,     \* which length constants read as non-zero
  scenes,     \* scenes loaded so far
  startDue,   \* this game's overlay is still to come
  readable,   \* the clock object answers reads
  pc,         \* where the task is: scan, poll, or one of the reads
  goal,       \* what the reading is for: a baseline or a push
  dayRead,    \* day_number, in the reading under way
  ticksRead,  \* _ticksPassedToday, likewise
  perDay,     \* Clock.ticks_per_day, 0 before it is known
  baseline,   \* GameTime.baseline, NoDay when it is None
  paused,     \* GameTime.paused
  warned,     \* GameTime.warned_lost
  timer,      \* the host's timer ...
  hostTime,   \* ... and its game time, NoDay before the first push
  entered,    \* history: the clock when the reading under way began
  seen,       \* history: a run start was seen since the last reset
  zero        \* history: the clock at the last run start, NoDay if unsure

gameVars == <<now, filled, scenes, startDue, readable>>
readVars == <<pc, goal, dayRead, ticksRead, perDay, entered>>
pushVars == <<baseline, paused, warned, timer, hostTime, seen, zero>>
vars     == <<gameVars, readVars, pushVars>>

TicksPerDay == Daytime + Nighttime
DayLength   == TicksPerDay * S
NoDay       == -1

DayOf(n)   == n \div DayLength
TicksOf(n) == (n \div S) % TicksPerDay
PartOf(n)  == n % S

TypeOK ==
  /\ now \in 0 .. MaxNow
  /\ filled \subseteq {"day", "night"}
  /\ scenes \in 0 .. MaxScenes
  /\ startDue \in BOOLEAN /\ readable \in BOOLEAN
  /\ pc \in {"scan", "poll", "day", "ticks", "progress"}
  /\ goal \in {"baseline", "push"}
  /\ dayRead \in Nat /\ ticksRead \in 0 .. TicksPerDay - 1
  /\ perDay \in {0, Daytime, Nighttime, TicksPerDay}
  /\ baseline \in Nat \cup {NoDay}
  /\ paused \in BOOLEAN /\ warned \in BOOLEAN
  /\ timer \in {"NotRunning", "Running"}
  /\ hostTime \in Nat \cup {NoDay}
  /\ entered \in 0 .. MaxNow
  /\ seen \in BOOLEAN
  /\ zero \in Nat \cup {NoDay}

Init ==
  /\ now \in {NewGame} \cup Saves
  /\ filled = {} /\ scenes = 0 /\ readable = TRUE
  /\ startDue = (now = NewGame)
  /\ pc = "scan" /\ goal = "push"
  /\ dayRead = 0 /\ ticksRead = 0 /\ perDay = 0
  /\ baseline = NoDay /\ paused = FALSE /\ warned = FALSE
  /\ timer \in {"NotRunning", "Running"} /\ hostTime = NoDay
  /\ entered = 0 /\ seen = FALSE /\ zero = NoDay

(***************************************************************************)
(* The game.                                                               *)
(***************************************************************************)
\* The length constants read as zero until the game has loaded them.
FillLengths ==
  /\ \E f \in IF TogetherFilled THEN {{"day", "night"}} ELSE {{"day"}, {"night"}} :
       /\ ~(f \subseteq filled)
       /\ filled' = filled \cup f
  /\ UNCHANGED <<now, scenes, startDue, readable, readVars, pushVars>>

Flow ==
  /\ filled = {"day", "night"} /\ now < MaxNow
  /\ now' = now + 1
  /\ UNCHANGED <<filled, scenes, startDue, readable, readVars, pushVars>>

\* The clock stops answering, or answers again.
Readability ==
  /\ readable' = ~readable
  /\ UNCHANGED <<now, filled, scenes, startDue, readVars, pushVars>>

(***************************************************************************)
(* Clock::read: the day number, then the lengths if they are still wanted, *)
(* then the tick count, then the progress within that tick.                *)
(***************************************************************************)
Min2(a, b) == IF a < b THEN a ELSE b
Max2(a, b) == IF a > b THEN a ELSE b

\* The progress is held within the tick it is read in.
Clamp(v) == Max2(0, Min2(S, v))

LengthNow == (IF "day" \in filled THEN Daytime ELSE 0)
           + (IF "night" \in filled THEN Nighttime ELSE 0)

\* The fractional day made of one reading's parts.
Assemble(day, ticks, part, length) ==
  day * DayLength + ((ticks * S + part) * TicksPerDay) \div length

ReadDay ==
  /\ pc = "day" /\ readable
  /\ dayRead' = DayOf(now)
  /\ entered' = now
  /\ perDay' = IF perDay # 0 THEN perDay ELSE LengthNow
  /\ pc' = "ticks"
  /\ UNCHANGED <<goal, ticksRead, gameVars, pushVars>>

\* Mutant of ReadTicks: the ticks are read before the day.
ReadTicks_BeforeDay ==
  /\ pc = "ticks" /\ readable /\ perDay # 0
  /\ ticksRead' = TicksOf(entered)
  /\ dayRead' = DayOf(now)
  /\ pc' = "progress"
  /\ UNCHANGED <<goal, perDay, entered, gameVars, pushVars>>

ReadTicks ==
  /\ pc = "ticks" /\ readable /\ perDay # 0
  /\ ticksRead' = TicksOf(now)
  /\ pc' = "progress"
  /\ UNCHANGED <<goal, dayRead, perDay, entered, gameVars, pushVars>>

\* Mutant of Progress: the value is trusted.
Progress_Unclamped == {PartOf(now)} \cup RawProgress

\* What the last read contributes; 0 also stands for an unreadable or NaN one.
Progress == {Clamp(v) : v \in {PartOf(now)} \cup RawProgress}

(***************************************************************************)
(* GameTime::begin and update.                                             *)
(***************************************************************************)
\* start_timer
StartTimer ==
  /\ timer' = IF StartSetting THEN "Running" ELSE timer
  /\ seen' = TRUE

\* Mutant of Begin: a baseline that was taken once is kept.
Begin_Keeps(day) ==
  /\ baseline' = IF day = NoDay THEN baseline ELSE day
  /\ warned' = FALSE
  /\ StartTimer
  /\ UNCHANGED <<paused, hostTime>>

\* The run starts on this tick; `day` is NoDay when the clock did not read.
Begin(day) ==
  /\ baseline' = day
  /\ warned' = FALSE
  /\ StartTimer
  /\ UNCHANGED <<paused, hostTime>>

\* Mutant of Push: the elapsed time is not held at zero.
Push_Unclamped(day) ==
  /\ IF timer = "Running" /\ baseline # NoDay /\ day # NoDay
       THEN /\ warned' = FALSE /\ paused' = TRUE
            /\ hostTime' = day - baseline
       ELSE /\ warned' = (warned \/ (timer = "Running" /\ baseline # NoDay))
            /\ UNCHANGED <<paused, hostTime>>
  /\ UNCHANGED <<baseline, timer, seen, zero>>

\* Mutant of Push: only the push that pauses the host's own clock is made.
Push_Once(day) ==
  /\ IF timer = "Running" /\ baseline # NoDay /\ day # NoDay /\ ~paused
       THEN /\ warned' = FALSE /\ paused' = TRUE
            /\ hostTime' = Max2(0, day - baseline)
       ELSE UNCHANGED <<warned, paused, hostTime>>
  /\ UNCHANGED <<baseline, timer, seen, zero>>

\* Game time follows the clock only while the timer runs, from a baseline.
Push(day) ==
  /\ IF timer = "Running" /\ baseline # NoDay /\ day # NoDay
       THEN /\ warned' = FALSE /\ paused' = TRUE
            /\ hostTime' = Max2(0, day - baseline)
       ELSE /\ warned' = (warned \/ (timer = "Running" /\ baseline # NoDay))
            /\ UNCHANGED <<paused, hostTime>>
  /\ UNCHANGED <<baseline, timer, seen, zero>>

\* The moment a reading for a baseline stands for; unsure across a rollover.
ThisStart ==
  IF pc = "day" THEN now
  ELSE IF DayOf(now) = dayRead THEN entered ELSE NoDay

\* A reading is done: it is the run's baseline, and then the same tick reads
\* again, or it is what the tick pushes.
Deliver(day) ==
  /\ IF goal = "baseline"
       THEN Begin(day) /\ zero' = ThisStart /\ pc' = "day" /\ goal' = "push"
       ELSE Push(day) /\ pc' = "poll" /\ goal' = goal
  /\ UNCHANGED <<dayRead, ticksRead, perDay, entered, gameVars>>

ReadProgress ==
  /\ pc = "progress"
  /\ \E p \in Progress : Deliver(Assemble(dayRead, ticksRead, p, perDay))

\* Any of the reads fails, or the lengths are not known yet.
ReadFails ==
  /\ \/ pc \in {"day", "ticks"} /\ ~readable
     \/ pc = "ticks" /\ perDay = 0
  /\ Deliver(NoDay)

(***************************************************************************)
(* The task around it.                                                     *)
(***************************************************************************)
\* The overlay comes up while the container is still being looked for.
StartDuringScan ==
  /\ pc = "scan" /\ startDue
  /\ startDue' = FALSE
  /\ baseline' = NewGame /\ zero' = NewGame
  /\ warned' = FALSE
  /\ StartTimer
  /\ UNCHANGED <<now, filled, scenes, readable, readVars, paused, hostTime>>

\* The container is found; `watch` builds a Clock for its scene.
BeginWatch ==
  /\ pc = "scan"
  /\ pc' = "poll" /\ goal' = "push" /\ perDay' = 0
  /\ UNCHANGED <<dayRead, ticksRead, entered, gameVars, pushVars>>

\* A tick of `watch`, on which the run may start.
Tick ==
  /\ pc = "poll"
  /\ \/ goal' = "push" /\ UNCHANGED startDue
     \/ startDue /\ startDue' = FALSE /\ goal' = "baseline"
  /\ pc' = "day"
  /\ UNCHANGED <<now, filled, scenes, readable, dayRead, ticksRead, perDay, entered, pushVars>>

\* The runner leaves for another game; everything but GameTime is rebuilt.
NextScene ==
  /\ pc = "poll" /\ scenes < MaxScenes
  /\ scenes' = scenes + 1
  /\ \/ now' = NewGame /\ startDue' = TRUE
     \/ now' \in Saves /\ startDue' = FALSE
  /\ filled' = {} /\ readable' = TRUE
  /\ pc' = "scan"
  /\ UNCHANGED <<goal, dayRead, ticksRead, perDay, entered, pushVars>>

UserStart ==
  /\ timer = "NotRunning" /\ timer' = "Running"
  /\ UNCHANGED <<gameVars, readVars, baseline, paused, warned, hostTime, seen, zero>>

UserReset ==
  /\ timer = "Running" /\ timer' = "NotRunning"
  /\ seen' = FALSE
  /\ hostTime' = NoDay
  /\ UNCHANGED <<gameVars, readVars, baseline, paused, warned, zero>>

Reading == ReadDay \/ ReadTicks \/ ReadProgress \/ ReadFails

Next ==
  \/ FillLengths \/ Flow \/ Readability
  \/ Reading
  \/ StartDuringScan \/ BeginWatch \/ Tick \/ NextScene
  \/ UserStart \/ UserReset

Spec == Init /\ [][Next]_vars

(***************************************************************************)
(* The task is polled for as long as the host runs it, and a game fills in *)
(* its lengths.  Nothing else is fair: the game may stand still, the       *)
(* runner do nothing.                                                      *)
(***************************************************************************)
FairSpec ==
  /\ Spec
  /\ WF_vars(Reading) /\ WF_vars(Tick) /\ WF_vars(BeginWatch)
  /\ WF_vars(FillLengths)

(***************************************************************************)
(* Properties.                                                             *)
(***************************************************************************)

\* Game time never claims more than has passed since the run's zero: every
\* push is at most what the game's own clock shows at that moment.  This is
\* what the order of the reads is for.
NeverAhead ==
  [][hostTime' # hostTime /\ hostTime' # NoDay
       => hostTime' <= Max2(0, now - baseline)]_vars

\* A reading that no day rollover cut in two is at most a tick older than the
\* moment it began, and game time does not fall back by more than that.
AtMostATickBehind ==
  [][hostTime' # hostTime /\ hostTime' # NoDay /\ DayOf(now) = dayRead
       => hostTime' + S > entered - baseline]_vars

\* Game time is measured from the last run start: whatever ran before it, and
\* whether or not the clock could be read at that moment, a push never counts
\* what had passed by then -- but for the part of a tick a reading may lack.
MeasuredFromItsStart ==
  [][hostTime' # hostTime /\ hostTime' # NoDay
       => /\ timer = "Running"
          /\ zero # NoDay => hostTime' < Max2(0, now - zero) + S]_vars

\* Once the game stands still, a running timer with a baseline ends up showing
\* the game's clock -- but for the part of a tick that may not read -- however
\* stale the readings before it were.
Still    == now = MaxNow /\ readable /\ timer = "Running" /\ baseline # NoDay
Elapsed  == Max2(0, now - baseline)
CatchesUp ==
  <>[]Still => <>[](hostTime <= Elapsed /\ Elapsed < hostTime + S)

\* Nothing is pushed for a run whose start was not seen.
NoZeroNoTime ==
  [][hostTime' # hostTime /\ hostTime' # NoDay => seen]_vars
=============================================================================
