-------------------------- MODULE GameTime_proofs ---------------------------
(***************************************************************************)
(* What holds of GameTime for any lengths of day, night and tick, whatever *)
(* saves are loaded and however the clock fails to read: types, and what a *)
(* push shows against the game's own clock -- not ahead of it, less than a *)
(* tick behind it, and nothing of what had passed before the run.  And, at *)
(* the end, what holds of Containers, the loop that finds the container    *)
(* this clock is in: that it watches the one of the game that is up.       *)
(***************************************************************************)
EXTENDS GameTime, Containers, TLAPS

(***************************************************************************)
(* Dividing, and the fields of a moment.                                   *)
(***************************************************************************)

\* What dividing gives back: a quotient and a rest below the divisor.
LEMMA Division ==
  ASSUME NEW n \in Nat, NEW d \in Nat \ {0}
  PROVE  /\ n \div d \in Nat /\ n % d \in 0 .. d - 1
         /\ n = d * (n \div d) + (n % d)
OBVIOUS

\* It is the only way to write n so.
LEMMA Quotient ==
  ASSUME NEW n \in Nat, NEW d \in Nat \ {0}, NEW q \in Nat, NEW r \in 0 .. d - 1,
         n = d * q + r
  PROVE  n \div d = q
OBVIOUS

\* A greater number goes at least as often.
LEMMA QuotientGrows ==
  ASSUME NEW n \in Nat, NEW m \in Nat, n <= m, NEW d \in Nat \ {0}
  PROVE  n \div d <= m \div d
OBVIOUS


\* A day is as long as its day and its night, and has ticks.
LEMMA Lengths ==
  /\ TicksPerDay \in Nat \ {0} /\ DayLength \in Nat \ {0}
  /\ DayLength = TicksPerDay * S
  /\ Daytime <= TicksPerDay /\ Nighttime <= TicksPerDay
<1>1. TicksPerDay \in Nat \ {0} /\ Daytime <= TicksPerDay /\ Nighttime <= TicksPerDay
  BY GameTimeAssumption DEF TicksPerDay
<1>2. TicksPerDay * S \in Nat \ {0}
  BY <1>1, GameTimeAssumption
<1> QED
  BY <1>1, <1>2 DEF DayLength

\* What the game's fields are of a moment n: the day and the ticks make up the
\* ticks played, and the part is what is left of the last of them.
LEMMA Fields ==
  ASSUME NEW n \in Nat
  PROVE  /\ DayOf(n) \in Nat /\ TicksOf(n) \in 0 .. TicksPerDay - 1
         /\ PartOf(n) \in 0 .. S - 1 /\ n \div S \in Nat
         /\ n \div S = TicksPerDay * DayOf(n) + TicksOf(n)
         /\ n = S * (n \div S) + PartOf(n)
<1> DEFINE k == n \div S
           q == k \div TicksPerDay
           t == k % TicksPerDay
           p == n % S
<1>1. S \in Nat \ {0} /\ TicksPerDay \in Nat \ {0}
  BY Lengths, GameTimeAssumption
<1>2. k \in Nat /\ p \in 0 .. S - 1 /\ n = S * k + p
  BY <1>1, Division
<1> HIDE DEF k, p
<1>3. q \in Nat /\ t \in 0 .. TicksPerDay - 1 /\ k = TicksPerDay * q + t
  BY <1>1, <1>2, Division
<1> HIDE DEF q, t
<1>4. n = DayLength * q + (S * t + p)
  <2>1. S * k = S * (TicksPerDay * q) + S * t
    BY <1>1, <1>3
  <2>2. S * (TicksPerDay * q) = (TicksPerDay * S) * q
    BY <1>1, <1>3
  <2> QED
    BY <2>1, <2>2, <1>1, <1>2, <1>3, Lengths
<1>5. S * t + p \in 0 .. DayLength - 1
  <2>1. S * t <= S * (TicksPerDay - 1)
    BY <1>1, <1>3
  <2>2. S * (TicksPerDay - 1) = TicksPerDay * S - S
    BY <1>1
  <2>3. S * t \in Nat
    BY <1>1, <1>3
  <2> QED
    BY <2>1, <2>2, <2>3, <1>1, <1>2, Lengths
<1>6. DayOf(n) = q
  BY <1>4, <1>5, <1>3, Lengths, Quotient DEF DayOf
<1>7. PartOf(n) = p /\ TicksOf(n) = t
  BY DEF PartOf, TicksOf, k, p, t
<1> QED
  BY <1>2, <1>3, <1>6, <1>7 DEF k

\* A later moment is not on an earlier day, nor in an earlier tick.
LEMMA FieldsGrow ==
  ASSUME NEW n \in Nat, NEW m \in Nat, n <= m
  PROVE  DayOf(n) <= DayOf(m) /\ n \div S <= m \div S
BY QuotientGrows, Lengths, GameTimeAssumption DEF DayOf

\* What is assembled is never less than the ticks and the part that were read,
\* and it is exactly those where the day was known to its full length.
LEMMA Assembled ==
  ASSUME NEW day \in Nat, NEW ticks \in 0 .. TicksPerDay - 1, NEW part \in 0 .. S,
         NEW length \in {Daytime, Nighttime, TicksPerDay}
  PROVE  /\ Assemble(day, ticks, part, length) \in Nat
         /\ S * (TicksPerDay * day + ticks) + part <= Assemble(day, ticks, part, length)
         /\ length = TicksPerDay =>
              Assemble(day, ticks, part, length) = S * (TicksPerDay * day + ticks) + part
<1> DEFINE x == ticks * S + part
           q == (x * TicksPerDay) \div length
<1>1. /\ S \in Nat \ {0} /\ TicksPerDay \in Nat \ {0} /\ length \in Nat \ {0}
      /\ length <= TicksPerDay
  BY Lengths, GameTimeAssumption
<1>2. x \in Nat
  BY <1>1
<1>3. S * (TicksPerDay * day + ticks) + part = day * DayLength + x
  <2>1. S * (TicksPerDay * day + ticks) = S * (TicksPerDay * day) + S * ticks
    BY <1>1
  <2>2. S * (TicksPerDay * day) = day * (TicksPerDay * S)
    BY <1>1
  <2> QED
    BY <2>1, <2>2, <1>1, Lengths
<1>4. Assemble(day, ticks, part, length) = day * DayLength + q
  BY DEF Assemble
<1>5. day * DayLength \in Nat
  BY <1>1, Lengths
<1> HIDE DEF x
<1>6. x * TicksPerDay \in Nat
  BY <1>1, <1>2
<1>7. x <= q /\ q \in Nat
  <2>1. x * length <= x * TicksPerDay /\ x * length \in Nat
    BY <1>1, <1>2
  <2>2. (x * length) \div length = x
    <3>1. x * length = length * x + 0 /\ 0 \in 0 .. length - 1
      BY <1>1, <1>2
    <3> QED
      BY <3>1, <1>1, <1>2, <2>1, Quotient
  <2>3. (x * length) \div length <= q
    BY <2>1, <1>1, <1>6, QuotientGrows
  <2>4. q \in Nat
    BY <1>1, <1>6, Division
  <2> QED
    BY <2>2, <2>3, <2>4
<1>8. ASSUME length = TicksPerDay
      PROVE  q = x
  <2>1. x * TicksPerDay = length * x + 0 /\ 0 \in 0 .. length - 1
    BY <1>1, <1>2, <1>8
  <2> QED
    BY <2>1, <1>1, <1>2, <1>6, Quotient
<1> HIDE DEF q
<1> QED
  BY <1>3, <1>4, <1>5, <1>7, <1>8, <1>2

\* Clamping keeps what is within a tick and holds the rest to its ends.
LEMMA ClampHolds ==
  ASSUME NEW v \in Int
  PROVE  Clamp(v) \in 0 .. S /\ (v <= 0 => Clamp(v) = 0) /\ (v \in 0 .. S => Clamp(v) = v)
BY GameTimeAssumption DEF Clamp, Max2, Min2

LEMMA ProgressIsPart ==
  ASSUME now \in Nat
  PROVE  Progress \subseteq 0 .. S
<1>1. S \in Nat /\ RawProgress \subseteq Int
  BY GameTimeAssumption
<1>2. PartOf(now) \in Int
  BY Fields, <1>1
<1>3. \A v \in {PartOf(now)} \cup RawProgress : Clamp(v) \in 0 .. S
  BY <1>1, <1>2, ClampHolds
<1> QED
  BY <1>3 DEF Progress

(***************************************************************************)
(* Types.                                                                  *)
(***************************************************************************)
LEMMA InitTypes == Init => TypeOK
<1> SUFFICES ASSUME Init
             PROVE  TypeOK
  OBVIOUS
<1>1. now \in 0 .. MaxNow
  BY GameTimeAssumption DEF Init
<1>2. 0 \in 0 .. TicksPerDay - 1
  BY Lengths
<1>3. 0 \in 0 .. MaxScenes /\ 0 \in 0 .. MaxNow
  BY GameTimeAssumption
<1> QED
  BY <1>1, <1>2, <1>3 DEF Init, TypeOK

LEMMA GameTypes ==
  TypeOK /\ (FillLengths \/ Flow \/ Readability \/ NextScene \/ UserStart \/ UserReset)
    => TypeOK'
<1> SUFFICES ASSUME TypeOK, FillLengths \/ Flow \/ Readability \/ NextScene \/ UserStart
                              \/ UserReset
             PROVE  TypeOK'
  OBVIOUS
<1> USE DEF TypeOK, gameVars, readVars, pushVars
<1>1. CASE FillLengths
  BY <1>1 DEF FillLengths
<1>2. CASE Flow
  <2>1. now' \in 0 .. MaxNow
    BY <1>2, GameTimeAssumption DEF Flow
  <2> QED
    BY <1>2, <2>1 DEF Flow
<1>3. CASE Readability
  BY <1>3 DEF Readability
<1>4. CASE NextScene
  <2>1. scenes' \in 0 .. MaxScenes
    BY <1>4, GameTimeAssumption DEF NextScene
  <2>2. now' \in 0 .. MaxNow /\ startDue' \in BOOLEAN
    BY <1>4, GameTimeAssumption DEF NextScene
  <2> QED
    BY <1>4, <2>1, <2>2 DEF NextScene
<1>5. CASE UserStart
  BY <1>5 DEF UserStart
<1>6. CASE UserReset
  BY <1>6 DEF UserReset
<1> QED
  BY <1>1, <1>2, <1>3, <1>4, <1>5, <1>6

\* What is delivered is taken as the baseline, or compared with it.
LEMMA DeliverTypes ==
  ASSUME TypeOK, NEW day \in Nat \cup {NoDay}, Deliver(day)
  PROVE  TypeOK'
<1> USE DEF TypeOK
<1>1. UNCHANGED <<now, filled, scenes, startDue, readable, dayRead, ticksRead, perDay, entered>>
  BY DEF Deliver, gameVars
<1>2. CASE goal = "baseline"
  <2>1. Begin(day) /\ zero' = ThisStart /\ pc' = "day" /\ goal' = "push"
    BY <1>2 DEF Deliver
  <2>2. ThisStart \in Nat \cup {NoDay}
    BY GameTimeAssumption DEF ThisStart
  <2> QED
    BY <2>1, <2>2, <1>1 DEF Begin, StartTimer
<1>3. CASE goal # "baseline"
  <2>1. Push(day) /\ pc' = "poll" /\ goal' = goal
    BY <1>3 DEF Deliver
  <2>2. hostTime' \in Nat \cup {NoDay}
    BY <2>1 DEF Push, Max2, NoDay
  <2>3. UNCHANGED <<baseline, timer, seen, zero>> /\ paused' \in BOOLEAN /\ warned' \in BOOLEAN
    BY <2>1 DEF Push
  <2> QED
    BY <2>1, <2>2, <2>3, <1>1
<1> QED
  BY <1>2, <1>3

LEMMA ReadingTypes ==
  ASSUME TypeOK, ReadDay \/ ReadTicks \/ ReadFails
  PROVE  TypeOK'
<1>1. CASE ReadDay
  <2>1. now \in Nat /\ LengthNow \in {0, Daytime, Nighttime, TicksPerDay}
    BY GameTimeAssumption DEF TypeOK, LengthNow, TicksPerDay
  <2>2. DayOf(now) \in Nat
    BY <2>1, Fields
  <2> QED
    BY <1>1, <2>1, <2>2 DEF ReadDay, TypeOK, gameVars, pushVars
<1>2. CASE ReadTicks
  <2>1. TicksOf(now) \in 0 .. TicksPerDay - 1
    <3>1. now \in Nat
      BY GameTimeAssumption DEF TypeOK
    <3> QED
      BY <3>1, Fields
  <2> QED
    BY <1>2, <2>1 DEF ReadTicks, TypeOK, gameVars, pushVars
<1>3. CASE ReadFails
  BY <1>3, DeliverTypes DEF ReadFails
<1> QED
  BY <1>1, <1>2, <1>3

LEMMA TaskTypes ==
  ASSUME TypeOK, StartDuringScan \/ BeginWatch \/ Tick
  PROVE  TypeOK'
<1> USE DEF TypeOK, gameVars, readVars, pushVars
<1>1. CASE StartDuringScan
  <2>1. NewGame \in Nat
    BY GameTimeAssumption
  <2>2. timer' \in {"NotRunning", "Running"} /\ seen' \in BOOLEAN
    BY <1>1 DEF StartDuringScan, StartTimer
  <2> QED
    BY <1>1, <2>1, <2>2 DEF StartDuringScan
<1>2. CASE BeginWatch
  BY <1>2 DEF BeginWatch
<1>3. CASE Tick
  BY <1>3 DEF Tick
<1> QED
  BY <1>1, <1>2, <1>3

LEMMA ProgressTypes ==
  ASSUME TypeOK, ReadProgress, perDay # 0
  PROVE  TypeOK'
<1>1. PICK p \in Progress : Deliver(Assemble(dayRead, ticksRead, p, perDay))
  BY DEF ReadProgress
<1>2. now \in Nat
  BY GameTimeAssumption DEF TypeOK
<1>3. p \in 0 .. S
  BY <1>1, <1>2, ProgressIsPart
<1>4. /\ dayRead \in Nat /\ ticksRead \in 0 .. TicksPerDay - 1
      /\ perDay \in {Daytime, Nighttime, TicksPerDay}
  BY DEF TypeOK
<1>5. Assemble(dayRead, ticksRead, p, perDay) \in Nat
  BY <1>3, <1>4, Assembled
<1> QED
  BY <1>1, <1>5, DeliverTypes

(***************************************************************************)
(* A reading under way.  It began no later than now; what it has read so   *)
(* far is no later than now either, because the day is read before the     *)
(* ticks; and it is no earlier than the moment it began, unless the day    *)
(* turned in between.                                                      *)
(***************************************************************************)
ReadSoFar == TicksPerDay * dayRead + ticksRead

DayIsRead == pc \in {"ticks", "progress"} => entered <= now /\ dayRead <= DayOf(now)

TicksAreRead ==
  pc = "progress" =>
    /\ perDay # 0
    /\ ReadSoFar <= now \div S
    /\ dayRead = DayOf(now) => entered \div S <= ReadSoFar

InReading == DayIsRead /\ TicksAreRead

LEMMA ReadDayInReading ==
  ASSUME TypeOK, InReading, ReadDay
  PROVE  InReading'
<1>1. now \in Nat /\ now' = now /\ pc' = "ticks" /\ entered' = now /\ dayRead' = DayOf(now)
  BY GameTimeAssumption DEF ReadDay, gameVars, TypeOK
<1>2. DayOf(now) \in Nat
  BY <1>1, Fields
<1> QED
  BY <1>1, <1>2 DEF InReading, DayIsRead, TicksAreRead, DayOf

LEMMA ReadTicksInReading ==
  ASSUME TypeOK, InReading, ReadTicks
  PROVE  InReading'
<1>1. /\ now \in Nat /\ now' = now /\ pc' = "progress" /\ perDay # 0 /\ pc = "ticks"
      /\ entered' = entered /\ dayRead' = dayRead /\ perDay' = perDay
      /\ ticksRead' = TicksOf(now) /\ entered \in Nat /\ dayRead \in Nat
  BY GameTimeAssumption DEF ReadTicks, gameVars, TypeOK
<1>2. /\ DayOf(now) \in Nat /\ TicksOf(now) \in Nat /\ now \div S \in Nat
      /\ now \div S = TicksPerDay * DayOf(now) + TicksOf(now)
  BY <1>1, Fields, Lengths
<1>3. entered <= now /\ dayRead <= DayOf(now)
  BY <1>1 DEF InReading, DayIsRead
<1>4. entered \div S <= now \div S
  BY <1>1, <1>3, FieldsGrow
<1>5. ReadSoFar' = TicksPerDay * dayRead + TicksOf(now)
  BY <1>1 DEF ReadSoFar
<1>6. TicksPerDay * dayRead <= TicksPerDay * DayOf(now) /\ TicksPerDay * dayRead \in Nat
      /\ TicksPerDay * DayOf(now) \in Nat
  BY <1>1, <1>2, <1>3, Lengths
<1>7. ReadSoFar' <= now \div S
  BY <1>2, <1>5, <1>6
<1>8. dayRead = DayOf(now) => entered \div S <= ReadSoFar'
  BY <1>2, <1>4, <1>5
<1> QED
  BY <1>1, <1>3, <1>7, <1>8 DEF InReading, DayIsRead, TicksAreRead, DayOf

\* The clock runs on while it is read.
LEMMA FlowInReading ==
  ASSUME TypeOK, InReading, Flow
  PROVE  InReading'
<1>1. /\ now \in Nat /\ now' = now + 1 /\ entered \in Nat /\ dayRead \in Nat
      /\ ticksRead \in Nat
      /\ UNCHANGED <<pc, perDay, entered, dayRead, ticksRead>>
  BY GameTimeAssumption DEF Flow, readVars, TypeOK
<1>2. /\ DayOf(now) \in Nat /\ DayOf(now') \in Nat
      /\ now \div S \in Nat /\ now' \div S \in Nat
  BY <1>1, Fields
<1>3. DayOf(now) <= DayOf(now') /\ now \div S <= now' \div S
  BY <1>1, FieldsGrow
<1>4. DayIsRead'
  BY <1>1, <1>2, <1>3 DEF InReading, DayIsRead, DayOf
<1>5. ASSUME pc = "progress"
      PROVE  ReadSoFar \in Nat /\ ReadSoFar' = ReadSoFar
  BY <1>1, Lengths DEF ReadSoFar
<1>6. ASSUME pc = "progress"
      PROVE  perDay' # 0 /\ ReadSoFar' <= now' \div S
  BY <1>1, <1>2, <1>3, <1>5, <1>6 DEF InReading, TicksAreRead
<1>7. ASSUME pc = "progress", dayRead = DayOf(now')
      PROVE  entered \div S <= ReadSoFar
  <2>1. dayRead = DayOf(now)
    BY <1>1, <1>2, <1>3, <1>7 DEF InReading, DayIsRead
  <2> QED
    BY <2>1, <1>7 DEF InReading, TicksAreRead
<1>8. TicksAreRead'
  BY <1>1, <1>5, <1>6, <1>7 DEF TicksAreRead, DayOf
<1> QED
  BY <1>4, <1>8 DEF InReading

\* Anything else leaves the reading as it is, or ends it, or comes between readings.
LEMMA OthersInReading ==
  ASSUME TypeOK, InReading,
         \/ FillLengths \/ Readability \/ ReadProgress \/ ReadFails \/ StartDuringScan
         \/ BeginWatch \/ Tick \/ NextScene \/ UserStart \/ UserReset
  PROVE  InReading'
<1>1. CASE FillLengths \/ Readability \/ StartDuringScan \/ UserStart \/ UserReset
  <2>1. UNCHANGED <<now, pc, perDay, entered, dayRead, ticksRead>>
    BY <1>1 DEF FillLengths, Readability, StartDuringScan, UserStart, UserReset, gameVars, readVars
  <2> QED
    BY <2>1 DEF InReading, DayIsRead, TicksAreRead, ReadSoFar, DayOf
<1>2. CASE ReadProgress \/ ReadFails \/ BeginWatch \/ Tick \/ NextScene
  <2>1. pc' \in {"scan", "poll", "day"}
    BY <1>2 DEF ReadProgress, ReadFails, Deliver, BeginWatch, Tick, NextScene
  <2> QED
    BY <2>1 DEF InReading, DayIsRead, TicksAreRead
<1> QED
  BY <1>1, <1>2

LEMMA NextInReading ==
  TypeOK /\ InReading /\ [Next]_vars => (TypeOK /\ InReading)'
<1> SUFFICES ASSUME TypeOK, InReading, [Next]_vars
             PROVE  TypeOK' /\ InReading'
  OBVIOUS
<1>1. CASE ReadDay \/ ReadTicks \/ ReadFails
  BY <1>1, ReadingTypes, ReadDayInReading, ReadTicksInReading, OthersInReading
<1>2. CASE ReadProgress
  <2>1. perDay # 0
    BY <1>2 DEF ReadProgress, InReading, TicksAreRead
  <2> QED
    BY <1>2, <2>1, ProgressTypes, OthersInReading
<1>3. CASE FillLengths \/ Flow \/ Readability \/ NextScene \/ UserStart \/ UserReset
  BY <1>3, GameTypes, FlowInReading, OthersInReading
<1>4. CASE StartDuringScan \/ BeginWatch \/ Tick
  BY <1>4, TaskTypes, OthersInReading
<1>5. CASE UNCHANGED vars
  BY <1>5 DEF TypeOK, InReading, DayIsRead, TicksAreRead, ReadSoFar, DayOf, vars, gameVars,
              readVars, pushVars
<1> QED
  BY <1>1, <1>2, <1>3, <1>4, <1>5 DEF Next, Reading

LEMMA InitInReading == Init => InReading
BY DEF Init, InReading, DayIsRead, TicksAreRead

LEMMA SpecInReading == Spec => [](TypeOK /\ InReading)
BY InitTypes, InitInReading, NextInReading, PTL DEF Spec

\* Whatever is read, and in whatever order the game fills in its fields, every
\* state of the clock and of game time keeps its type.
THEOREM GameTimeTypeCorrect == Spec => []TypeOK
BY SpecInReading, PTL

(***************************************************************************)
(* What a reading delivers, against the moments it began and ended.        *)
(***************************************************************************)
Delivered(p) == Assemble(dayRead, ticksRead, p, perDay)

\* Less than a tick is lost on the moment the reading began, unless the day
\* turned; and it is not ahead of the moment it ended, if the day's length was
\* known and the part is not beyond the game's own.
LEMMA WhatIsRead ==
  ASSUME TypeOK, InReading, pc = "progress", NEW p \in 0 .. S
  PROVE  /\ Delivered(p) \in Nat
         /\ DayOf(now) = dayRead => entered < Delivered(p) + S
         /\ perDay = TicksPerDay /\ p <= PartOf(now) => Delivered(p) <= now
<1>1. /\ dayRead \in Nat /\ ticksRead \in 0 .. TicksPerDay - 1
      /\ perDay \in {Daytime, Nighttime, TicksPerDay}
      /\ now \in Nat /\ entered \in Nat
  BY GameTimeAssumption DEF TypeOK, InReading, TicksAreRead
<1>2. S \in Nat \ {0} /\ ReadSoFar \in Nat
  BY <1>1, GameTimeAssumption, Lengths DEF ReadSoFar
<1>3. /\ Delivered(p) \in Nat /\ S * ReadSoFar + p <= Delivered(p)
      /\ perDay = TicksPerDay => Delivered(p) = S * ReadSoFar + p
  BY <1>1, Assembled DEF Delivered, ReadSoFar
<1>4. /\ PartOf(now) \in 0 .. S - 1 /\ now = S * (now \div S) + PartOf(now)
      /\ PartOf(entered) \in 0 .. S - 1 /\ entered = S * (entered \div S) + PartOf(entered)
      /\ now \div S \in Nat /\ entered \div S \in Nat
  BY <1>1, Fields
<1>5. ASSUME DayOf(now) = dayRead
      PROVE  entered < Delivered(p) + S
  <2>1. entered \div S <= ReadSoFar
    BY <1>5 DEF InReading, TicksAreRead
  <2>2. /\ S * (entered \div S) <= S * ReadSoFar
        /\ S * (entered \div S) \in Nat /\ S * ReadSoFar \in Nat
    BY <2>1, <1>2, <1>4
  <2> QED
    BY <2>2, <1>1, <1>2, <1>3, <1>4
<1>6. ASSUME perDay = TicksPerDay, p <= PartOf(now)
      PROVE  Delivered(p) <= now
  <2>1. ReadSoFar <= now \div S
    BY DEF InReading, TicksAreRead
  <2>2. /\ S * ReadSoFar <= S * (now \div S)
        /\ S * (now \div S) \in Nat /\ S * ReadSoFar \in Nat
    BY <2>1, <1>2, <1>4
  <2> QED
    BY <2>2, <1>1, <1>2, <1>3, <1>4, <1>6
<1> QED
  BY <1>3, <1>5, <1>6

\* Game time moves only when a reading that succeeded is pushed.
LEMMA OnlyPushed ==
  ASSUME TypeOK, [Next]_vars, hostTime' # hostTime, hostTime' # NoDay
  PROVE  /\ pc = "progress" /\ timer = "Running" /\ baseline # NoDay
         /\ now' = now
         /\ \E p \in Progress : hostTime' = Max2(0, Delivered(p) - baseline)
<1>1. ReadProgress \/ ReadFails
  BY DEF Next, Reading, FillLengths, Flow, Readability, ReadDay, ReadTicks, StartDuringScan,
         BeginWatch, Tick, NextScene, UserStart, UserReset, vars, pushVars
<1>2. PICK d : Deliver(d) /\ (ReadFails => d = NoDay)
                /\ (ReadProgress => \E p \in Progress : d = Delivered(p))
  <2>1. CASE ReadProgress
    <3>1. pc = "progress" /\ ~ReadFails
      BY <2>1 DEF ReadProgress, ReadFails
    <3> QED
      BY <2>1, <3>1 DEF ReadProgress, Delivered
  <2>2. CASE ReadFails
    <3>1. ~ReadProgress /\ Deliver(NoDay)
      BY <2>2 DEF ReadProgress, ReadFails
    <3> QED
      BY <3>1
  <2> QED
    BY <1>1, <2>1, <2>2
<1>3. Push(d)
  <2>1. goal # "baseline"
    BY <1>2 DEF Deliver, Begin
  <2> QED
    BY <2>1, <1>2 DEF Deliver
<1>4. timer = "Running" /\ baseline # NoDay /\ d # NoDay /\ hostTime' = Max2(0, d - baseline)
  BY <1>3 DEF Push
<1>5. ReadProgress
  BY <1>1, <1>2, <1>4
<1> QED
  BY <1>2, <1>4, <1>5 DEF ReadProgress, Deliver, gameVars

\* A reading that no day rollover cut in two is at most a tick older than the
\* moment it began, whatever the lengths of day and progress read as.
THEOREM LessThanATickIsLost == Spec => AtMostATickBehind
<1>1. TypeOK /\ InReading /\ [Next]_vars =>
        [hostTime' # hostTime /\ hostTime' # NoDay /\ DayOf(now) = dayRead
           => hostTime' + S > entered - baseline]_vars
  <2> SUFFICES ASSUME TypeOK, InReading, [Next]_vars,
                      hostTime' # hostTime, hostTime' # NoDay, DayOf(now) = dayRead
               PROVE  hostTime' + S > entered - baseline
    OBVIOUS
  <2>1. PICK p \in Progress : hostTime' = Max2(0, Delivered(p) - baseline)
    BY OnlyPushed
  <2>2. pc = "progress" /\ baseline \in Nat /\ entered \in Nat /\ now \in Nat
    BY OnlyPushed, GameTimeAssumption DEF TypeOK
  <2>3. Delivered(p) \in Nat /\ entered < Delivered(p) + S
    BY <2>2, WhatIsRead, ProgressIsPart
  <2> QED
    BY <2>1, <2>2, <2>3, GameTimeAssumption DEF Max2
<1> QED
  BY <1>1, SpecInReading, PTL DEF Spec, AtMostATickBehind

(***************************************************************************)
(* Never ahead: where both length constants are filled in at once, and a   *)
(* Progress that does not read as its own value reads as nothing elapsed.  *)
(***************************************************************************)
NothingAhead == TogetherFilled /\ \A v \in RawProgress : v <= 0

WholeDay == filled \in {{}, {"day", "night"}} /\ perDay \in {0, TicksPerDay}

LEMMA NextWholeDay ==
  ASSUME TogetherFilled
  PROVE  (Init => WholeDay) /\ (WholeDay /\ [Next]_vars => WholeDay')
<1>1. Init => WholeDay
  BY DEF Init, WholeDay
<1> SUFFICES ASSUME WholeDay, [Next]_vars
             PROVE  WholeDay'
  BY <1>1
<1>2. CASE FillLengths
  BY <1>2 DEF FillLengths, WholeDay, readVars
<1>3. CASE ReadDay
  <2>1. LengthNow \in {0, TicksPerDay}
    BY GameTimeAssumption DEF LengthNow, WholeDay, TicksPerDay
  <2> QED
    BY <1>3, <2>1 DEF ReadDay, WholeDay, gameVars
<1>4. CASE Flow \/ Readability \/ ReadTicks \/ ReadProgress \/ ReadFails \/ StartDuringScan
           \/ BeginWatch \/ Tick \/ NextScene \/ UserStart \/ UserReset \/ UNCHANGED vars
  <2>1. filled' \in {filled, {}} /\ perDay' \in {perDay, 0}
    BY <1>4 DEF Flow, Readability, ReadTicks, ReadProgress, ReadFails, Deliver, StartDuringScan,
                BeginWatch, Tick, NextScene, UserStart, UserReset, vars, gameVars, readVars
  <2> QED
    BY <2>1 DEF WholeDay
<1> QED
  BY <1>2, <1>3, <1>4 DEF Next, Reading

LEMMA ProgressNotAhead ==
  ASSUME TypeOK, NothingAhead, NEW p \in Progress
  PROVE  p \in 0 .. S /\ p <= PartOf(now)
<1>1. now \in Nat /\ S \in Nat /\ RawProgress \subseteq Int
  BY GameTimeAssumption DEF TypeOK
<1>2. PartOf(now) \in 0 .. S - 1
  BY <1>1, Fields
<1>3. PICK v \in {PartOf(now)} \cup RawProgress : p = Clamp(v)
  BY DEF Progress
<1>4. CASE v = PartOf(now)
  BY <1>1, <1>2, <1>3, <1>4, ClampHolds
<1>5. CASE v \in RawProgress
  BY <1>1, <1>2, <1>3, <1>5, ClampHolds DEF NothingAhead
<1> QED
  BY <1>3, <1>4, <1>5

LEMMA PushedNotAhead ==
  ASSUME TypeOK, InReading, WholeDay, NothingAhead, [Next]_vars,
         hostTime' # hostTime, hostTime' # NoDay
  PROVE  hostTime' \in Nat /\ hostTime' <= Max2(0, now - baseline)
<1>1. PICK p \in Progress : hostTime' = Max2(0, Delivered(p) - baseline)
  BY OnlyPushed
<1>2. pc = "progress" /\ baseline \in Nat /\ now \in Nat /\ perDay = TicksPerDay
  BY OnlyPushed, GameTimeAssumption DEF TypeOK, InReading, TicksAreRead, WholeDay
<1>3. Delivered(p) \in Nat /\ Delivered(p) <= now
  BY <1>2, WhatIsRead, ProgressNotAhead
<1> QED
  BY <1>1, <1>2, <1>3 DEF Max2

\* No push shows more than has passed since the baseline: the reads of one
\* reading are in the order that cannot run ahead of the game.
THEOREM GameTimeNeverAhead ==
  ASSUME NothingAhead
  PROVE  Spec => NeverAhead
<1>1. TypeOK /\ InReading /\ WholeDay /\ [Next]_vars =>
        [hostTime' # hostTime /\ hostTime' # NoDay
           => hostTime' <= Max2(0, now - baseline)]_vars
  BY PushedNotAhead
<1>2. Init => WholeDay
  BY NextWholeDay DEF NothingAhead
<1>3. WholeDay /\ [Next]_vars => WholeDay'
  BY NextWholeDay DEF NothingAhead
<1> QED
  BY <1>1, <1>2, <1>3, SpecInReading, PTL DEF Spec, NeverAhead

(***************************************************************************)
(* The baseline is not from before the run's start by a tick or more.      *)
(***************************************************************************)
FromStart == baseline # NoDay /\ zero # NoDay => zero < baseline + S

LEMMA DeliverFromStart ==
  ASSUME TypeOK, InReading, FromStart, ReadProgress \/ ReadFails
  PROVE  FromStart'
<1>1. CASE goal # "baseline"
  <2>1. UNCHANGED <<baseline, zero>>
    BY <1>1 DEF ReadProgress, ReadFails, Deliver, Push
  <2> QED
    BY <2>1 DEF FromStart
<1>2. CASE goal = "baseline" /\ ReadFails
  <2>1. baseline' = NoDay
    BY <1>2 DEF ReadFails, Deliver, Begin
  <2> QED
    BY <2>1 DEF FromStart
<1>3. CASE goal = "baseline" /\ ReadProgress
  <2>1. PICK p \in Progress : baseline' = Delivered(p)
    BY <1>3 DEF ReadProgress, Deliver, Begin, Delivered
  <2>2. pc = "progress" /\ zero' = ThisStart /\ now \in Nat
    BY <1>3, GameTimeAssumption DEF ReadProgress, Deliver, TypeOK
  <2>3. DayOf(now) = dayRead => entered < Delivered(p) + S
    BY <2>2, WhatIsRead, ProgressIsPart
  <2> QED
    BY <2>1, <2>2, <2>3 DEF FromStart, ThisStart
<1> QED
  BY <1>1, <1>2, <1>3

LEMMA NextFromStart ==
  TypeOK /\ InReading /\ FromStart /\ [Next]_vars => FromStart'
<1> SUFFICES ASSUME TypeOK, InReading, FromStart, [Next]_vars
             PROVE  FromStart'
  OBVIOUS
<1>1. CASE ReadProgress \/ ReadFails
  BY <1>1, DeliverFromStart
<1>2. CASE StartDuringScan
  BY <1>2, GameTimeAssumption DEF StartDuringScan, FromStart
<1>3. CASE FillLengths \/ Flow \/ Readability \/ ReadDay \/ ReadTicks
           \/ BeginWatch \/ Tick \/ NextScene \/ UserStart \/ UserReset \/ UNCHANGED vars
  <2>1. UNCHANGED <<baseline, zero>>
    BY <1>3 DEF FillLengths, Flow, Readability, ReadDay, ReadTicks, BeginWatch, Tick, NextScene,
                UserStart, UserReset, vars, pushVars
  <2> QED
    BY <2>1 DEF FromStart
<1> QED
  BY <1>1, <1>2, <1>3 DEF Next, Reading

\* A push counts nothing of what had passed when the run started, whatever ran
\* before it and whether or not the clock read at that moment, but for the part
\* of a tick the reading at the start may lack.
THEOREM TimeIsOfThisRun ==
  ASSUME NothingAhead
  PROVE  Spec => MeasuredFromItsStart
<1>1. TypeOK /\ InReading /\ WholeDay /\ FromStart /\ [Next]_vars =>
        [hostTime' # hostTime /\ hostTime' # NoDay
           => /\ timer = "Running"
              /\ zero # NoDay => hostTime' < Max2(0, now - zero) + S]_vars
  <2> SUFFICES ASSUME TypeOK, InReading, WholeDay, FromStart, [Next]_vars,
                      hostTime' # hostTime, hostTime' # NoDay
               PROVE  /\ timer = "Running"
                      /\ zero # NoDay => hostTime' < Max2(0, now - zero) + S
    OBVIOUS
  <2>1. timer = "Running" /\ baseline # NoDay
    BY OnlyPushed
  <2>2. hostTime' \in Nat /\ hostTime' <= Max2(0, now - baseline)
    BY PushedNotAhead
  <2>3. baseline \in Nat /\ now \in Nat /\ zero \in Nat \cup {NoDay} /\ S \in Nat \ {0}
    BY <2>1, GameTimeAssumption DEF TypeOK
  <2> QED
    BY <2>1, <2>2, <2>3 DEF FromStart, Max2
<1>2. Init => WholeDay
  BY NextWholeDay DEF NothingAhead
<1>3. WholeDay /\ [Next]_vars => WholeDay'
  BY NextWholeDay DEF NothingAhead
<1>4. Init => FromStart
  BY DEF Init, FromStart
<1> QED
  BY <1>1, <1>2, <1>3, <1>4, NextFromStart, SpecInReading, PTL DEF Spec, MeasuredFromItsStart

(***************************************************************************)
(* The container of the clock above: what holds of Containers for any      *)
(* number of addresses and any limits.  The two components share no state, *)
(* and each theorem is about the specification it names.                   *)
(***************************************************************************)
\* A container that ages stays one, and stays as it was built.
LEMMA Ageing ==
  ASSUME NEW c \in Container
  PROVE  /\ Aged(c) \in Container
         /\ Aged(c) = Nobody <=> c = Nobody
<1>1. CASE c = Nobody
  BY <1>1 DEF Container, Nobody, Aged
<1>2. CASE c \in [of : {"own", "last", "older"}, clock : BOOLEAN]
  BY <1>2 DEF Container, Nobody, Aged
<1> QED
  BY <1>1, <1>2 DEF Container

\* What happens to one address: who is present but there stays as it was.
LEMMA OneChanged ==
  ASSUME heap \in [Addr -> Container], NEW a \in Addr, NEW c \in Container,
         heap' = [heap EXCEPT ![a] = c]
  PROVE  /\ heap' \in [Addr -> Container]
         /\ \A b \in Addr : b # a => heap'[b] = heap[b]
         /\ heap'[a] = c
OBVIOUS

LEMMA InitContainers == ASSUME ContainersInit PROVE ContainersTypeOK
<1> USE DEF ContainersInit
<1>1. heap \in [Addr -> Container]
  <2>1. {Nobody, [of |-> "own", clock |-> TRUE]} \subseteq Container
    BY DEF Container
  <2> QED
    BY <2>1
<1>2. held \subseteq Present
  <2>1. Own \subseteq Present
    BY DEF Own, Present, Nobody
  <2> QED
    BY <2>1
<1>3. empty \in 0 .. GIVE_UP_SKIPPING_AFTER - 1 /\ misses \in 0 .. MISSES_BEFORE_REFINDING
      /\ attempts \in 0 .. TABLE_SEARCH_ATTEMPTS
  BY ContainersAssumption
<1> QED
  BY <1>1, <1>2, <1>3 DEF ContainersTypeOK

LEMMA GameContainers ==
  ASSUME ContainersTypeOK, GameNext
  PROVE  ContainersTypeOK'
<1> USE DEF sceneVars, tableVars, historyVars
<1>1. CASE \E g \in BOOLEAN : StartLoad(g)
  <2>1. heap \in [Addr -> Container]
        /\ heap' = [a \in Addr |-> Aged(heap[a])]
    BY <1>1 DEF StartLoad, ContainersTypeOK
  <2>2. heap' \in [Addr -> Container] /\ Present' = Present
    BY <2>1, Ageing DEF Present
  <2> QED
    BY <1>1, <2>2 DEF StartLoad, ContainersTypeOK
<1>2. CASE \E a \in Addr : Build(a) \/ BuildClock(a) \/ Collect(a)
  <2>1. PICK a \in Addr : Build(a) \/ BuildClock(a) \/ Collect(a)
    BY <1>2
  <2>2. PICK c \in Container :
          /\ heap' = [heap EXCEPT ![a] = c]
          /\ c = Nobody => a \notin held'
    <3>1. CASE Build(a)
      <4>1. [of |-> "own", clock |-> FALSE] \in Container
            /\ [of |-> "own", clock |-> FALSE] # Nobody
        BY DEF Container, Nobody
      <4> QED
        BY <3>1, <4>1 DEF Build
    <3>2. CASE BuildClock(a)
      <4>1. heap[a] \in Container /\ heap[a].of = "own"
        BY <3>2 DEF BuildClock, Own, ContainersTypeOK
      <4>2. heap[a] \in [of : {"own", "last", "older"}, clock : BOOLEAN]
        BY <4>1 DEF Container, Nobody
      <4>3. [heap[a] EXCEPT !.clock = TRUE] \in Container
            /\ [heap[a] EXCEPT !.clock = TRUE] # Nobody
        BY <4>1, <4>2 DEF Container, Nobody
      <4>4. heap' = [heap EXCEPT ![a] = [heap[a] EXCEPT !.clock = TRUE]]
        BY <3>2 DEF BuildClock
      <4> QED
        BY <4>3, <4>4
    <3>3. CASE Collect(a)
      BY <3>3 DEF Collect, Container
    <3> QED
      BY <2>1, <3>1, <3>2, <3>3
  <2>3. held \subseteq Present /\ held' \subseteq held
        /\ heap \in [Addr -> Container]
    BY <2>1 DEF Build, BuildClock, Collect, ContainersTypeOK
  <2>4. heap' \in [Addr -> Container] /\ held' \subseteq Present'
    BY <2>2, <2>3, OneChanged DEF Present
  <2>5. UNCHANGED <<loading, game, table, misses, attempts, at, prev, empty, bound, historyVars>>
    BY <2>1 DEF Build, BuildClock, Collect
  <2> QED
    BY <2>4, <2>5 DEF ContainersTypeOK
<1>3. CASE \E a \in Addr : Register(a)
  BY <1>3 DEF Register, ContainersTypeOK, Present
<1>4. CASE EndLoad \/ MoveTable
  BY <1>4 DEF EndLoad, MoveTable, ContainersTypeOK, Present
<1> QED
  BY <1>1, <1>2, <1>3, <1>4 DEF GameNext

\* The table is looked for, noticed, or left as it is.
LEMMA FoundTable ==
  ASSUME ContainersTypeOK, NEW tried \in 0 .. TABLE_SEARCH_ATTEMPTS,
         FindTable(tried) \/ NoticeTable
  PROVE  /\ table' \in {"none", "right", "wrong"}
         /\ misses' \in 0 .. MISSES_BEFORE_REFINDING
         /\ attempts' \in 0 .. TABLE_SEARCH_ATTEMPTS
         /\ held' \subseteq Present
BY ContainersAssumption DEF ContainersTypeOK, FindTable, NoticeTable, tableVars

LEMMA SplitterContainers ==
  ASSUME ContainersTypeOK, SplitterNext
  PROVE  ContainersTypeOK'
<1>1. UNCHANGED <<loading, game, heap>>
  BY DEF SplitterNext, LeaveLoad, OnMenu, AskTable, SweepFinds, SweepEmpty,
         WatchEnds, sceneVars
<1>2. Present' = Present
  BY <1>1 DEF Present
<1>3. /\ at' \in {"Load", "Menu", "Ask", "Sweep", "Watch"}
      /\ {prev', bound', watched'} \subseteq Addr \cup {NoAddr}
      /\ empty' \in 0 .. GIVE_UP_SKIPPING_AFTER - 1
  <2> USE DEF historyVars
  <2>1. CASE LeaveLoad
    <3>1. at' \in {"Menu", "Ask", "Sweep"}
      <4>1. game \in BOOLEAN
        BY DEF ContainersTypeOK
      <4>2. CASE ~game
        BY <2>1, <4>2 DEF LeaveLoad
      <4>3. CASE game /\ table = "none"
        BY <2>1, <4>3 DEF LeaveLoad
      <4>4. CASE game /\ table # "none"
        BY <2>1, <4>4 DEF LeaveLoad
      <4> QED
        BY <4>1, <4>2, <4>3, <4>4
    <3> QED
      BY <2>1, <3>1 DEF LeaveLoad, ContainersTypeOK
  <2>2. CASE OnMenu
    BY <2>2 DEF OnMenu, ContainersTypeOK
  <2>3. CASE AskTable
    <3>1. \/ UNCHANGED <<prev, empty, bound, watched>> /\ at' = "Sweep"
          \/ \E a \in Addr : Watch(a)
      BY <2>3 DEF AskTable, Acceptable, Present, ContainersTypeOK
    <3> QED
      BY <3>1, ContainersAssumption DEF Watch, ContainersTypeOK
  <2>4. CASE SweepFinds
    <3>1. \/ UNCHANGED <<prev, empty, bound, watched>> /\ at' = "Sweep"
          \/ \E a \in Addr : Watch(a)
      BY <2>4 DEF SweepFinds, Acceptable, Present, ContainersTypeOK
    <3> QED
      BY <3>1, ContainersAssumption DEF Watch, ContainersTypeOK
  <2>5. CASE \E c \in BOOLEAN : SweepEmpty(c)
    BY <2>5, ContainersAssumption DEF SweepEmpty, CountEmpty, sceneVars, ContainersTypeOK
  <2>6. CASE WatchEnds
    BY <2>6 DEF WatchEnds, ContainersTypeOK
  <2> QED
    BY <2>1, <2>2, <2>3, <2>4, <2>5, <2>6 DEF SplitterNext
<1>4. /\ table' \in {"none", "right", "wrong"}
      /\ misses' \in 0 .. MISSES_BEFORE_REFINDING
      /\ attempts' \in 0 .. TABLE_SEARCH_ATTEMPTS
      /\ held' \subseteq Present
  <2> USE DEF tableVars
  <2>1. CASE UNCHANGED <<held, table, misses, attempts>>
    BY <2>1 DEF ContainersTypeOK
  <2>2. CASE FindTable(0) \/ FindTable(attempts) \/ NoticeTable
    BY <2>2, FoundTable, ContainersAssumption DEF ContainersTypeOK
  <2>3. CASE UNCHANGED <<held, table, attempts>> /\ misses' \in {0, was_missing}
    BY <2>3, ContainersAssumption DEF ContainersTypeOK, was_missing, Lesser
  <2>4. \/ UNCHANGED <<held, table, misses, attempts>>
        \/ FindTable(0) \/ FindTable(attempts) \/ NoticeTable
        \/ UNCHANGED <<held, table, attempts>> /\ misses' \in {0, was_missing}
    BY DEF SplitterNext, LeaveLoad, OnMenu, AskTable, SweepFinds, SweepEmpty,
           WatchEnds
  <2> QED
    BY <2>1, <2>2, <2>3, <2>4
<1>5. {givenUp', astray'} \subseteq BOOLEAN
  <2>1. givenUp \in BOOLEAN /\ astray \in BOOLEAN
    BY DEF ContainersTypeOK
  <2>2. astray' = astray
    BY DEF SplitterNext, LeaveLoad, OnMenu, AskTable, SweepFinds, SweepEmpty, WatchEnds,
           historyVars
  <2>3. \/ givenUp' = givenUp
        \/ givenUp' = FALSE
        \/ \E c \in BOOLEAN :
             givenUp' = (givenUp \/ (c /\ empty + 1 >= GIVE_UP_SKIPPING_AFTER))
    BY DEF SplitterNext, LeaveLoad, OnMenu, AskTable, SweepFinds, SweepEmpty, WatchEnds,
           Watch, historyVars
  <2> QED
    BY <2>1, <2>2, <2>3
<1> QED
  BY <1>1, <1>2, <1>3, <1>4, <1>5 DEF ContainersTypeOK

\* The loop of `run`, whatever it finds: every state keeps its type.
THEOREM ContainersTypeCorrect == ContainersSpec => []ContainersTypeOK
<1>1. ContainersTypeOK /\ [ContainersNext]_containersVars => ContainersTypeOK'
  <2>1. ContainersTypeOK /\ UNCHANGED containersVars => ContainersTypeOK'
    BY DEF ContainersTypeOK, containersVars, sceneVars, tableVars, historyVars, Present
  <2> QED
    BY <2>1, GameContainers, SplitterContainers DEF ContainersNext
<1> QED
  BY <1>1, InitContainers, PTL DEF ContainersSpec

(***************************************************************************)
(* What is watched is the game's own.  A game that is up has a container   *)
(* to be found, and where it did not come up with a left one that is not   *)
(* skipped, the only other that may be around is the one watched last.  In *)
(* such a game the skip is given up only if there is no other: the sweeps  *)
(* prove that nothing else is there, so the game's own is what they skip.  *)
(***************************************************************************)
HasItsOwn ==
  ~loading =>
    /\ game => \E a \in Own : heap[a].clock
    /\ at # "Watch" /\ ~astray => Present \subseteq Own \cup {watched}
    /\ at # "Watch" /\ ~astray /\ givenUp => Present \subseteq Own
    /\ at = "Watch" /\ ~astray => bound \in Own

SearchesAGame == at \in {"Ask", "Sweep"} /\ ~loading => game

Skipping == HasItsOwn /\ SearchesAGame /\ (~givenUp => prev = watched)

LEMMA InitSkipping == ContainersInit => Skipping
BY DEF ContainersInit, Skipping, HasItsOwn, SearchesAGame, Own, Present, Nobody

\* While no scene loads, the game only loses containers, and none of its own.
LEMMA GameSkipping ==
  ASSUME ContainersTypeOK, Skipping, GameNext
  PROVE  Skipping'
<1> USE DEF historyVars
<1>1. CASE \E g \in BOOLEAN : StartLoad(g)
  BY <1>1 DEF StartLoad, Skipping, HasItsOwn, SearchesAGame
<1>2. CASE EndLoad
  <2>1. /\ ~loading' /\ at = "Load"
        /\ game => \E a \in Own : heap[a].clock
        /\ astray' = (givenUp \/ ~(Present \subseteq Own \cup {watched}))
        /\ UNCHANGED <<game, heap, at, prev, watched, givenUp>>
    BY <1>2 DEF EndLoad
  <2>2. Own' = Own /\ Present' = Present
    BY <2>1 DEF Own, Present
  <2> QED
    BY <2>1, <2>2 DEF Skipping, HasItsOwn, SearchesAGame
<1>3. CASE \E a \in Addr : Build(a)
  BY <1>3 DEF Build, Skipping, HasItsOwn, SearchesAGame
<1>4. CASE \E a \in Addr : BuildClock(a) \/ Collect(a)
  <2>1. PICK a \in Addr : BuildClock(a) \/ Collect(a)
    BY <1>4
  <2>2. heap \in [Addr -> Container]
        /\ UNCHANGED <<loading, game, at, prev, bound, historyVars>>
    BY <2>1 DEF BuildClock, Collect, ContainersTypeOK
  <2>3. /\ Own' = Own /\ Present' \subseteq Present
        /\ \A b \in Own : heap[b].clock => heap'[b].clock
    <3>1. CASE BuildClock(a)
      <4>1. heap' = [heap EXCEPT ![a] = [heap[a] EXCEPT !.clock = TRUE]]
            /\ heap[a].of = "own" /\ heap[a] \in Container
        BY <2>2, <3>1 DEF BuildClock, Own
      <4>2. heap[a] \in [of : {"own", "last", "older"}, clock : BOOLEAN]
            /\ heap[a] # Nobody
        BY <4>1 DEF Container, Nobody
      <4>3. heap'[a].of = "own" /\ heap'[a].clock
            /\ \A b \in Addr : b # a => heap'[b] = heap[b]
        BY <2>2, <4>1, <4>2
      <4> QED
        BY <4>1, <4>2, <4>3 DEF Own, Present
    <3>2. CASE Collect(a)
      <4>1. a \notin Own /\ heap' = [heap EXCEPT ![a] = Nobody]
        BY <3>2 DEF Collect
      <4>2. heap'[a] = Nobody /\ \A b \in Addr : b # a => heap'[b] = heap[b]
        BY <2>2, <4>1
      <4>3. Nobody.of # "own"
        BY DEF Nobody
      <4> QED
        BY <4>1, <4>2, <4>3 DEF Own, Present
    <3> QED
      BY <2>1, <3>1, <3>2
  <2>4. HasItsOwn'
    BY <2>2, <2>3 DEF Skipping, HasItsOwn
  <2> QED
    BY <2>2, <2>4 DEF Skipping, SearchesAGame
<1>5. CASE MoveTable \/ \E a \in Addr : Register(a)
  <2>1. UNCHANGED <<loading, game, heap, at, prev, bound, historyVars>>
    BY <1>5 DEF MoveTable, Register, sceneVars, tableVars
  <2> QED
    BY <2>1 DEF Skipping, HasItsOwn, SearchesAGame, Own, Present
<1> QED
  BY <1>1, <1>2, <1>3, <1>4, <1>5 DEF GameNext

\* A container that is picked is the game's own, if no load came in between.
LEMMA WatchSkipping ==
  ASSUME ContainersTypeOK, Skipping, at \in {"Ask", "Sweep"},
         UNCHANGED <<loading, game, heap, astray>>,
         NEW a \in Acceptable(Present), Watch(a)
  PROVE  Skipping'
<1>1. at' = "Watch" /\ bound' = a /\ prev' = a /\ watched' = a
  BY DEF Watch
<1>2. Own' = Own /\ Present' = Present
  BY DEF Own, Present
<1>3. ~loading /\ ~astray => a \in Own
  <2>1. a # prev /\ a \in Present
    BY DEF Acceptable
  <2> QED
    BY <2>1 DEF Skipping, HasItsOwn
<1> QED
  BY <1>1, <1>2, <1>3 DEF Skipping, HasItsOwn, SearchesAGame

\* A sweep that proves that there is nothing else: the game's own container is
\* where the one that is skipped was, so nothing is lost with the skip.
LEMMA EmptySkipping ==
  ASSUME ContainersTypeOK, Skipping,
         NEW c \in BOOLEAN, SweepEmpty(c)
  PROVE  Skipping'
<1>1. /\ at = "Sweep" /\ at' = "Load"
      /\ UNCHANGED <<loading, game, heap, bound, watched, astray>>
      /\ givenUp' = (givenUp \/ (c /\ empty + 1 >= GIVE_UP_SKIPPING_AFTER))
  BY DEF SweepEmpty, sceneVars
<1>2. Own' = Own /\ Present' = Present
  BY <1>1 DEF Own, Present
<1>3. ~givenUp' => prev' = prev
  BY <1>1 DEF SweepEmpty, CountEmpty
<1>4. ASSUME ~loading, ~astray, givenUp', ~givenUp
      PROVE  Present \subseteq Own
  <2>1. Acceptable(Present) = {}
    BY <1>1, <1>4 DEF SweepEmpty
  <2>2. PICK a \in Own : heap[a].clock
    BY <1>1, <1>4 DEF Skipping, HasItsOwn, SearchesAGame
  <2>3. a \in Present
    BY DEF Own, Present, Nobody
  <2>4. a = watched
    BY <1>4, <2>1, <2>2, <2>3 DEF Acceptable, Skipping
  <2> QED
    BY <1>1, <1>4, <2>4 DEF Skipping, HasItsOwn
<1>5. HasItsOwn'
  BY <1>1, <1>2, <1>4 DEF Skipping, HasItsOwn
<1> QED
  BY <1>1, <1>3, <1>5 DEF Skipping, SearchesAGame

LEMMA SplitterSkipping ==
  ASSUME ContainersTypeOK, Skipping, SplitterNext
  PROVE  Skipping'
<1> USE DEF historyVars
<1>1. CASE LeaveLoad
  <2>1. /\ at = "Load" /\ ~loading
        /\ UNCHANGED <<loading, game, heap, prev, bound, historyVars>>
        /\ game \in BOOLEAN
    BY <1>1 DEF LeaveLoad, sceneVars, ContainersTypeOK
  <2>2. at' \in {"Menu", "Ask", "Sweep"} /\ (~game => at' = "Menu")
    <3>1. CASE ~game
      BY <1>1, <3>1 DEF LeaveLoad
    <3>2. CASE game /\ table = "none"
      BY <1>1, <3>2 DEF LeaveLoad
    <3>3. CASE game /\ table # "none"
      BY <1>1, <3>3 DEF LeaveLoad
    <3> QED
      BY <2>1, <3>1, <3>2, <3>3
  <2> QED
    BY <2>1, <2>2 DEF Skipping, HasItsOwn, SearchesAGame, Own, Present
<1>2. CASE OnMenu
  <2>1. /\ at = "Menu" /\ at' = "Load"
        /\ UNCHANGED <<loading, game, heap, prev, bound, historyVars>>
    BY <1>2 DEF OnMenu, sceneVars
  <2> QED
    BY <2>1 DEF Skipping, HasItsOwn, SearchesAGame, Own, Present
<1>3. CASE AskTable
  <2>1. at = "Ask" /\ UNCHANGED <<loading, game, heap, astray>>
    BY <1>3 DEF AskTable, sceneVars
  <2>2. CASE \E a \in Acceptable(held) : Watch(a)
    <3>1. Acceptable(held) \subseteq Acceptable(Present)
      BY DEF Acceptable, ContainersTypeOK
    <3> QED
      BY <2>1, <2>2, <3>1, WatchSkipping
  <2>3. CASE at' = "Sweep" /\ UNCHANGED <<misses, prev, empty, bound, watched, givenUp>>
    BY <2>1, <2>3 DEF Skipping, HasItsOwn, SearchesAGame, Own, Present
  <2> QED
    BY <1>3, <2>2, <2>3 DEF AskTable
<1>4. CASE SweepFinds
  <2>1. at = "Sweep" /\ UNCHANGED <<loading, game, heap, astray>>
        /\ \E a \in Acceptable(Present) : Watch(a)
    BY <1>4 DEF SweepFinds, sceneVars
  <2> QED
    BY <2>1, WatchSkipping
<1>5. CASE \E c \in BOOLEAN : SweepEmpty(c)
  BY <1>5, EmptySkipping
<1>6. CASE WatchEnds
  <2>1. /\ loading /\ at' = "Load"
        /\ UNCHANGED <<loading, game, heap, prev, historyVars>>
    BY <1>6 DEF WatchEnds, sceneVars
  <2> QED
    BY <2>1 DEF Skipping, HasItsOwn, SearchesAGame
<1> QED
  BY <1>1, <1>2, <1>3, <1>4, <1>5, <1>6 DEF SplitterNext

\* What is watched is the container of the game that is up and not that of one
\* that was left, however many are left over a session, wherever containers are
\* built and whatever the table answers, unless the game came up with a left one
\* that is not skipped.
THEOREM TheGamesOwnIsWatched == ContainersSpec => []OwnContainer
<1>1. ContainersTypeOK /\ Skipping /\ [ContainersNext]_containersVars => Skipping'
  <2>1. Skipping /\ UNCHANGED containersVars => Skipping'
    BY DEF Skipping, HasItsOwn, SearchesAGame, Own, Present, containersVars, sceneVars,
           tableVars, historyVars
  <2> QED
    BY <2>1, GameSkipping, SplitterSkipping DEF ContainersNext
<1>2. Skipping => OwnContainer
  BY DEF Skipping, HasItsOwn, OwnContainer
<1> QED
  BY <1>1, <1>2, InitSkipping, ContainersTypeCorrect, PTL DEF ContainersSpec
=============================================================================
