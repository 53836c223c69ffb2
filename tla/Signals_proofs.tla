--------------------------- MODULE Signals_proofs ---------------------------
(***************************************************************************)
(* What holds of Signals for any names, well-being goal and number of      *)
(* reads that fail: types, that what a save restored is quiet, that the    *)
(* remembered count hides no unlock, and that the warning about the        *)
(* wonder's name is not false.                                             *)
(***************************************************************************)
EXTENDS Signals, FiniteSetTheorems, TLAPS

\* Cardinalities of the sets of names.
LEMMA NameCounts ==
  ASSUME NEW W, W \subseteq Names
  PROVE  /\ IsFiniteSet(W)
         /\ Cardinality(W) \in Nat /\ Cardinality(Names) \in Nat
         /\ Cardinality(W) <= Cardinality(Names)
         /\ Unseen \in Nat /\ Cardinality(W) < Unseen
         /\ \A n \in Names : /\ W \cup {n} \subseteq Names
                             /\ n \notin W => Cardinality(W \cup {n}) = Cardinality(W) + 1
                             /\ n \in W => W \cup {n} = W
<1>1. IsFiniteSet(Names) /\ IsFiniteSet(W)
  BY SignalsAssumption, FS_Subset
<1>2. /\ Cardinality(W) \in Nat /\ Cardinality(Names) \in Nat
      /\ Cardinality(W) <= Cardinality(Names)
  BY <1>1, FS_CardinalityType, FS_Subset
<1>3. \A n \in Names : n \notin W => Cardinality(W \cup {n}) = Cardinality(W) + 1
  BY <1>1, FS_AddElement
<1>4. \A n \in Names : n \in W => W \cup {n} = W
  OBVIOUS
<1> QED
  BY <1>1, <1>2, <1>3, <1>4 DEF Unseen

LEMMA Numbers ==
  /\ MaxFails \in Nat /\ MaxLost \in Nat /\ Highest \in Nat /\ WELLBEING_GOAL \in Nat
  /\ 0 \in 0 .. MaxFails /\ 0 \in 0 .. MaxLost /\ 0 \in 0 .. Highest /\ Highest \in 0 .. Highest
  /\ Wonder \in Names /\ Following \subseteq SUBSET Signal
<1>1. /\ MaxFails \in Nat /\ MaxLost \in Nat /\ Highest \in Nat /\ WELLBEING_GOAL \in Nat
      /\ Wonder \in Names /\ Following \subseteq SUBSET Signal
  BY SignalsAssumption
<1> QED
  BY <1>1

(***************************************************************************)
(* Types.                                                                  *)
(***************************************************************************)
LEMMA InitType == Init => TypeOK
<1> SUFFICES ASSUME Init
             PROVE  TypeOK
  OBVIOUS
<1>1. written \subseteq Names /\ count = Cardinality(written)
  BY DEF Init
<1>2. count \in 0 .. Cardinality(Names)
  BY <1>1, NameCounts
<1>3. average \in 0 .. Highest /\ fails \in 0 .. MaxFails /\ lost \in 0 .. MaxLost
  BY Numbers DEF Init
<1>4. restored \subseteq Signal
  BY DEF Init
<1>5. /\ {day, finished, created, live, lengths, run_began, warned} \subseteq BOOLEAN
      /\ followed \in Following /\ pc = "Top"
      /\ unlock = None /\ completion = None /\ bots = None /\ wellbeing = None
      /\ ended = {} /\ said = {} /\ hurt = {}
  BY DEF Init
<1> QED
  BY <1>1, <1>2, <1>3, <1>4, <1>5
     DEF TypeOK, UnlockWatcher, CompletionWatcher, BotWatcher, WellbeingWatcher

LEMMA GameType == TypeOK /\ GameNext => TypeOK'
<1> SUFFICES ASSUME TypeOK, GameNext
             PROVE  TypeOK'
  OBVIOUS
<1>1. count \in 0 .. Cardinality(Names) /\ written \subseteq Names
  BY DEF TypeOK
<1> USE DEF Unwatched, watcherVars, reportVars
<1>2. ASSUME NEW n \in Names, Unlock(n)
      PROVE  TypeOK'
  BY <1>2 DEF Unlock, TypeOK
<1>3. CASE Count
  <2>1. count' \in 0 .. Cardinality(Names)
    BY <1>1, <1>3, NameCounts DEF Count
  <2> QED
    BY <1>3, <2>1 DEF Count, TypeOK
<1>4. CASE Activate \/ Complete \/ Bot \/ FillLengths
  BY <1>4 DEF Activate, Complete, Bot, FillLengths, TypeOK
<1>5. ASSUME NEW a \in 0 .. Highest, Feel(a)
      PROVE  TypeOK'
  BY <1>5 DEF Feel, TypeOK
<1> QED
  BY <1>2, <1>3, <1>4, <1>5 DEF GameNext

\* The reads of a step: one fails or none.
LEMMA FailingType ==
  ASSUME TypeOK, NEW s \in Signal, NEW bad \in {0, 1}, Failing(s, bad)
  PROVE  /\ fails' \in 0 .. MaxFails /\ hurt' \subseteq Signal
         /\ hurt \subseteq hurt' /\ (bad = 1 => s \in hurt')
<1>1. fails \in 0 .. MaxFails /\ hurt \subseteq Signal
  BY DEF TypeOK
<1>2. fails' \in 0 .. MaxFails
  BY <1>1, Numbers DEF Failing
<1>3. (bad = 0 => hurt' = hurt) /\ (bad = 1 => hurt' = hurt \cup {s})
  BY DEF Failing
<1> QED
  BY <1>1, <1>2, <1>3

LEMMA ArrivedType == ASSUME NEW d \in BOOLEAN PROVE Arrived(d) \in BOOLEAN
BY DEF Arrived

LEMMA ResolveType ==
  ASSUME TypeOK, NEW s \in Signal, Resolve(s)
  PROVE  TypeOK'
<1>1. PICK bad \in {0, 1} :
       /\ Failing(s, bad)
       /\ \/ s = "unlock" /\ ResolveUnlock(bad) /\ UNCHANGED <<completion, bots, wellbeing>>
          \/ s = "completion" /\ ResolveCompletion(bad) /\ UNCHANGED <<unlock, bots, wellbeing>>
          \/ s = "bots" /\ ResolveBots(bad) /\ UNCHANGED <<unlock, completion, wellbeing>>
          \/ s = "wellbeing" /\ ResolveWellbeing(bad) /\ UNCHANGED <<unlock, completion, bots>>
  BY DEF Resolve, Signal
<1>2. fails' \in 0 .. MaxFails /\ hurt' \subseteq Signal
  BY <1>1, FailingType
<1>3. UNCHANGED <<followed, signalVars, lost, pc, run_began, reportVars, restored>>
  BY DEF Resolve
<1>4. ASSUME ResolveUnlock(bad)
      PROVE  unlock' \in UnlockWatcher
  <2>1. Unseen \in 0 .. Unseen
    BY NameCounts
  <2>2. Arrived(wonder_unlocked(bad)) \in BOOLEAN
    BY ArrivedType DEF wonder_unlocked
  <2> QED
    BY <1>4, <2>1, <2>2 DEF ResolveUnlock, UnlockWatcher
<1>5. ASSUME ResolveCompletion(bad)
      PROVE  completion' \in CompletionWatcher
  <2>1. Arrived(Flag(finished, bad)) \in BOOLEAN
    BY ArrivedType DEF Flag, TypeOK
  <2> QED
    BY <1>5, <2>1 DEF ResolveCompletion, CompletionWatcher
<1>6. ASSUME ResolveBots(bad)
      PROVE  bots' \in BotWatcher
  <2>1. Arrived(Flag(created, bad)) \in BOOLEAN
    BY ArrivedType DEF Flag, TypeOK
  <2> QED
    BY <1>6, <2>1 DEF ResolveBots, BotWatcher
<1>7. ASSUME ResolveWellbeing(bad)
      PROVE  wellbeing' \in WellbeingWatcher
  <2>1. Arrived(average >= WELLBEING_GOAL /\ bad = 0) \in BOOLEAN
    BY ArrivedType
  <2> QED
    BY <1>7, <2>1 DEF ResolveWellbeing, WellbeingWatcher
<1> QED
  BY <1>1, <1>2, <1>3, <1>4, <1>5, <1>6, <1>7 DEF TypeOK, signalVars, reportVars

LEMMA LoseType == TypeOK /\ (RunBegins \/ Lose) => TypeOK'
<1> SUFFICES ASSUME TypeOK, RunBegins \/ Lose
             PROVE  TypeOK'
  OBVIOUS
<1>1. lost' \in 0 .. MaxLost
  BY Numbers DEF TypeOK, RunBegins, Lose
<1> QED
  BY <1>1 DEF TypeOK, RunBegins, Lose, signalVars, reportVars, UnlockWatcher, CompletionWatcher,
              BotWatcher, WellbeingWatcher

LEMMA PollUnlockType ==
  ASSUME TypeOK, PollUnlock \/ Walk
  PROVE  TypeOK'
<1>1. unlock \in UnlockWatcher /\ count \in 0 .. Cardinality(Names)
  BY DEF TypeOK
<1>2. CASE PollUnlock
  <2>1. CASE ~ unlock.bound
    BY <1>2, <2>1 DEF PollUnlock, TypeOK, Unpolled, signalVars, reportVars
  <2>2. CASE unlock.bound
    <3>1. PICK bad \in {0, 1} :
            /\ Failing("unlock", bad)
            /\ \/ pc' = "Completion" /\ unlock' = unlock
               \/ pc' = "Walk" /\ unlock' = [unlock EXCEPT !.last_count = count]
      BY <1>2, <2>2 DEF PollUnlock
    <3>2. fails' \in 0 .. MaxFails /\ hurt' \subseteq Signal
      BY <3>1, FailingType DEF Signal
    <3>3. count \in 0 .. Unseen
      BY <1>1, NameCounts DEF Unseen
    <3>4. unlock # None
      BY <2>2 DEF None
    <3>5. unlock' \in UnlockWatcher
      BY <1>1, <3>1, <3>3, <3>4 DEF UnlockWatcher
    <3> QED
      BY <1>2, <3>1, <3>2, <3>5 DEF PollUnlock, TypeOK, Unpolled, signalVars, reportVars
  <2> QED
    BY <2>1, <2>2
<1>3. CASE Walk
  <2>1. PICK bad \in {0, 1} :
          /\ Failing("unlock", bad)
          /\ \/ unlock' = [unlock EXCEPT !.fired = TRUE] /\ said' = said \cup {"unlock"}
             \/ UNCHANGED <<unlock, said>>
    BY <1>3 DEF Walk
  <2>2. fails' \in 0 .. MaxFails /\ hurt' \subseteq Signal
    BY <2>1, FailingType DEF Signal
  <2>3. unlock' \in UnlockWatcher
    BY <1>1, <2>1 DEF UnlockWatcher, None
  <2>4. said' \subseteq Signal
    BY <2>1 DEF TypeOK, Signal
  <2> QED
    BY <1>3, <2>1, <2>2, <2>3, <2>4 DEF Walk, TypeOK, Unpolled, signalVars
<1> QED
  BY <1>2, <1>3

LEMMA PollEndsType ==
  ASSUME TypeOK, PollCompletion \/ PollBots \/ PollWellbeing \/ PollNothing
  PROVE  TypeOK'
<1>1. ASSUME NEW s \in Signal, said' \in {said, said \cup {s}}, ended' \in {ended, ended \cup {s}}
      PROVE  said' \subseteq Signal /\ ended' \subseteq Signal
  BY <1>1 DEF TypeOK
<1>2. CASE PollCompletion
  <2>1. PICK bad \in {0, 1} :
          /\ Failing("completion", bad)
          /\ completion' = [completion EXCEPT
               !.reported_length = @ \/ report_countdown_length(bad),
               !.reported_activation =
                 @ \/ (bad = 0
                       /\ (IF day THEN "set" ELSE "unset") # completion.unlock_day_on_arrival)]
          /\ \/ /\ ended' = ended \cup {"completion"} /\ said' = said \cup {"completion"}
                /\ warned' = (warned \/ (unlock.bound /\ ~ever_matched))
             \/ UNCHANGED reportVars
    BY <1>2 DEF PollCompletion
  <2>2. fails' \in 0 .. MaxFails /\ hurt' \subseteq Signal
    BY <2>1, FailingType DEF Signal
  <2>3. completion.bound /\ completion \in CompletionWatcher
    BY <1>2 DEF PollCompletion, TypeOK
  <2>4. completion' \in CompletionWatcher
    <3>1. completion # None
      BY <2>3 DEF None
    <3>2. completion.reported_length \in BOOLEAN /\ completion.reported_activation \in BOOLEAN
      BY <2>3, <3>1 DEF CompletionWatcher
    <3>3. report_countdown_length(bad) \in BOOLEAN
      BY DEF report_countdown_length
    <3> QED
      BY <2>1, <2>3, <3>1, <3>2, <3>3 DEF CompletionWatcher
  <2>5. said' \subseteq Signal /\ ended' \subseteq Signal /\ warned' \in BOOLEAN
    BY <2>1, <1>1 DEF reportVars, Signal, TypeOK
  <2> QED
    BY <1>2, <2>2, <2>4, <2>5 DEF PollCompletion, TypeOK, Unpolled, signalVars
<1>3. CASE PollBots
  <2>1. PICK bad \in {0, 1} :
          /\ Failing("bots", bad)
          /\ said' \in {said, said \cup {"bots"}} /\ ended' \in {ended, ended \cup {"bots"}}
    BY <1>3 DEF PollBots
  <2>2. fails' \in 0 .. MaxFails /\ hurt' \subseteq Signal
    BY <2>1, FailingType DEF Signal
  <2>3. said' \subseteq Signal /\ ended' \subseteq Signal
    BY <2>1, <1>1 DEF Signal
  <2> QED
    BY <1>3, <2>2, <2>3 DEF PollBots, TypeOK, Unpolled, signalVars, watcherVars
<1>4. CASE PollWellbeing
  <2>1. PICK bad \in {0, 1} :
          /\ Failing("wellbeing", bad)
          /\ said' \in {said, said \cup {"wellbeing"}}
          /\ ended' \in {ended, ended \cup {"wellbeing"}}
          /\ wellbeing' \in {wellbeing, [wellbeing EXCEPT !.fired = TRUE]}
    BY <1>4 DEF PollWellbeing
  <2>2. fails' \in 0 .. MaxFails /\ hurt' \subseteq Signal
    BY <2>1, FailingType DEF Signal
  <2>3. said' \subseteq Signal /\ ended' \subseteq Signal
    BY <2>1, <1>1 DEF Signal
  <2>4. wellbeing' \in WellbeingWatcher
    BY <2>1 DEF TypeOK, WellbeingWatcher, None
  <2> QED
    BY <1>4, <2>2, <2>3, <2>4 DEF PollWellbeing, TypeOK, Unpolled, signalVars
<1>5. CASE PollNothing
  BY <1>5 DEF PollNothing, TypeOK, Unpolled, signalVars, watcherVars, reportVars
<1> QED
  BY <1>2, <1>3, <1>4, <1>5

LEMMA NextType == TypeOK /\ [Next]_vars => TypeOK'
<1>1. TypeOK /\ UNCHANGED vars => TypeOK'
  BY DEF TypeOK, vars, signalVars, watcherVars, reportVars
<1> QED
  BY <1>1, GameType, ResolveType, LoseType, PollUnlockType, PollEndsType DEF Next, Poll

\* The variables keep their types: a watcher is none or complete, and the count
\* it remembers is one the set can have, or the one before the first read.
THEOREM SignalsTypeCorrect == Spec => []TypeOK
BY InitType, NextType, PTL DEF Spec

(***************************************************************************)
(* What is heard.  Heard is the invariant: Quiet is about what the save    *)
(* was loaded with, Counts and Behind about the count that is remembered,  *)
(* Order and SeenBefore about the end of the wonder, which comes last.     *)
(***************************************************************************)
\* Whether the watcher of a signal, if there is one, found it done on arrival.
QuietOnArrival(s) ==
  CASE s = "unlock"     -> unlock.bound => unlock.unlocked_on_arrival
    [] s = "completion" -> completion.bound => completion.was_finished_on_arrival
    [] s = "bots"       -> bots.bound => bots.created_on_arrival
    [] OTHER            -> wellbeing.bound => wellbeing.reached_on_arrival

\* What was restored is still done, and every watcher of it came upon it so.
Quiet ==
  ~run_began => \A s \in restored \ hurt : Done(s) /\ QuietOnArrival(s) /\ s \notin said

\* The set is walked only for a watcher that waits for the wonder.
Walks == pc = "Walk" => unlock.bound /\ ~unlock.unlocked_on_arrival

\* The count follows the set, and the remembered count the count.
Counts ==
  /\ count <= Cardinality(written)
  /\ unlock.bound => unlock.last_count = Unseen \/ unlock.last_count <= count

\* The wonder is activated once unlocked, and completed once activated.
Order == (day => Wonder \in written) /\ (finished => day)

\* The watcher waits for the wonder, and no read of the set has failed.
Waiting ==
  /\ unlock.bound /\ ~unlock.fired /\ ~unlock.unlocked_on_arrival
  /\ "unlock" \notin hurt

\* While the watcher waits, the remembered count is one from before the unlock;
\* once the wonder is activated the count itself has moved on.
Behind ==
  Waiting /\ pc # "Walk" =>
    /\ Wonder \in written =>
         unlock.last_count = Unseen \/ unlock.last_count < Cardinality(written)
    /\ day => unlock.last_count = Unseen \/ unlock.last_count < count

\* When the end is polled, the watcher of a finished game's set has been there.
SeenBefore == pc = "Completion" /\ finished => ~Waiting

Heard == Quiet /\ Walks /\ Counts /\ Order /\ Behind /\ SeenBefore /\ NoFalseAlarm

LEMMA InitHeard == Init => Heard
<1> SUFFICES ASSUME Init
             PROVE  Heard
  OBVIOUS
<1>1. /\ ~unlock.bound /\ ~completion.bound /\ ~bots.bound /\ ~wellbeing.bound
      /\ pc = "Top" /\ ~warned /\ said = {}
  BY DEF Init, None
<1>2. Quiet
  BY <1>1 DEF Init, Quiet, QuietOnArrival
<1>3. Counts
  <2>1. written \subseteq Names /\ count = Cardinality(written)
    BY DEF Init
  <2> QED
    BY <1>1, <2>1, NameCounts DEF Counts
<1>4. Walks /\ Order /\ Behind /\ SeenBefore /\ NoFalseAlarm
  BY <1>1 DEF Init, Walks, Order, Behind, Waiting, SeenBefore, NoFalseAlarm
<1> QED
  BY <1>2, <1>3, <1>4 DEF Heard

\* The game only adds to what is done, except that the well-being falls, which
\* takes it off what was restored.
LEMMA GameDone ==
  ASSUME TypeOK, GameNext
  PROVE  /\ restored' \subseteq restored
         /\ \A s \in Signal : s \in restored' /\ Done(s) => Done(s)'
         /\ UNCHANGED <<pc, run_began, unlock, completion, bots, wellbeing, said, warned, hurt>>
<1> USE DEF Done, Unwatched, watcherVars, reportVars
<1>1. ASSUME NEW n \in Names, Unlock(n)
      PROVE  /\ restored' = restored /\ written \subseteq written'
             /\ UNCHANGED <<finished, created, average, Unwatched>>
  BY <1>1 DEF Unlock
<1>2. CASE Count \/ Activate \/ Complete \/ Bot \/ FillLengths
  BY <1>2 DEF Count, Activate, Complete, Bot, FillLengths
<1>3. ASSUME NEW a \in 0 .. Highest, Feel(a)
      PROVE  /\ restored' \subseteq restored
             /\ "wellbeing" \in restored' => average' >= WELLBEING_GOAL
             /\ UNCHANGED <<written, finished, created, Unwatched>>
  <2>1. ~(a < WELLBEING_GOAL) => a >= WELLBEING_GOAL
    BY Numbers
  <2> QED
    BY <1>3, <2>1 DEF Feel
<1>4. ASSUME NEW n \in Names, Unlock(n)
      PROVE  /\ restored' \subseteq restored
             /\ \A s \in Signal : s \in restored' /\ Done(s) => Done(s)'
             /\ UNCHANGED <<pc, run_began, unlock, completion, bots, wellbeing, said, warned, hurt>>
  BY <1>1, <1>4
<1>5. ASSUME NEW a \in 0 .. Highest, Feel(a)
      PROVE  /\ restored' \subseteq restored
             /\ \A s \in Signal : s \in restored' /\ Done(s) => Done(s)'
             /\ UNCHANGED <<pc, run_began, unlock, completion, bots, wellbeing, said, warned, hurt>>
  BY <1>3, <1>5 DEF Signal
<1> QED
  BY <1>2, <1>4, <1>5 DEF GameNext

\* The set grows, by the wonder only while it is counted; the count follows.
LEMMA GameCounts ==
  ASSUME TypeOK, Heard, GameNext
  PROVE  Counts' /\ Order' /\ Behind'
<1>1. /\ written \subseteq Names /\ count \in Nat /\ Cardinality(written) \in Nat
      /\ count <= Cardinality(written) /\ Unseen \in Nat
  BY NameCounts DEF TypeOK, Heard, Counts
<1>2. unlock.bound => unlock.last_count \in Nat
  <2>1. unlock.bound => unlock # None
    BY DEF None
  <2>2. unlock.bound => unlock.last_count \in 0 .. Unseen
    BY <2>1 DEF TypeOK, UnlockWatcher
  <2> QED
    BY <1>1, <2>2
<1>3. UNCHANGED <<pc, unlock, hurt>>
  BY GameDone
<1>4. unlock.bound => unlock.last_count = Unseen \/ unlock.last_count <= count
  BY DEF Heard, Counts
<1>5. Order /\ Behind
  BY DEF Heard
<1>6. ASSUME NEW n \in Names, Unlock(n)
      PROVE  Counts' /\ Order' /\ Behind'
  <2>1. written' = written \cup {n} /\ count = Cardinality(written)
    BY <1>6 DEF Unlock
  <2>2. UNCHANGED <<count, day, finished>>
    BY <1>6 DEF Unlock
  <2>3. CASE n \in written
    <3>1. written' = written
      BY <2>1, <2>3
    <3> QED
      BY <1>3, <1>4, <1>5, <2>1, <2>2, <3>1, <1>1 DEF Counts, Order, Behind, Waiting, Unseen
  <2>4. CASE n \notin written
    <3>1. Cardinality(written') = Cardinality(written) + 1
      BY <1>1, <2>1, <2>4, NameCounts
    <3>2. Counts' /\ Order'
      BY <1>1, <1>3, <1>4, <1>5, <2>1, <2>2, <3>1 DEF Counts, Order, Unseen
    <3>3. Behind'
      BY <1>1, <1>2, <1>3, <1>4, <1>5, <2>1, <2>2, <3>1 DEF Behind, Waiting, Unseen
    <3> QED
      BY <3>2, <3>3
  <2> QED
    BY <2>3, <2>4
<1>7. CASE Count
  <2>1. count < Cardinality(written) /\ count' = count + 1
    BY <1>7 DEF Count
  <2>2. UNCHANGED <<written, day, finished>>
    BY <1>7 DEF Count
  <2>3. Counts' /\ Order'
    BY <1>1, <1>2, <1>3, <1>4, <1>5, <2>1, <2>2 DEF Counts, Order, Unseen
  <2>4. Behind'
    BY <1>1, <1>2, <1>3, <1>5, <2>1, <2>2 DEF Behind, Waiting, Unseen
  <2> QED
    BY <2>3, <2>4
<1>8. CASE Activate
  <2>1. Wonder \in written /\ count = Cardinality(written) /\ day'
    BY <1>8 DEF Activate
  <2>2. UNCHANGED <<written, count, finished>>
    BY <1>8 DEF Activate
  <2> QED
    BY <1>3, <1>4, <1>5, <1>1, <2>1, <2>2 DEF Counts, Order, Behind, Waiting, Unseen
<1>9. CASE Complete
  <2>1. day /\ UNCHANGED <<written, count, day>>
    BY <1>9 DEF Complete
  <2> QED
    BY <1>1, <1>3, <1>4, <1>5, <2>1 DEF Counts, Order, Behind, Waiting, Unseen
<1>10. ASSUME UNCHANGED <<written, count, day, finished>>
       PROVE  Counts' /\ Order' /\ Behind'
  BY <1>1, <1>3, <1>4, <1>5, <1>10 DEF Counts, Order, Behind, Waiting, Unseen
<1>11. CASE Bot \/ FillLengths \/ \E a \in 0 .. Highest : Feel(a)
  BY <1>10, <1>11 DEF Bot, FillLengths, Feel
<1> QED
  BY <1>6, <1>7, <1>8, <1>9, <1>11 DEF GameNext

LEMMA GameHeard == TypeOK /\ Heard /\ GameNext => Heard'
<1> SUFFICES ASSUME TypeOK, Heard, GameNext
             PROVE  Heard'
  OBVIOUS
<1>1. /\ restored' \subseteq restored
      /\ \A s \in Signal : s \in restored' /\ Done(s) => Done(s)'
      /\ UNCHANGED <<pc, run_began, unlock, completion, bots, wellbeing, said, warned, hurt>>
  BY GameDone
<1>2. Quiet'
  <2>1. restored \subseteq Signal
    BY DEF TypeOK
  <2>2. \A s \in Signal : QuietOnArrival(s)' = QuietOnArrival(s)
    BY <1>1 DEF QuietOnArrival
  <2> QED
    BY <1>1, <2>1, <2>2 DEF Heard, Quiet
<1>3. SeenBefore'
  <2>1. CASE pc = "Completion"
    <3>1. finished' = finished
      BY <2>1 DEF GameNext, Unlock, Count, Activate, Complete, Bot, Feel, FillLengths
    <3> QED
      BY <1>1, <3>1 DEF Heard, SeenBefore, Waiting
  <2>2. CASE pc # "Completion"
    BY <1>1, <2>2 DEF SeenBefore
  <2> QED
    BY <2>1, <2>2
<1>4. Walks' /\ NoFalseAlarm'
  BY <1>1 DEF Heard, Walks, NoFalseAlarm
<1> QED
  BY <1>2, <1>3, <1>4, GameCounts DEF Heard

\* What is done when a watcher arrives, before the run, is found so.
LEMMA ResolveHeard ==
  ASSUME TypeOK, Heard, NEW s \in Signal, Resolve(s)
  PROVE  Heard'
<1>1. PICK bad \in {0, 1} :
       /\ Failing(s, bad)
       /\ \/ s = "unlock" /\ ResolveUnlock(bad) /\ UNCHANGED <<completion, bots, wellbeing>>
          \/ s = "completion" /\ ResolveCompletion(bad) /\ UNCHANGED <<unlock, bots, wellbeing>>
          \/ s = "bots" /\ ResolveBots(bad) /\ UNCHANGED <<unlock, completion, wellbeing>>
          \/ s = "wellbeing" /\ ResolveWellbeing(bad) /\ UNCHANGED <<unlock, completion, bots>>
  BY DEF Resolve, Signal
<1>2. /\ pc = "Top" /\ UNCHANGED <<pc, written, count, day, finished, created, average>>
      /\ UNCHANGED <<run_began, said, warned, restored>>
  BY DEF Resolve, signalVars, reportVars
<1>3. hurt \subseteq hurt' /\ (bad = 1 => s \in hurt')
  BY <1>1, FailingType
<1>4. Quiet'
  <2>1. ASSUME ~run_began, NEW r \in restored, r \notin hurt'
        PROVE  QuietOnArrival(r)'
    <3>1. /\ Done(r) /\ QuietOnArrival(r) /\ ~run_began /\ r \in Signal
          /\ (r = s => bad = 0)
      BY <1>1, <1>3, <2>1 DEF Heard, Quiet, TypeOK
    <3>2. CASE r # s
      BY <1>1, <3>1, <3>2 DEF QuietOnArrival, Signal
    <3>3. CASE r = s /\ s = "unlock"
      <4>1. Arrived(wonder_unlocked(bad)) = TRUE
        BY <3>1, <3>3 DEF Done, wonder_unlocked, Arrived
      <4>2. unlock'.unlocked_on_arrival = TRUE
        <5>1. unlock'.unlocked_on_arrival = Arrived(wonder_unlocked(bad))
          BY <1>1, <3>3 DEF ResolveUnlock
        <5> QED
          BY <4>1, <5>1
      <4> QED
        BY <3>3, <4>2 DEF QuietOnArrival
    <3>4. CASE r = s /\ s = "completion"
      <4>1. Arrived(Flag(finished, bad)) = TRUE
        BY <3>1, <3>4 DEF Done, Flag, Arrived
      <4>2. completion'.was_finished_on_arrival = TRUE
        <5>1. completion'.was_finished_on_arrival = Arrived(Flag(finished, bad))
          BY <1>1, <3>4 DEF ResolveCompletion
        <5> QED
          BY <4>1, <5>1
      <4> QED
        BY <3>4, <4>2 DEF QuietOnArrival
    <3>5. CASE r = s /\ s = "bots"
      <4>1. Arrived(Flag(created, bad)) = TRUE
        BY <3>1, <3>5 DEF Done, Flag, Arrived
      <4>2. bots'.created_on_arrival = TRUE
        <5>1. bots'.created_on_arrival = Arrived(Flag(created, bad))
          BY <1>1, <3>5 DEF ResolveBots
        <5> QED
          BY <4>1, <5>1
      <4> QED
        BY <3>5, <4>2 DEF QuietOnArrival
    <3>6. CASE r = s /\ s = "wellbeing"
      <4>1. Arrived(average >= WELLBEING_GOAL /\ bad = 0) = TRUE
        BY <3>1, <3>6 DEF Done, Arrived
      <4>2. wellbeing'.reached_on_arrival = TRUE
        BY <1>1, <3>6, <4>1 DEF ResolveWellbeing
      <4> QED
        BY <3>6, <4>2 DEF QuietOnArrival
    <3> QED
      BY <3>2, <3>3, <3>4, <3>5, <3>6 DEF Signal
  <2>2. \A r \in Signal : Done(r)' = Done(r)
    BY <1>2 DEF Done
  <2> QED
    BY <1>2, <1>3, <2>1, <2>2 DEF Heard, Quiet, TypeOK
<1>5. \/ unlock' = unlock
      \/ unlock'.bound /\ unlock'.last_count = Unseen
  BY <1>1 DEF ResolveUnlock
<1>6. Counts' /\ Order' /\ Behind'
  BY <1>2, <1>3, <1>5 DEF Heard, Counts, Order, Behind, Waiting, Unseen
<1>7. Walks' /\ SeenBefore' /\ NoFalseAlarm'
  BY <1>2, <1>3 DEF Heard, Walks, SeenBefore, NoFalseAlarm
<1> QED
  BY <1>4, <1>6, <1>7 DEF Heard

\* A watcher that is let go says nothing.
LEMMA LoseHeard == TypeOK /\ Heard /\ (RunBegins \/ Lose) => Heard'
<1> SUFFICES ASSUME TypeOK, Heard, RunBegins \/ Lose
             PROVE  Heard'
  OBVIOUS
<1>1. /\ pc = "Top" /\ UNCHANGED <<pc, written, count, day, finished, created, average>>
      /\ UNCHANGED <<said, warned, restored, hurt>>
  BY DEF RunBegins, Lose, signalVars, reportVars
<1>2. /\ unlock' = unlock \/ ~unlock'.bound
      /\ completion' = completion \/ ~completion'.bound
      /\ bots' = bots \/ ~bots'.bound
      /\ wellbeing' = wellbeing \/ ~wellbeing'.bound
      /\ run_began => run_began'
  BY DEF RunBegins, Lose, None
<1>3. Quiet'
  <2>1. \A s \in Signal : Done(s)' = Done(s) /\ (QuietOnArrival(s) => QuietOnArrival(s)')
    BY <1>1, <1>2 DEF Done, QuietOnArrival
  <2> QED
    BY <1>1, <1>2, <2>1 DEF Heard, Quiet, TypeOK
<1>4. Counts' /\ Order' /\ Behind'
  BY <1>1, <1>2 DEF Heard, Counts, Order, Behind, Waiting, Unseen
<1>5. Walks' /\ SeenBefore' /\ NoFalseAlarm'
  BY <1>1 DEF Heard, Walks, SeenBefore, NoFalseAlarm
<1> QED
  BY <1>3, <1>4, <1>5 DEF Heard

\* A poll reports a signal only if its watcher did not find it done on arrival.
LEMMA PollQuiet ==
  ASSUME TypeOK, Heard, Poll
  PROVE  Quiet'
<1>1. UNCHANGED <<run_began, restored, written, finished, created, average>>
  BY DEF Poll, PollUnlock, Walk, PollCompletion, PollBots, PollWellbeing, PollNothing, Unpolled,
         signalVars
<1>2. hurt \subseteq hurt'
  BY FailingType DEF Poll, PollUnlock, Walk, PollCompletion, PollBots, PollWellbeing,
                     PollNothing, Signal
<1>3. \A s \in Signal : Done(s)' = Done(s)
  BY <1>1 DEF Done
<1>4. SUFFICES ASSUME ~run_began, NEW s \in restored, s \notin hurt
               PROVE  QuietOnArrival(s)' /\ s \notin said'
  BY <1>1, <1>2, <1>3 DEF Heard, Quiet, TypeOK
<1>5. QuietOnArrival(s) /\ s \notin said /\ s \in Signal
  BY <1>4 DEF Heard, Quiet, TypeOK
<1> USE DEF QuietOnArrival, Unpolled, watcherVars, reportVars
<1>6. CASE PollUnlock
  <2>1. UNCHANGED <<completion, bots, wellbeing, said>>
    BY <1>6 DEF PollUnlock
  <2>2. CASE unlock' = unlock
    BY <1>5, <2>1, <2>2
  <2>3. CASE unlock.bound /\ unlock' = [unlock EXCEPT !.last_count = count]
    <3>1. unlock # None
      BY <2>3 DEF None
    <3>2. unlock'.unlocked_on_arrival = unlock.unlocked_on_arrival
      BY <2>3, <3>1 DEF TypeOK, UnlockWatcher
    <3> QED
      BY <1>5, <2>1, <2>3, <3>2
  <2> QED
    BY <1>6, <2>2, <2>3 DEF PollUnlock
<1>7. CASE Walk
  <2>1. unlock.bound /\ ~unlock.unlocked_on_arrival
    BY <1>7 DEF Walk, Heard, Walks
  <2>2. s # "unlock"
    BY <1>5, <2>1
  <2> QED
    BY <1>5, <1>7, <2>2 DEF Walk, Signal
<1>8. CASE PollCompletion
  <2>1. UNCHANGED <<unlock, bots, wellbeing>> /\ completion.bound
    BY <1>8 DEF PollCompletion
  <2>2. completion # None /\ completion \in CompletionWatcher
    BY <2>1 DEF None, TypeOK
  <2>3. completion'.was_finished_on_arrival = completion.was_finished_on_arrival
    BY <1>8, <2>2 DEF PollCompletion, CompletionWatcher
  <2>4. \/ said' = said
        \/ said' = said \cup {"completion"} /\ ~completion.was_finished_on_arrival
    BY <1>8 DEF PollCompletion
  <2> QED
    BY <1>5, <2>1, <2>3, <2>4 DEF Signal
<1>9. CASE PollBots
  <2>1. UNCHANGED <<unlock, completion, bots, wellbeing>> /\ bots.bound
    BY <1>9 DEF PollBots
  <2>2. \/ said' = said
        \/ said' = said \cup {"bots"} /\ ~bots.created_on_arrival
    BY <1>9 DEF PollBots
  <2> QED
    BY <1>5, <2>1, <2>2 DEF Signal
<1>10. CASE PollWellbeing
  <2>1. UNCHANGED <<unlock, completion, bots>> /\ wellbeing.bound
    BY <1>10 DEF PollWellbeing
  <2>2. wellbeing # None /\ wellbeing \in WellbeingWatcher
    BY <2>1 DEF None, TypeOK
  <2>3. \/ said' = said /\ wellbeing' = wellbeing
        \/ /\ said' = said \cup {"wellbeing"} /\ ~wellbeing.reached_on_arrival
           /\ wellbeing' = [wellbeing EXCEPT !.fired = TRUE]
    BY <1>10 DEF PollWellbeing
  <2> QED
    BY <1>5, <2>1, <2>2, <2>3 DEF Signal, WellbeingWatcher
<1>11. CASE PollNothing
  BY <1>5, <1>11 DEF PollNothing
<1> QED
  BY <1>6, <1>7, <1>8, <1>9, <1>10, <1>11 DEF Poll

\* What a poll of the set leaves behind.
LEMMA PollBehind ==
  ASSUME TypeOK, Heard, Poll
  PROVE  Counts' /\ Order' /\ Behind' /\ Walks' /\ SeenBefore'
<1>1. UNCHANGED <<written, count, day, finished>>
  BY DEF Poll, PollUnlock, Walk, PollCompletion, PollBots, PollWellbeing, PollNothing, Unpolled,
         signalVars
<1>2. hurt \subseteq hurt'
  BY FailingType DEF Poll, PollUnlock, Walk, PollCompletion, PollBots, PollWellbeing,
                     PollNothing, Signal
<1>3. /\ count <= Cardinality(written) /\ count \in Nat /\ Cardinality(written) \in Nat
      /\ Cardinality(written) < Unseen /\ Unseen \in Nat
  BY NameCounts DEF TypeOK, Heard, Counts
<1>4. Counts /\ Order /\ Behind /\ Walks /\ SeenBefore
  BY DEF Heard
<1>5. Order'
  BY <1>1, <1>4 DEF Order
<1>6. CASE PollUnlock
  <2>1. pc = "Top"
    BY <1>6 DEF PollUnlock
  <2>2. CASE ~unlock.bound
    BY <1>1, <1>2, <1>4, <1>5, <1>6, <2>2
       DEF PollUnlock, Counts, Behind, Waiting, Walks, SeenBefore, Unseen
  <2>3. CASE unlock.bound
    <3>1. PICK bad \in {0, 1} :
            /\ Failing("unlock", bad)
            /\ IF unlock.fired \/ unlock.unlocked_on_arrival \/ bad > 0
                  \/ unlock.last_count = count
                 THEN pc' = "Completion" /\ UNCHANGED unlock
                 ELSE pc' = "Walk" /\ unlock' = [unlock EXCEPT !.last_count = count]
      BY <1>6, <2>3 DEF PollUnlock
    <3>2. bad > 0 => "unlock" \in hurt'
      BY <3>1, FailingType DEF Signal
    <3>3. CASE pc' = "Completion" /\ unlock' = unlock
      <4>1. Counts' /\ Behind' /\ Walks'
        BY <1>1, <1>2, <1>4, <2>1, <3>3 DEF Counts, Behind, Waiting, Walks, Unseen
      <4>2. ASSUME finished, Waiting'
            PROVE  FALSE
        <5>1. day /\ Waiting
          BY <1>2, <1>4, <3>3, <4>2 DEF Order, Waiting
        <5>2. unlock.last_count = Unseen \/ unlock.last_count < count
          BY <1>4, <2>1, <5>1 DEF Behind
        <5>3. unlock.last_count # count
          BY <1>3, <5>2
        <5> QED
          BY <3>1, <3>2, <3>3, <4>2, <5>1, <5>3 DEF Waiting
      <4> QED
        BY <1>1, <1>5, <4>1, <4>2 DEF SeenBefore
    <3>4. CASE /\ pc' = "Walk" /\ unlock' = [unlock EXCEPT !.last_count = count]
               /\ ~unlock.unlocked_on_arrival
      <4>1. unlock # None
        BY <2>3 DEF None
      <4>2. /\ unlock'.bound /\ unlock'.last_count = count
            /\ ~unlock'.unlocked_on_arrival
        BY <2>3, <3>4, <4>1 DEF TypeOK, UnlockWatcher
      <4> QED
        BY <1>1, <1>3, <1>5, <3>4, <4>2 DEF Counts, Behind, Walks, SeenBefore, Unseen
    <3> QED
      BY <3>1, <3>3, <3>4
  <2> QED
    BY <2>2, <2>3
<1>7. CASE Walk
  <2>1. PICK bad \in {0, 1} :
          /\ Failing("unlock", bad)
          /\ IF wonder_unlocked(bad)
               THEN unlock' = [unlock EXCEPT !.fired = TRUE] /\ said' = said \cup {"unlock"}
               ELSE UNCHANGED <<unlock, said>>
    BY <1>7 DEF Walk
  <2>2. pc' = "Completion" /\ unlock.bound
    BY <1>4, <1>7 DEF Walk, Walks
  <2>3. unlock # None
    BY <2>2 DEF None
  <2>4. /\ unlock'.bound = unlock.bound /\ unlock'.last_count = unlock.last_count
        /\ Wonder \in written => ~Waiting'
    <3>1. CASE wonder_unlocked(bad)
      BY <2>1, <2>3, <3>1 DEF TypeOK, UnlockWatcher, Waiting
    <3>2. CASE ~wonder_unlocked(bad)
      <4>1. bad = 1 => "unlock" \in hurt'
        BY <2>1, FailingType DEF Signal
      <4> QED
        BY <2>1, <3>2, <4>1 DEF wonder_unlocked, Waiting
    <3> QED
      BY <3>1, <3>2
  <2> QED
    BY <1>1, <1>4, <1>5, <2>2, <2>4 DEF Counts, Order, Behind, Walks, SeenBefore, Unseen
<1>8. CASE PollCompletion \/ PollBots \/ PollWellbeing \/ PollNothing
  <2>1. /\ unlock' = unlock
        /\ pc # "Walk" /\ pc' \in {"Bots", "Wellbeing", "Top"}
    BY <1>8 DEF PollCompletion, PollBots, PollWellbeing, PollNothing, watcherVars
  <2> QED
    BY <1>1, <1>2, <1>4, <1>5, <2>1 DEF Counts, Behind, Waiting, Walks, SeenBefore, Unseen
<1> QED
  BY <1>5, <1>6, <1>7, <1>8 DEF Poll

\* The warning is given for a finished game whose unlock its watcher missed.
LEMMA PollAlarm ==
  ASSUME TypeOK, Heard, Poll
  PROVE  NoFalseAlarm'
<1>1. hurt \subseteq hurt'
  BY FailingType DEF Poll, PollUnlock, Walk, PollCompletion, PollBots, PollWellbeing,
                     PollNothing, Signal
<1>2. \/ warned' = warned
      \/ warned' /\ (warned \/ (pc = "Completion" /\ finished /\ unlock.bound /\ ~ever_matched))
  <2>1. CASE PollCompletion
    BY <2>1 DEF PollCompletion, reportVars, Flag, TypeOK
  <2>2. CASE ~PollCompletion
    BY <2>2 DEF Poll, PollUnlock, Walk, PollBots, PollWellbeing, PollNothing, reportVars
  <2> QED
    BY <2>1, <2>2
<1>3. pc = "Completion" /\ finished /\ unlock.bound /\ ~ever_matched => "unlock" \in hurt
  BY DEF Heard, SeenBefore, Waiting, ever_matched
<1> QED
  BY <1>1, <1>2, <1>3 DEF Heard, NoFalseAlarm

LEMMA NextHeard == TypeOK /\ Heard /\ [Next]_vars => Heard'
<1>1. TypeOK /\ Heard /\ Poll => Heard'
  BY PollQuiet, PollBehind, PollAlarm DEF Heard
<1>2. ASSUME Heard, UNCHANGED vars
      PROVE  Heard'
  <2>1. Quiet'
    <3>1. \A s \in Signal : Done(s)' = Done(s) /\ QuietOnArrival(s)' = QuietOnArrival(s)
      BY <1>2 DEF Done, QuietOnArrival, vars, signalVars, watcherVars
    <3>2. UNCHANGED <<restored, hurt, run_began, said>>
      BY <1>2 DEF vars, reportVars
    <3> QED
      BY <1>2, <3>1, <3>2 DEF Heard, Quiet, Done, QuietOnArrival, vars, signalVars, watcherVars
  <2> QED
    BY <1>2, <2>1 DEF Heard, Walks, Counts, Order, Behind, Waiting, SeenBefore, NoFalseAlarm,
                      Unseen, vars, signalVars, watcherVars, reportVars
<1> QED
  BY <1>1, <1>2, GameHeard, ResolveHeard, LoseHeard DEF Next

\* Heard is an invariant.
THEOREM SignalsInvariance == Spec => [](TypeOK /\ Heard)
<1>1. Init => TypeOK /\ Heard
  BY InitType, InitHeard
<1>2. TypeOK /\ Heard /\ [Next]_vars => (TypeOK /\ Heard)'
  BY NextType, NextHeard
<1> QED
  BY <1>1, <1>2, PTL DEF Spec

\* What a save was loaded with is not reported as news before a run has begun,
\* unless a read failed.
THEOREM TheRestoredIsQuiet == Spec => []RestoredIsQuiet
<1>1. TypeOK /\ Heard => RestoredIsQuiet
  BY DEF Heard, Quiet, RestoredIsQuiet
<1> QED
  BY <1>1, SignalsInvariance, PTL

\* A watcher whose remembered count is the set's has read the wonder's absence,
\* or a read failed: no unlock is slept through.
THEOREM TheUnlockIsNotSlept == Spec => []UnlockIsNotSlept
<1>1. TypeOK /\ Heard => UnlockIsNotSlept
  <2>1. TypeOK => Cardinality(written) \in Nat /\ Cardinality(written) < Unseen /\ Unseen \in Nat
    BY NameCounts DEF TypeOK
  <2> QED
    BY <2>1 DEF Heard, Behind, Waiting, UnlockIsNotSlept
<1> QED
  BY <1>1, SignalsInvariance, PTL

\* The warning about the wonder's name is given only after a read that failed.
THEOREM TheAlarmIsNotFalse == Spec => []NoFalseAlarm
<1>1. TypeOK /\ Heard => NoFalseAlarm
  BY DEF Heard
<1> QED
  BY <1>1, SignalsInvariance, PTL
=============================================================================
