------------------------------- MODULE Signals ------------------------------
(***************************************************************************)
(* What the four signals of a game are read from: WonderUnlock,            *)
(* WonderCompletion, BotCreation and WellbeingGoal of src/src/lib.rs, the  *)
(* part of `watch` that resolves and polls them, and the hash set behind   *)
(* the first (src/src/collections.rs).                                     *)
(*                                                                         *)
(* Splits has one flag for each of them.  Here are the values: a set whose *)
(* count is looked at every tick and whose members are only when it moved, *)
(* a flag beside a count that goes down again, an average that moves both  *)
(* ways, and reads that fail, when a watcher arrives as well as later.     *)
(***************************************************************************)
EXTENDS Naturals, FiniteSets

CONSTANTS
  Names,           \* templates that are unlocked, the wonder's among them
  Wonder,
  WELLBEING_GOAL,
  Highest,         \* bound: the average well-being
  MaxFails,        \* bound: reads that fail
  MaxLost,         \* bound: watched objects that stop validating
  Following        \* which watchers a behaviour follows together

Signal == {"unlock", "completion", "bots", "wellbeing"}

ASSUME SignalsAssumption ==
  /\ IsFiniteSet(Names) /\ Wonder \in Names
  /\ WELLBEING_GOAL \in Nat /\ Highest \in Nat
  /\ MaxFails \in Nat /\ MaxLost \in Nat
  /\ Following \subseteq SUBSET Signal

VARIABLES
  followed,
  written,      \* _unlockedBuildings: what is in its slots
  count,        \* ... and its _count, which follows
  day,          \* _unlockDay is set: the wonder was activated
  finished,     \* CountdownFinished
  created,      \* BotCreated
  live,         \* a bot is alive
  average,      \* AverageGlobalWellbeing
  lengths,      \* the clock's constants are filled in
  fails, lost,  \* reads that failed, objects that were lost
  pc,           \* Top of a tick, Walk of the set, then the end that is polled next
  run_began,
  unlock, completion, bots, wellbeing,  \* the watchers
  ended,        \* the ends that were reported
  said,         \* history: the signals that were reported
  restored,     \* history: what the save was loaded with
  hurt,         \* history: signals a read failed for
  warned        \* the warning at the end was printed

signalVars  == <<written, count, day, finished, created, live, average, lengths>>
watcherVars == <<unlock, completion, bots, wellbeing>>
reportVars  == <<ended, said, warned>>
vars == <<followed, signalVars, fails, lost, pc, run_began, watcherVars, reportVars,
          restored, hurt>>

None   == [bound |-> FALSE]
Unseen == Cardinality(Names) + 1   \* last_count before the first read

UnlockWatcher == {None} \cup
  [bound : {TRUE}, last_count : 0 .. Unseen, unlocked_on_arrival : BOOLEAN, fired : BOOLEAN]
CompletionWatcher == {None} \cup
  [bound : {TRUE}, unlock_day_on_arrival : {"unread", "unset", "set"},
   reported_activation : BOOLEAN, reported_length : BOOLEAN,
   was_finished_on_arrival : BOOLEAN]
BotWatcher == {None} \cup [bound : {TRUE}, created_on_arrival : BOOLEAN]
WellbeingWatcher == {None} \cup
  [bound : {TRUE}, reached_on_arrival : BOOLEAN, fired : BOOLEAN]

TypeOK ==
  /\ followed \in Following
  /\ written \subseteq Names /\ count \in 0 .. Cardinality(Names)
  /\ {day, finished, created, live, lengths, run_began, warned} \subseteq BOOLEAN
  /\ average \in 0 .. Highest
  /\ fails \in 0 .. MaxFails /\ lost \in 0 .. MaxLost
  /\ pc \in {"Top", "Walk", "Completion", "Bots", "Wellbeing"}
  /\ unlock \in UnlockWatcher /\ completion \in CompletionWatcher
  /\ bots \in BotWatcher /\ wellbeing \in WellbeingWatcher
  /\ {ended, said, restored, hurt} \subseteq SUBSET Signal

Done(s) ==
  CASE s = "unlock"     -> Wonder \in written
    [] s = "completion" -> finished
    [] s = "bots"       -> created
    [] OTHER            -> average >= WELLBEING_GOAL

\* A new game, or a save with anything done in it that the game allows.  A run
\* is under way already if the run start fired during the container scan, which
\* it does for a new game and for a save the loader said nothing of.
Init ==
  /\ followed \in Following
  /\ written \in SUBSET Names /\ count = Cardinality(written)
  /\ day \in BOOLEAN /\ finished \in BOOLEAN
  /\ day => Wonder \in written
  /\ finished => day
  /\ created \in BOOLEAN /\ live \in BOOLEAN /\ (live => created)
  /\ average \in {0, Highest}
  /\ lengths = FALSE
  /\ fails = 0 /\ lost = 0
  /\ pc = "Top" /\ run_began \in BOOLEAN
  /\ unlock = None /\ completion = None /\ bots = None /\ wellbeing = None
  /\ ended = {} /\ said = {} /\ warned = FALSE /\ hurt = {}
  /\ restored = {s \in Signal : Done(s)}
  /\ \A s \in Signal \ followed : s \notin restored
  /\ {"unlock", "completion"} \cap followed = {} => written = {}

(***************************************************************************)
(* The game.                                                               *)
(***************************************************************************)
Unwatched == <<followed, fails, lost, pc, run_began, watcherVars, reportVars, hurt>>

\* The entry of a name is there before the count includes it.
Unlock(n) ==
  /\ "unlock" \in followed
  /\ count = Cardinality(written)
  /\ written' = written \cup {n}
  /\ UNCHANGED <<count, day, finished, created, live, average, lengths, restored, Unwatched>>

Count ==
  /\ count < Cardinality(written)
  /\ count' = count + 1
  /\ UNCHANGED <<written, day, finished, created, live, average, lengths, restored, Unwatched>>

Activate ==
  /\ Wonder \in written /\ count = Cardinality(written)
  /\ day' = TRUE
  /\ UNCHANGED <<written, count, finished, created, live, average, lengths, restored, Unwatched>>

\* The countdown in between is longer than what is left of a tick.
Complete ==
  /\ day /\ "completion" \in followed
  /\ pc = "Top"
  /\ finished' = TRUE
  /\ UNCHANGED <<written, count, day, created, live, average, lengths, restored, Unwatched>>

\* A bot is produced or destroyed; that there was one stays.
Bot ==
  /\ "bots" \in followed
  /\ live' = ~live
  /\ created' = TRUE
  /\ UNCHANGED <<written, count, day, finished, average, lengths, restored, Unwatched>>

Feel(a) ==
  /\ "wellbeing" \in followed
  /\ average' = a
  /\ restored' = IF a < WELLBEING_GOAL THEN restored \ {"wellbeing"} ELSE restored
  /\ UNCHANGED <<written, count, day, finished, created, live, lengths, Unwatched>>

FillLengths ==
  /\ ~lengths /\ "completion" \in followed
  /\ lengths' = TRUE
  /\ UNCHANGED <<written, count, day, finished, created, live, average, restored, Unwatched>>

(***************************************************************************)
(* Reading.                                                                *)
(***************************************************************************)
\* Up to how many of the reads of `s` that a step makes fail; `bad` is how many
\* do.
Failing(s, bad) ==
  /\ fails + bad <= MaxFails
  /\ fails' = fails + bad
  /\ hurt' = IF bad > 0 THEN hurt \cup {s} ELSE hurt

\* HashSet::read and contains_str: an entry that does not read is passed over,
\* and a set that does not read has none.
wonder_unlocked(bad) == Wonder \in written /\ bad = 0

\* A flag that does not read is down.
Flag(value, bad) == value /\ bad = 0

(***************************************************************************)
(* Resolving.  What is found done on arrival is quiet, but not when the    *)
(* run has begun.                                                          *)
(***************************************************************************)
Arrived(done) == done /\ ~run_began

\* Mutant of ResolveUnlock: the count on arrival is the last count.
ResolveUnlock_Counts(bad) ==
  unlock' = [bound |-> TRUE, last_count |-> count, fired |-> FALSE,
             unlocked_on_arrival |-> Arrived(wonder_unlocked(bad))]

ResolveUnlock(bad) ==
  unlock' = [bound |-> TRUE, last_count |-> Unseen, fired |-> FALSE,
             unlocked_on_arrival |-> Arrived(wonder_unlocked(bad))]

ResolveCompletion(bad) ==
  completion' = [bound |-> TRUE, reported_activation |-> FALSE, reported_length |-> FALSE,
                 unlock_day_on_arrival |-> IF bad > 0 THEN "unread"
                                           ELSE IF day THEN "set" ELSE "unset",
                 was_finished_on_arrival |-> Arrived(Flag(finished, bad))]

ResolveBots(bad) ==
  bots' = [bound |-> TRUE, created_on_arrival |-> Arrived(Flag(created, bad))]

\* Mutant of ResolveWellbeing: the average on arrival does not count.
ResolveWellbeing_Fresh(bad) ==
  wellbeing' = [bound |-> TRUE, fired |-> FALSE, reached_on_arrival |-> FALSE]

ResolveWellbeing(bad) ==
  wellbeing' = [bound |-> TRUE, fired |-> FALSE,
                reached_on_arrival |-> Arrived(average >= WELLBEING_GOAL /\ bad = 0)]

Resolve(s) ==
  /\ pc = "Top" /\ s \in followed
  /\ \E bad \in {0, 1} :
       /\ Failing(s, bad)
       /\ CASE s = "unlock"     -> /\ ~unlock.bound /\ ResolveUnlock(bad)
                                   /\ UNCHANGED <<completion, bots, wellbeing>>
            [] s = "completion" -> /\ ~completion.bound /\ ResolveCompletion(bad)
                                   /\ UNCHANGED <<unlock, bots, wellbeing>>
            [] s = "bots"       -> /\ ~bots.bound /\ ResolveBots(bad)
                                   /\ UNCHANGED <<unlock, completion, wellbeing>>
            [] OTHER            -> /\ ~wellbeing.bound /\ ResolveWellbeing(bad)
                                   /\ UNCHANGED <<unlock, completion, bots>>
  /\ UNCHANGED <<followed, signalVars, lost, pc, run_began, reportVars, restored>>

\* The run start fires for a game that is new, or whose save's name does not
\* read: all of them are let go, and what they then find done counts as done in
\* the run, whatever the game was loaded with.
RunBegins ==
  /\ pc = "Top" /\ ~run_began
  /\ run_began' = TRUE
  /\ unlock' = None /\ completion' = None /\ bots' = None /\ wellbeing' = None
  /\ UNCHANGED <<followed, signalVars, fails, lost, pc, reportVars, restored, hurt>>

\* A watched object that does not validate is let go.
Lose ==
  /\ pc = "Top" /\ lost < MaxLost
  /\ lost' = lost + 1
  /\ \/ unlock' = None /\ UNCHANGED <<completion, bots, wellbeing>>
     \/ completion' = None /\ UNCHANGED <<unlock, bots, wellbeing>>
     \/ bots' = None /\ UNCHANGED <<unlock, completion, wellbeing>>
     \/ wellbeing' = None /\ UNCHANGED <<unlock, completion, bots>>
  /\ UNCHANGED <<followed, signalVars, fails, pc, run_began, reportVars, restored, hurt>>

(***************************************************************************)
(* Polling.                                                                *)
(***************************************************************************)
Unpolled == <<followed, signalVars, lost, run_began, restored>>

\* The first read of a tick: has the set's count moved?
PollUnlock ==
  /\ pc = "Top"
  /\ IF ~unlock.bound
       THEN pc' = "Completion" /\ UNCHANGED <<unlock, fails, hurt>>
       ELSE \E bad \in {0, 1} :
              /\ Failing("unlock", bad)
              /\ IF unlock.fired \/ unlock.unlocked_on_arrival \/ bad > 0
                    \/ unlock.last_count = count
                   THEN pc' = "Completion" /\ UNCHANGED unlock
                   ELSE pc' = "Walk" /\ unlock' = [unlock EXCEPT !.last_count = count]
  /\ UNCHANGED <<completion, bots, wellbeing, reportVars, Unpolled>>

\* The members are read after the count was remembered.
Walk ==
  /\ pc = "Walk"
  /\ pc' = "Completion"
  /\ \E bad \in {0, 1} :
       /\ Failing("unlock", bad)
       /\ IF wonder_unlocked(bad)
            THEN unlock' = [unlock EXCEPT !.fired = TRUE] /\ said' = said \cup {"unlock"}
            ELSE UNCHANGED <<unlock, said>>
  /\ UNCHANGED <<completion, bots, wellbeing, ended, warned, Unpolled>>

\* Mutant of ever_matched: what was unlocked on arrival does not count.
ever_matched_Fired == unlock.fired

ever_matched == unlock.fired \/ unlock.unlocked_on_arrival

\* The lengths of a day are zero until they are filled in; then it is tried again.
report_countdown_length(bad) == lengths /\ bad = 0

\* report_length, report_activation and finished, in this order.
PollCompletion ==
  /\ pc = "Completion" /\ completion.bound
  /\ \E bad \in {0, 1} :
       LET ends == /\ "completion" \notin ended
                   /\ ~completion.was_finished_on_arrival
                   /\ Flag(finished, bad)
           today == IF day THEN "set" ELSE "unset" IN
       /\ Failing("completion", bad)
       /\ completion' = [completion EXCEPT
            !.reported_length = @ \/ report_countdown_length(bad),
            !.reported_activation = @ \/ (bad = 0 /\ today # completion.unlock_day_on_arrival)]
       /\ IF ends
            THEN /\ ended' = ended \cup {"completion"} /\ said' = said \cup {"completion"}
                 /\ warned' = (warned \/ (unlock.bound /\ ~ever_matched))
            ELSE UNCHANGED reportVars
  /\ pc' = "Bots"
  /\ UNCHANGED <<unlock, bots, wellbeing, Unpolled>>

\* Mutant of Produced: a bot that is alive.
Produced_Alive == live

\* The flag stays up when the bot is gone.
Produced == created

PollBots ==
  /\ pc = "Bots" /\ bots.bound
  /\ \E bad \in {0, 1} :
       /\ Failing("bots", bad)
       /\ IF "bots" \notin ended /\ ~bots.created_on_arrival /\ Flag(Produced, bad)
            THEN ended' = ended \cup {"bots"} /\ said' = said \cup {"bots"}
            ELSE UNCHANGED <<ended, said>>
  /\ pc' = "Wellbeing"
  /\ UNCHANGED <<watcherVars, warned, Unpolled>>

\* The watcher is asked as long as no end was reported, and has a flag itself.
PollWellbeing ==
  /\ pc = "Wellbeing" /\ wellbeing.bound
  /\ \E bad \in {0, 1} :
       /\ Failing("wellbeing", bad)
       /\ IF /\ "wellbeing" \notin ended /\ bad = 0
             /\ ~wellbeing.fired /\ ~wellbeing.reached_on_arrival
             /\ average >= WELLBEING_GOAL
            THEN /\ wellbeing' = [wellbeing EXCEPT !.fired = TRUE]
                 /\ ended' = ended \cup {"wellbeing"} /\ said' = said \cup {"wellbeing"}
            ELSE UNCHANGED <<wellbeing, ended, said>>
  /\ pc' = "Top"
  /\ UNCHANGED <<unlock, completion, bots, warned, Unpolled>>

\* Without a watcher there is nothing to poll.
PollNothing ==
  /\ \/ pc = "Completion" /\ ~completion.bound /\ pc' = "Bots"
     \/ pc = "Bots" /\ ~bots.bound /\ pc' = "Wellbeing"
     \/ pc = "Wellbeing" /\ ~wellbeing.bound /\ pc' = "Top"
  /\ UNCHANGED <<watcherVars, reportVars, fails, hurt, Unpolled>>

GameNext ==
  \/ \E n \in Names : Unlock(n)
  \/ Count \/ Activate \/ Complete \/ Bot \/ FillLengths
  \/ \E a \in 0 .. Highest : Feel(a)

Poll == PollUnlock \/ Walk \/ PollCompletion \/ PollBots \/ PollWellbeing \/ PollNothing

Next ==
  \/ GameNext
  \/ RunBegins \/ Lose
  \/ \E s \in Signal : Resolve(s)
  \/ Poll

Spec == Init /\ [][Next]_vars

\* Ticks follow one another, and every so many of them what is not watched is
\* looked for again.  An entry is counted once it is written.
FairSpec ==
  /\ Spec
  /\ WF_vars(Poll) /\ WF_vars(Count)
  /\ \A s \in Signal : SF_vars(Resolve(s))

(***************************************************************************)
(* Properties.                                                             *)
(***************************************************************************)
\* What a save was loaded with is not reported as news, as long as the reads a
\* watcher makes on arrival succeed and the save is not taken for a run under
\* way: then nothing is quiet.
RestoredIsQuiet == ~run_began => said \cap restored \subseteq hurt

\* The watcher of the set does not sit on an unlock: the count it remembers is
\* the count of a set it has read the wonder's absence from, unless a read of
\* the members failed.
UnlockIsNotSlept ==
  /\ unlock.bound /\ pc # "Walk" /\ Wonder \in written
  /\ unlock.last_count = Cardinality(written)
  => unlock.fired \/ unlock.unlocked_on_arrival \/ "unlock" \in hurt

\* The warning that the wonder's name must be wrong is given only if its unlock
\* was not seen, and it is seen whenever the reads succeed.
NoFalseAlarm == warned => "unlock" \in hurt

QuietAbout(s) ==
  CASE s = "unlock"     -> unlock.bound /\ unlock.unlocked_on_arrival
    [] s = "completion" -> completion.bound /\ completion.was_finished_on_arrival
    [] s = "bots"       -> bots.bound /\ bots.created_on_arrival
    [] OTHER            -> wellbeing.bound /\ wellbeing.reached_on_arrival

\* What happens and stays so is reported in the end, a bot also if it is gone by
\* then, unless it was done when its watcher arrived, or a read failed.
EachIsHeard ==
  \A s \in Signal :
    <>[](s \in followed /\ Done(s)) => <>(s \in said \cup hurt \/ QuietAbout(s))
=============================================================================
