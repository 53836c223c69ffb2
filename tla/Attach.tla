------------------------------- MODULE Attach -------------------------------
(***************************************************************************)
(* Finding the game and keeping hold of it: `main`, `attach`,              *)
(* `is_timberborn` and the start of `run` in src/src/lib.rs.               *)
(*                                                                         *)
(* Processes start, name themselves, map the game's module, close and      *)
(* linger; their numbers are used again.  The splitter looks once a        *)
(* second, remembers for a while which numbers it ruled out, and once      *)
(* attached waits for one thing of the game after another.                 *)
(***************************************************************************)
EXTENDS Naturals, FiniteSets

CONSTANTS
  Pids,                    \* numbers the system gives to processes
  NoPid,                   \* no process held
  Programs,                \* what can be started: records of Program
  FORGET_RULED_OUT_TICKS,
  AMBIGUOUS_RETRY_TICKS,
  PROCESS_GONE_DELAY_TICKS,
  MaxStarted               \* bound: processes started

\* The name a process ends up with, whether it is Timberborn, whether its path
\* says so (an install that is not under Proton), whether its clock has the
\* fields this build reads.
Program == [name : {"exact", "ambiguous"}, game : BOOLEAN, path : BOOLEAN,
            supported : BOOLEAN]

ASSUME AttachAssumption ==
  /\ IsFiniteSet(Pids) /\ NoPid \notin Pids
  /\ Programs \subseteq Program
  /\ \A g \in Programs : (g.name = "exact" \/ g.path) => g.game
  /\ {FORGET_RULED_OUT_TICKS, AMBIGUOUS_RETRY_TICKS, PROCESS_GONE_DELAY_TICKS}
       \subseteq Nat \ {0}
  /\ FORGET_RULED_OUT_TICKS % AMBIGUOUS_RETRY_TICKS = 0
  /\ PROCESS_GONE_DELAY_TICKS <= FORGET_RULED_OUT_TICKS
  /\ MaxStarted \in Nat

VARIABLES
  proc,       \* what runs under each number
  started,    \* processes started
  pc,         \* Exact, Ambiguous: a pass of attach; Gone: the wait after a game;
              \* the others: what run waits for
  waited,     \* passes of attach, up to a multiple of the forgetting
  listed,     \* ambiguous candidates of this pass not looked at yet
  ruled_out,
  held,       \* the process attached to
  gone,       \* ticks waited since it closed
  tick_rate,
  status,     \* the line the runner sees
  overdue     \* history: ticks a game there to be attached was not

systemVars == <<proc, started>>
searchVars == <<waited, listed, ruled_out>>
vars == <<systemVars, pc, searchVars, held, gone, tick_rate, status, overdue>>

Nobody == [runs |-> FALSE]
\* How far a game has come: nothing, its Mono runtime, the main menu, a game.
Stage  == 0 .. 3
Process == {Nobody} \cup
  [runs : {TRUE}, is : Programs, named : BOOLEAN, mapped : BOOLEAN,
   open : BOOLEAN, stage : Stage]

Searching == {"Exact", "Ambiguous"}
Starting  == {"Module", "Scene", "Table", "Bus", "Clock"}
Attached  == Starting \cup {"Watch"}

ATTACHED_TICK_RATE     == 120
DETACHED_TICKS_PER_SEC == 1

TypeOK ==
  /\ proc \in [Pids -> Process] /\ started \in 0 .. MaxStarted
  /\ pc \in Searching \cup Attached \cup {"Gone"}
  /\ waited \in 0 .. FORGET_RULED_OUT_TICKS - 1
  /\ listed \subseteq Pids /\ ruled_out \subseteq Pids
  /\ held \in Pids \cup {NoPid} /\ (held # NoPid <=> pc \in Attached)
  /\ gone \in 0 .. PROCESS_GONE_DELAY_TICKS - 1
  /\ tick_rate \in {ATTACHED_TICK_RATE, DETACHED_TICKS_PER_SEC}
  /\ status \in {"", "Game version not supported"}
  /\ overdue \in Nat

Init ==
  /\ proc = [p \in Pids |-> Nobody] /\ started = 0
  /\ pc = "Exact" /\ waited = 0 /\ listed = {} /\ ruled_out = {}
  /\ held = NoPid /\ gone = 0 /\ tick_rate = DETACHED_TICKS_PER_SEC
  /\ status = "" /\ overdue = 0

(***************************************************************************)
(* The system and the game.                                                *)
(***************************************************************************)
Running(p) == proc[p].runs
Named(p, name)  == Running(p) /\ proc[p].named /\ proc[p].is.name = name
Open(p)         == Running(p) /\ proc[p].open
IsGame(p)       == Running(p) /\ proc[p].is.game
Reached(p, s)   == Open(p) /\ proc[p].stage >= s
HasModule(p)    == Running(p) /\ proc[p].mapped

splitterUnchanged ==
  UNCHANGED <<pc, searchVars, held, gone, tick_rate, status>>

\* A process starts, under any number that is free and not held.
Start ==
  /\ started < MaxStarted /\ started' = started + 1
  /\ \E p \in Pids \ {held}, is \in Programs :
       /\ ~ Running(p)
       /\ proc' = [proc EXCEPT ![p] =
            [runs |-> TRUE, is |-> is, named |-> FALSE, mapped |-> FALSE,
             open |-> TRUE, stage |-> 0]]
  /\ splitterUnchanged /\ UNCHANGED overdue

Change(p, new) ==
  /\ proc' = [proc EXCEPT ![p] = new]
  /\ splitterUnchanged /\ UNCHANGED <<started, overdue>>

\* It gets the name it is listed by: under Proton its first thread's.
NameItself(p) == Open(p) /\ ~ proc[p].named /\ Change(p, [proc[p] EXCEPT !.named = TRUE])

MapModule(p) ==
  IsGame(p) /\ Open(p) /\ ~ proc[p].mapped /\ Change(p, [proc[p] EXCEPT !.mapped = TRUE])

\* The runtime, the menu, a game: one after another.
Progress(p) ==
  /\ IsGame(p) /\ Open(p) /\ proc[p].mapped /\ proc[p].stage < 3
  /\ Change(p, [proc[p] EXCEPT !.stage = @ + 1])

\* On its way out a process stays attachable, with or without its modules.
Close(p) ==
  /\ Open(p)
  /\ \E mapped \in {proc[p].mapped, FALSE} :
       proc' = [proc EXCEPT ![p].open = FALSE, ![p].mapped = mapped]
  /\ overdue' = 0
  /\ splitterUnchanged /\ UNCHANGED started

Reap(p) == Running(p) /\ ~ Open(p) /\ Change(p, Nobody)

SystemNext ==
  \/ Start
  \/ \E p \in Pids :
       NameItself(p) \/ MapModule(p) \/ Progress(p) \/ Close(p) \/ Reap(p)

(***************************************************************************)
(* attach.                                                                 *)
(***************************************************************************)
\* Mutant of is_timberborn: any process of an ambiguous name is taken.
is_timberborn_Trusts(p) == Running(p)

is_timberborn(p) == HasModule(p) \/ (Running(p) /\ proc[p].is.path)

\* A game the search is owed: it would be taken if it were looked at now.
Findable(p) ==
  /\ Open(p)
  /\ Named(p, "exact") \/ (Named(p, "ambiguous") /\ is_timberborn(p))

\* One second went by without a game.  A process that is on its way out may be
\* attached to instead, which costs a wait, so nothing is owed meanwhile.
Overdue ==
  IF (\E p \in Pids : Findable(p)) /\ (\A p \in Pids : Running(p) => Open(p))
  THEN overdue + 1 ELSE 0

Take(p) ==
  /\ held' = p /\ pc' = "Module" /\ tick_rate' = ATTACHED_TICK_RATE
  /\ overdue' = 0
  /\ waited' = 0 /\ listed' = {} /\ ruled_out' = {}   \* locals of attach, gone
  /\ UNCHANGED <<systemVars, gone, status>>

AttachExact(p) ==
  /\ pc = "Exact" /\ Named(p, "exact")
  /\ Take(p)

ListAmbiguous ==
  /\ pc = "Exact"
  /\ \A p \in Pids : ~ Named(p, "exact")
  /\ listed' = IF waited % AMBIGUOUS_RETRY_TICKS = 0
               THEN {p \in Pids : Named(p, "ambiguous")} ELSE {}
  /\ pc' = "Ambiguous"
  /\ UNCHANGED <<systemVars, waited, ruled_out, held, gone, tick_rate, status, overdue>>

\* The list was made a moment ago: what runs under the number may have changed.
Skip(p) ==
  /\ pc = "Ambiguous" /\ p \in listed
  /\ p \in ruled_out \/ ~ Running(p)
  /\ listed' = listed \ {p}
  /\ UNCHANGED <<systemVars, pc, waited, ruled_out, held, gone, tick_rate, status,
                 overdue>>

AttachAmbiguous(p) ==
  /\ pc = "Ambiguous" /\ p \in listed /\ p \notin ruled_out /\ Running(p)
  /\ is_timberborn(p)
  /\ Take(p)

RuleOut(p) ==
  /\ pc = "Ambiguous" /\ p \in listed /\ p \notin ruled_out /\ Running(p)
  /\ ~ is_timberborn(p)
  /\ listed' = listed \ {p} /\ ruled_out' = ruled_out \cup {p}
  /\ UNCHANGED <<systemVars, pc, waited, held, gone, tick_rate, status, overdue>>

\* Mutant of NextPass: what was ruled out is never forgotten.
NextPass_Remembers ==
  /\ pc = "Ambiguous" /\ listed = {}
  /\ waited' = (waited + 1) % FORGET_RULED_OUT_TICKS
  /\ pc' = "Exact" /\ overdue' = Overdue
  /\ UNCHANGED <<systemVars, listed, ruled_out, held, gone, tick_rate, status>>

\* `waited` is kept up to a multiple of the ticks it is compared with.
NextPass ==
  /\ pc = "Ambiguous" /\ listed = {}
  /\ waited' = (waited + 1) % FORGET_RULED_OUT_TICKS
  /\ ruled_out' = IF waited' = 0 THEN {} ELSE ruled_out
  /\ pc' = "Exact" /\ overdue' = Overdue
  /\ UNCHANGED <<systemVars, listed, held, gone, tick_rate, status>>

(***************************************************************************)
(* run, up to the first game; main around it.                              *)
(***************************************************************************)
attachedUnchanged ==
  UNCHANGED <<systemVars, searchVars, gone, overdue>>

\* run waits until what it asks of the process is there.  The full sweeps come
\* first: the loader and the table need a main menu, the rest needs a game.
Await(at, stage, next) ==
  /\ pc = at /\ Reached(held, stage)
  /\ pc' = next
  /\ attachedUnchanged /\ UNCHANGED <<held, tick_rate, status>>

AttachModule == Await("Module", 1, "Scene")

\* Mutant of ResolveScene: the sweeps come below the wait for a game.
ResolveScene_WaitsForAGame == Await("Scene", 3, "Table")

ResolveScene == Await("Scene", 2, "Table")

\* Whether it is found or not, the search is over: sweeps go on without one.
FindTable ==
  /\ pc = "Table" /\ Open(held)
  /\ pc' = "Bus"
  /\ attachedUnchanged /\ UNCHANGED <<held, tick_rate, status>>

AwaitBus == Await("Bus", 3, "Clock")

\* Mutant of LetGo: the wait is counted at the rate of an attached game.
LetGo_Hurries(line) ==
  /\ pc' = "Gone" /\ held' = NoPid /\ gone' = 0 /\ status' = line
  /\ UNCHANGED <<systemVars, searchVars, tick_rate, overdue>>

LetGo(line) ==
  /\ pc' = "Gone" /\ held' = NoPid /\ gone' = 0 /\ status' = line
  /\ tick_rate' = DETACHED_TICKS_PER_SEC
  /\ UNCHANGED <<systemVars, searchVars, overdue>>

\* The clock's class, then its fields: without them run warns and returns, with
\* the process still open.
ResolveClock ==
  /\ pc = "Clock" /\ Reached(held, 3) /\ proc[held].is.supported
  /\ pc' = "Watch"
  /\ attachedUnchanged /\ UNCHANGED <<held, tick_rate, status>>

Unsupported ==
  /\ pc = "Clock" /\ Reached(held, 3) /\ ~ proc[held].is.supported
  /\ LetGo("Game version not supported")

\* The first scene load that is watched blanks the line.
SceneLoads ==
  /\ pc = "Watch" /\ Open(held) /\ status # ""
  /\ status' = ""
  /\ attachedUnchanged /\ UNCHANGED <<pc, held, tick_rate>>

\* Mutant of Closed: only the watching is dropped, not the waits before it.
Closed_Watching ==
  /\ pc = "Watch" /\ ~ Open(held)
  /\ LetGo(status)

\* until_closes drops run at the first poll that finds the process closed.
Closed ==
  /\ pc \in Attached /\ ~ Open(held)
  /\ LetGo(status)

WaitOut ==
  /\ pc = "Gone"
  /\ IF gone + 1 < PROCESS_GONE_DELAY_TICKS
     THEN gone' = gone + 1 /\ UNCHANGED pc
     ELSE gone' = 0 /\ pc' = "Exact"
  /\ overdue' = Overdue
  /\ UNCHANGED <<systemVars, searchVars, held, tick_rate, status>>

Search ==
  \/ ListAmbiguous \/ NextPass
  \/ \E p \in Pids : AttachExact(p) \/ Skip(p) \/ AttachAmbiguous(p) \/ RuleOut(p)

Run ==
  \/ AttachModule \/ ResolveScene \/ FindTable \/ AwaitBus \/ ResolveClock
  \/ Unsupported \/ SceneLoads \/ Closed

Next == SystemNext \/ Search \/ Run \/ WaitOut

Spec == Init /\ [][Next]_vars

\* The host steps the splitter forever, and a process that is on its way out
\* goes.  Nothing is asked of the game.
FairSpec ==
  /\ Spec
  /\ WF_vars(Search) /\ WF_vars(Run) /\ WF_vars(WaitOut)
  /\ \A p \in Pids : WF_vars(Reap(p))

(***************************************************************************)
(* Properties                                                              *)
(***************************************************************************)

\* What is held is Timberborn for as long as it runs, although the name it was
\* found by is any Unity title's and its number was another process's a moment
\* ago.
NeverAnother == held # NoPid /\ Running(held) => IsGame(held)

\* A game that can be attached to is attached to within the ticks after which
\* candidates are forgotten, even if it was looked at and ruled out before it
\* had mapped its module or its number was ruled out with another process; and
\* those ticks are seconds, as their comments say.
FoundInTime ==
  /\ overdue <= FORGET_RULED_OUT_TICKS
  /\ pc \in Searching \cup {"Gone"} => tick_rate = DETACHED_TICKS_PER_SEC

\* A game left at its main menu has the table looked for: the sweeps that are
\* cheap there do not wait for a game to be loaded.
MenuIsEnough ==
  \A p \in Pids : (held = p /\ Reached(p, 2)) ~> (pc \in {"Bus", "Clock", "Watch"} \/ ~ Reached(p, 2))

\* A game that stays open in a game scene, with no other Timberborn beside it,
\* ends up watched, whatever ran and closed before it.
GamesAreWatched ==
  \A p \in Pids :
    <>[](/\ Findable(p) /\ Reached(p, 3) /\ proc[p].is.supported
         /\ \A q \in Pids \ {p} : ~ IsGame(q))
    => <>[](held = p /\ pc = "Watch")
=============================================================================
