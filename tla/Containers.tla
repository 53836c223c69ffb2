----------------------------- MODULE Containers -----------------------------
(***************************************************************************)
(* Finding the game's container: the loop of `run` in src/src/lib.rs with  *)
(* Registry::resolve (src/src/singletons.rs) and the reference table it    *)
(* asks before it sweeps the heap (src/src/table.rs, src/src/service.rs).  *)
(*                                                                         *)
(* Every game has a DI container, and a game that was left leaves its own  *)
(* behind, clock and all.  The splitter skips the container it watched     *)
(* last, and gives that up when nothing else is ever found.  Containers    *)
(* are told apart here by whose they are: the game's that is up or coming  *)
(* up, the one's before it, or an older one's.                             *)
(***************************************************************************)
EXTENDS Naturals

CONSTANTS
  Addr,                     \* where a SingletonRepository may live
  NoAddr,                   \* no address: an empty Option<Address>
  GIVE_UP_SKIPPING_AFTER,
  MISSES_BEFORE_REFINDING,
  TABLE_SEARCH_ATTEMPTS

ASSUME ContainersAssumption ==
  /\ NoAddr \notin Addr
  /\ GIVE_UP_SKIPPING_AFTER \in Nat \ {0}
  /\ MISSES_BEFORE_REFINDING \in Nat \ {0}
  /\ TABLE_SEARCH_ATTEMPTS \in Nat \ {0}

VARIABLES
  loading,    \* a scene is loading
  game,       \* the scene that is up, or coming up, is a game
  heap,       \* the containers, by address
  held,       \* containers the table the splitter found has an entry for
  at,         \* waiting a load out, on the menu, asking, sweeping, watching
  prev,       \* previous_registry
  empty,      \* empty_scans
  table,      \* none, the runtime's own, or one it no longer uses
  misses,     \* the table's own count of them
  attempts,   \* table_attempts
  bound,      \* the container being watched
  watched,    \* history: where the container watched last was
  givenUp,    \* history: the skip of that one was given up
  astray      \* history: this game came up with a left container not skipped

sceneVars == <<loading, game, heap>>
tableVars == <<table, misses, attempts>>
historyVars == <<watched, givenUp, astray>>
containersVars == <<sceneVars, held, tableVars, at, prev, empty, bound, historyVars>>

\* `clock`: it has built the clock, which is what a search requires.
Nobody == [of |-> "nobody", clock |-> FALSE]
Container == {Nobody} \cup [of : {"own", "last", "older"}, clock : BOOLEAN]

Own     == {a \in Addr : heap[a].of = "own"}
Present == {a \in Addr : heap[a] # Nobody}

ContainersTypeOK ==
  /\ {loading, game, givenUp, astray} \subseteq BOOLEAN
  /\ heap \in [Addr -> Container]
  /\ held \subseteq Present
  /\ at \in {"Load", "Menu", "Ask", "Sweep", "Watch"}
  /\ {prev, bound, watched} \subseteq Addr \cup {NoAddr}
  /\ empty \in 0 .. GIVE_UP_SKIPPING_AFTER - 1
  /\ table \in {"none", "right", "wrong"}
  /\ misses \in 0 .. MISSES_BEFORE_REFINDING
  /\ attempts \in 0 .. TABLE_SEARCH_ATTEMPTS

ContainersInit ==
  /\ loading = FALSE
  /\ game \in BOOLEAN
  /\ heap \in [Addr -> {Nobody, [of |-> "own", clock |-> TRUE]}]
  /\ \A a, b \in Own : a = b
  /\ game <=> Own # {}
  /\ table \in {"none", "right"}
  /\ held = IF table = "right" THEN Own ELSE {}
  /\ misses = 0 /\ attempts = 1
  /\ at = "Load"
  /\ prev = NoAddr /\ bound = NoAddr /\ watched = NoAddr /\ empty = 0
  /\ givenUp = FALSE /\ astray = FALSE

(***************************************************************************)
(* The game.                                                               *)
(***************************************************************************)
Aged(c) ==
  CASE c.of = "own"  -> [c EXCEPT !.of = "last"]
    [] c.of = "last" -> [c EXCEPT !.of = "older"]
    [] OTHER         -> c

\* The runner leaves, for a game or for the menu.
StartLoad(g) ==
  /\ ~loading
  /\ loading' = TRUE
  /\ game' = g
  /\ heap' = [a \in Addr |-> Aged(heap[a])]
  /\ astray' = FALSE
  /\ UNCHANGED <<held, tableVars, at, prev, empty, bound, watched, givenUp>>

Build(a) ==
  /\ loading /\ game /\ Own = {}
  /\ heap[a] = Nobody
  /\ heap' = [heap EXCEPT ![a] = [of |-> "own", clock |-> FALSE]]
  /\ UNCHANGED <<loading, game, held, tableVars, at, prev, empty, bound, historyVars>>

BuildClock(a) ==
  /\ a \in Own /\ ~heap[a].clock
  /\ heap' = [heap EXCEPT ![a].clock = TRUE]
  /\ UNCHANGED <<loading, game, held, tableVars, at, prev, empty, bound, historyVars>>

\* The runtime's own table comes to hold the container.
Register(a) ==
  /\ table = "right" /\ a \in Present \ held
  /\ held' = held \cup {a}
  /\ UNCHANGED <<sceneVars, tableVars, at, prev, empty, bound, historyVars>>

Collect(a) ==
  /\ a \in Present \ Own
  /\ heap' = [heap EXCEPT ![a] = Nobody]
  /\ held' = held \ {a}
  /\ UNCHANGED <<loading, game, tableVars, at, prev, empty, bound, historyVars>>

\* A load outlasts the search or the tick it began in.  A game is up with its
\* clock built, and with whatever was not collected yet: the one container the
\* splitter means to skip, or others too.
EndLoad ==
  /\ loading /\ at = "Load"
  /\ game => \E a \in Own : heap[a].clock
  /\ loading' = FALSE
  /\ astray' = (givenUp \/ ~(Present \subseteq Own \cup {watched}))
  /\ UNCHANGED <<game, heap, held, tableVars, at, prev, empty, bound, watched, givenUp>>

\* The runtime moves on to another table; what was found goes on being read.
MoveTable ==
  /\ table = "right"
  /\ table' = "wrong"
  /\ UNCHANGED <<sceneVars, held, misses, attempts, at, prev, empty, bound, historyVars>>

(***************************************************************************)
(* The table.                                                              *)
(***************************************************************************)
Lesser(a, b) == IF a < b THEN a ELSE b

\* `misses` is compared with the limit only.
was_missing == Lesser(misses + 1, MISSES_BEFORE_REFINDING)
is_stale    == misses >= MISSES_BEFORE_REFINDING

\* find_table with `tried` attempts made: it gives up after so many.
FindTable(tried) ==
  IF tried >= TABLE_SEARCH_ATTEMPTS
    THEN table' = "none" /\ attempts' = tried /\ misses' = 0 /\ held' = {}
    ELSE /\ attempts' = tried + 1
         /\ misses' = 0
         /\ \/ table' = "right" /\ held' = Present
            \/ table' = "none" /\ held' = {}

(***************************************************************************)
(* The loop of `run`.                                                      *)
(***************************************************************************)
LeaveLoad ==
  /\ at = "Load" /\ ~loading
  /\ at' = CASE ~game                  -> "Menu"
             [] game /\ table = "none" -> "Sweep"
             [] OTHER                  -> "Ask"
  /\ UNCHANGED <<sceneVars, held, tableVars, prev, empty, bound, historyVars>>

\* Mutant of OnMenu: a table that was found is kept.
OnMenu_Keeps ==
  /\ at = "Menu"
  /\ IF table = "none" THEN FindTable(attempts) ELSE UNCHANGED <<held, tableVars>>
  /\ at' = "Load"
  /\ UNCHANGED <<sceneVars, prev, empty, bound, historyVars>>

\* The menu is where a missing table is looked for again, and one that has
\* stopped answering.
OnMenu ==
  /\ at = "Menu"
  /\ IF table = "none" \/ is_stale
       THEN FindTable(IF table = "none" THEN attempts ELSE 0)
       ELSE UNCHANGED <<held, tableVars>>
  /\ at' = "Load"
  /\ UNCHANGED <<sceneVars, prev, empty, bound, historyVars>>

\* The containers among `found` that pick would accept.
Acceptable(found) == {a \in found : a # prev /\ heap[a].clock}

\* Mutant of Watch: the container is not remembered.
Watch_Forgets(a) ==
  /\ bound' = a /\ watched' = a /\ prev' = prev /\ givenUp' = FALSE
  /\ empty' = 0
  /\ at' = "Watch"

Watch(a) ==
  /\ bound' = a /\ watched' = a /\ prev' = a /\ givenUp' = FALSE
  /\ empty' = 0
  /\ at' = "Watch"

\* The table is asked first.
AskTable ==
  /\ at = "Ask"
  /\ IF Acceptable(held) # {}
       THEN /\ \E a \in Acceptable(held) : Watch(a)
            /\ misses' = 0
       ELSE /\ at' = "Sweep"
            /\ UNCHANGED <<misses, prev, empty, bound, watched, givenUp>>
  /\ UNCHANGED <<sceneVars, held, table, attempts, astray>>

\* A sweep may come across the table that is missing.
NoticeTable ==
  \/ UNCHANGED <<held, tableVars>>
  \/ table' = "right" /\ held' = Present /\ attempts' = 0 /\ misses' = 0

\* The sweep finds one.  Behind a table, that is a miss of the table's.
SweepFinds ==
  /\ at = "Sweep"
  /\ \E a \in Acceptable(Present) : Watch(a)
  /\ IF table = "none"
       THEN NoticeTable
       ELSE misses' = was_missing /\ UNCHANGED <<held, table, attempts>>
  /\ UNCHANGED <<sceneVars, astray>>

\* Mutant of CountEmpty: the skip is never given up.
CountEmpty_Never == UNCHANGED <<empty, prev>>

\* Mutant of CountEmpty: one sweep more.
CountEmpty_Late ==
  IF prev = NoAddr
    THEN UNCHANGED <<empty, prev>>
    ELSE IF empty + 1 > GIVE_UP_SKIPPING_AFTER
           THEN empty' = 0 /\ prev' = NoAddr
           ELSE empty' = empty + 1 /\ UNCHANGED prev

\* A conclusive empty sweep, with a container to skip: after enough of them
\* that container is this game's after all.
CountEmpty ==
  IF prev = NoAddr
    THEN UNCHANGED <<empty, prev>>
    ELSE IF empty + 1 >= GIVE_UP_SKIPPING_AFTER
           THEN empty' = 0 /\ prev' = NoAddr
           ELSE empty' = empty + 1 /\ UNCHANGED prev

\* It finds none, and proves that there is none or leaves it open.
SweepEmpty(conclusive) ==
  /\ at = "Sweep"
  /\ conclusive => Acceptable(Present) = {}
  /\ IF conclusive THEN CountEmpty ELSE UNCHANGED <<empty, prev>>
  /\ givenUp' = (givenUp \/ (conclusive /\ empty + 1 >= GIVE_UP_SKIPPING_AFTER))
  /\ at' = "Load"
  /\ IF table = "none" THEN NoticeTable ELSE UNCHANGED <<held, tableVars>>
  /\ UNCHANGED <<sceneVars, bound, watched, astray>>

\* The scene is being replaced.  Where the loader itself is gone too, a table
\* that is no longer mapped is looked for again.
WatchEnds ==
  /\ at = "Watch" /\ loading
  /\ at' = "Load"
  /\ bound' = NoAddr
  /\ \/ UNCHANGED <<held, tableVars>>
     \/ table # "right" /\ FindTable(0)
  /\ UNCHANGED <<sceneVars, prev, empty, historyVars>>

GameNext ==
  \/ \E g \in BOOLEAN : StartLoad(g)
  \/ \E a \in Addr : Build(a) \/ BuildClock(a) \/ Register(a) \/ Collect(a)
  \/ EndLoad
  \/ MoveTable

SplitterNext ==
  \/ LeaveLoad \/ OnMenu
  \/ AskTable \/ SweepFinds
  \/ \E conclusive \in BOOLEAN : SweepEmpty(conclusive)
  \/ WatchEnds

ContainersNext == GameNext \/ SplitterNext

ContainersSpec == ContainersInit /\ [][ContainersNext]_containersVars

(***************************************************************************)
(* The task is polled for as long as the host runs it, and memory is       *)
(* readable again and again, so a sweep proves something in the end.       *)
(***************************************************************************)
FairContainersSpec ==
  /\ ContainersSpec
  /\ WF_containersVars(LeaveLoad) /\ WF_containersVars(OnMenu)
  /\ WF_containersVars(AskTable) /\ WF_containersVars(WatchEnds)
  /\ SF_containersVars(SweepFinds) /\ SF_containersVars(SweepEmpty(TRUE))

(***************************************************************************)
(* Properties.                                                             *)
(***************************************************************************)
\* What is watched is the container of the game that is up and not that of a
\* game that was left, although that one is found just as well: where the only
\* container still around is the one watched last, skipping it is enough, also
\* if this game's own was built in its place.  It is not where the skip was given
\* up for a game that was then left, or where others are left besides.
OwnContainer == at = "Watch" /\ ~loading => bound \in Own \/ astray

\* A game the runner stays in is bound in the end, even where its container is
\* built in the very memory that is being skipped.
EveryGameIsBound == <>[](game /\ ~loading) => <>[](at = "Watch")

\* A table the runtime no longer uses does not go on being asked for ever, as
\* long as the runner plays game after game, passes the menu in between, and
\* what the table still answers with comes to be the game's own: a container
\* that was left and that it still has is an answer, and clears its misses.
WrongTableIsDropped ==
  /\ []<>(at = "Menu") /\ []<>(at = "Watch" /\ ~loading)
  /\ <>[][AskTable /\ at' = "Watch" => bound' \in Own]_containersVars
  => []<>(table # "wrong")
=============================================================================
