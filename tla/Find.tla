-------------------------------- MODULE Find --------------------------------
(***************************************************************************)
(* Finding the one object a caller accepts: Locatable::find_matching and   *)
(* table_then_sweep (src/src/service.rs) over ReferenceTable::instances    *)
(* (src/src/table.rs), with the sweep of the heap behind it.               *)
(*                                                                         *)
(* The runtime's table is read a window at a time, then the objects its    *)
(* entries point at, while the table grows and objects come and go.  To a  *)
(* search, an object that cannot be read for a while is one that is not    *)
(* there; the table's own windows are told apart, for what is lost with    *)
(* one of them is a whole part of the answer.                              *)
(***************************************************************************)
EXTENDS FiniteSets, Integers

CONSTANTS
  Object,      \* where an instance may be, in address order
  Null,        \* no object
  Capacity,    \* bound: how far the table may grow, in windows of one entry
  limit,       \* instances a search stops at
  may_sweep,   \* whether this caller sweeps
  MaxMisses    \* bound: misses that are counted

Slot == 1 .. Capacity

ASSUME FindAssumption ==
  /\ Object \subseteq Nat /\ IsFiniteSet(Object) /\ Null \notin Object
  /\ {Capacity, limit} \subseteq Nat \ {0} /\ MaxMisses \in Nat
  /\ may_sweep \in BOOLEAN

VARIABLES
  kind,        \* what is at each address
  slot,        \* the entries of the table
  extent,      \* windows of it that are mapped, none where there is no table
  readable,    \* windows that can be read just now
  seen,        \* the extent last reported, none where no table was found
  misses,      \* searches the sweep had to answer
  pc,          \* Idle, Entries, Objects, Sweep, Pick, Done
  size,        \* the extent this search reads
  offset, read_any, entries,
  todo,        \* objects still to look at
  instances,   \* Found.instances
  conclusive,  \* Found.conclusive
  answer,
  steady,      \* history: acceptable ever since the search began
  held,        \* history: entries that could be read ever since
  crowded,     \* history: a pass stopped at the limit
  excused      \* history: the table settled it, or the sweep could not read it all

gameVars   == <<kind, slot, extent, readable>>
searchVars == <<size, offset, read_any, entries, todo, instances, conclusive, answer>>
vars == <<gameVars, seen, misses, pc, searchVars, steady, held, crowded, excused>>

\* A leftover validates like a wanted object and is not acceptable: the excused
\* one, another game's, or one whose moment has passed.
Kind == {"none", "leftover", "wanted"}

Wanted == {o \in Object : kind[o] = "wanted"}

\* The slots that hold something the runtime lets be read.
Legible == {i \in 1 .. extent : i \in readable /\ slot[i] # Null}

TypeOK ==
  /\ kind \in [Object -> Kind]
  /\ slot \in [Slot -> Object \cup {Null}]
  /\ extent \in 0 .. Capacity /\ readable \subseteq Slot
  /\ seen \in 0 .. Capacity /\ misses \in 0 .. MaxMisses
  /\ pc \in {"Idle", "Entries", "Objects", "Sweep", "Pick", "Done"}
  /\ size \in 0 .. Capacity /\ offset \in 0 .. size
  /\ read_any \in BOOLEAN /\ conclusive \in BOOLEAN
  /\ crowded \in BOOLEAN /\ excused \in BOOLEAN
  /\ {entries, todo, instances, steady} \subseteq SUBSET Object
  /\ held \subseteq Slot
  /\ answer \in Object \cup {Null}

Init ==
  /\ kind \in [Object -> Kind]
  /\ slot = [i \in Slot |-> Null]
  /\ extent \in {0, 1} /\ seen = extent
  /\ readable = Slot
  /\ misses = 0
  /\ pc = "Idle"
  /\ size = 0 /\ offset = 0 /\ read_any = FALSE /\ entries = {}
  /\ todo = {} /\ instances = {} /\ conclusive = FALSE /\ answer = Null
  /\ steady = {} /\ held = {} /\ crowded = FALSE /\ excused = FALSE

(***************************************************************************)
(* The game and its runtime.                                               *)
(***************************************************************************)
Forget(objects, slots) ==
  /\ steady' = steady \ objects
  /\ held' = held \ slots
  /\ UNCHANGED <<seen, misses, pc, searchVars, crowded, excused>>

Become(o, from, to) ==
  /\ kind[o] \in from
  /\ kind' = [kind EXCEPT ![o] = to]
  /\ Forget({o}, {})
  /\ UNCHANGED <<slot, extent, readable>>

Build(o)   == Become(o, {"none"}, "wanted")
Pass(o)    == Become(o, {"wanted"}, "leftover")
Collect(o) == Become(o, {"leftover", "wanted"}, "none")

\* The runtime takes up a reference, in a free entry or past the last one.
Hold(o, i) ==
  /\ kind[o] # "none" /\ extent > 0
  /\ i <= extent + 1 /\ slot[i] = Null
  /\ \A j \in Slot : slot[j] # o
  /\ slot' = [slot EXCEPT ![i] = o]
  /\ extent' = IF i > extent THEN i ELSE extent
  /\ Forget({}, {})
  /\ UNCHANGED <<kind, readable>>

Release(i) ==
  /\ slot[i] # Null
  /\ slot' = [slot EXCEPT ![i] = Null]
  /\ Forget({}, {i})
  /\ UNCHANGED <<kind, extent, readable>>

Flicker(i) ==
  /\ readable' = IF i \in readable THEN readable \ {i} ELSE readable \cup {i}
  /\ Forget({}, {i})
  /\ UNCHANGED <<kind, slot, extent>>

\* The memory of the table goes.
Unmap ==
  /\ extent > 0
  /\ extent' = 0
  /\ slot' = [i \in Slot |-> Null]
  /\ Forget({}, Slot)
  /\ UNCHANGED <<kind, readable>>

(***************************************************************************)
(* The table.                                                              *)
(***************************************************************************)
\* Where a search goes when the table said nothing at all.
Unanswered ==
  /\ pc' = IF may_sweep THEN "Sweep" ELSE "Pick"
  /\ todo' = IF may_sweep THEN Object ELSE {}
  /\ instances' = {}
  /\ conclusive' = may_sweep

\* Mutant of Begin: the table extends as far as it did when it was found.
Begin_Remembers ==
  /\ pc = "Idle"
  /\ entries' = {} /\ read_any' = FALSE /\ offset' = 0 /\ answer' = Null
  /\ steady' = Wanted /\ held' = Legible /\ crowded' = FALSE /\ excused' = FALSE
  /\ size' = seen
  /\ IF extent = 0
       THEN Unanswered /\ UNCHANGED seen
       ELSE /\ pc' = "Entries"
            /\ todo' = {} /\ instances' = {} /\ conclusive' = FALSE
            /\ UNCHANGED seen
  /\ UNCHANGED <<gameVars, misses>>

\* How far the table extends is read for each search.
Begin ==
  /\ pc = "Idle"
  /\ entries' = {} /\ read_any' = FALSE /\ offset' = 0 /\ answer' = Null
  /\ steady' = Wanted /\ held' = Legible /\ crowded' = FALSE /\ excused' = FALSE
  /\ size' = extent
  /\ IF extent = 0
       THEN Unanswered /\ UNCHANGED seen
       ELSE /\ pc' = "Entries"
            /\ todo' = {} /\ instances' = {} /\ conclusive' = FALSE
            /\ seen' = extent
  /\ UNCHANGED <<gameVars, misses>>

\* A window that fails is passed over.
ReadWindow ==
  /\ pc = "Entries" /\ offset < size
  /\ offset' = offset + 1
  /\ IF offset' \in readable /\ offset' <= extent
       THEN read_any' = TRUE /\ entries' = entries \cup ({slot[offset']} \ {Null})
       ELSE UNCHANGED <<read_any, entries>>
  /\ UNCHANGED <<gameVars, seen, misses, pc, size, todo, instances, conclusive, answer,
                 steady, held, crowded, excused>>

EndEntries ==
  /\ pc = "Entries" /\ offset = size
  /\ IF read_any
       THEN pc' = "Objects" /\ todo' = entries /\ UNCHANGED <<instances, conclusive>>
       ELSE Unanswered
  /\ UNCHANGED <<gameVars, seen, misses, size, offset, read_any, entries, answer, steady, held,
                 crowded, excused>>

(***************************************************************************)
(* Looking at objects, those of the entries or all of the heap's.          *)
(***************************************************************************)
IsNext(o) == o \in todo /\ \A p \in todo : o <= p

\* It is taken if it validates, and the pass is over once there are enough.
Look(o) ==
  /\ pc \in {"Objects", "Sweep"} /\ IsNext(o)
  /\ instances' = IF kind[o] # "none" THEN instances \cup {o} ELSE instances
  /\ IF Cardinality(instances') >= limit
       THEN todo' = {} /\ crowded' = TRUE
       ELSE todo' = todo \ {o} /\ UNCHANGED crowded
  /\ UNCHANGED <<gameVars, seen, misses, pc, size, offset, read_any, entries, conclusive,
                 answer, steady, held, excused>>

\* Memory the sweep cannot read.
Skip(o) ==
  /\ pc = "Sweep" /\ IsNext(o)
  /\ todo' = todo \ {o}
  /\ conclusive' = FALSE /\ excused' = TRUE
  /\ UNCHANGED <<gameVars, seen, misses, pc, size, offset, read_any, entries, instances,
                 answer, steady, held, crowded>>

Acceptable == instances \cap Wanted
Settled    == Acceptable # {}

\* Mutant of EndTable: an empty answer of the table's is final.
EndTable_Trusts ==
  /\ pc = "Objects" /\ todo = {}
  /\ IF may_sweep /\ ~Settled /\ instances # {}
       THEN Unanswered /\ UNCHANGED misses
       ELSE /\ misses' = IF may_sweep THEN 0 ELSE misses
            /\ pc' = "Pick"
            /\ UNCHANGED <<todo, instances, conclusive>>
  /\ excused' = Settled
  /\ UNCHANGED <<gameVars, seen, size, offset, read_any, entries, answer, steady, held, crowded>>

\* The table's answer is taken if it settles the question, or if it has to do.
EndTable ==
  /\ pc = "Objects" /\ todo = {}
  /\ IF may_sweep /\ ~Settled
       THEN Unanswered /\ UNCHANGED misses
       ELSE /\ misses' = IF may_sweep THEN 0 ELSE misses
            /\ pc' = "Pick"
            /\ UNCHANGED <<todo, instances, conclusive>>
  /\ excused' = Settled
  /\ UNCHANGED <<gameVars, seen, size, offset, read_any, entries, answer, steady, held, crowded>>

\* A sweep that settles what the table did not counts against the table.
EndSweep ==
  /\ pc = "Sweep" /\ todo = {}
  /\ pc' = "Pick"
  /\ misses' = IF Settled /\ seen > 0 /\ misses < MaxMisses THEN misses + 1 ELSE misses
  /\ UNCHANGED <<gameVars, seen, searchVars, steady, held, crowded, excused>>

\* The candidates are judged once more, and the first that is acceptable goes
\* to the caller.
Pick ==
  /\ pc = "Pick"
  /\ pc' = "Done"
  /\ IF Settled
       THEN \E o \in Acceptable : /\ \A p \in Acceptable : o <= p
                                  /\ answer' = o
       ELSE answer' = Null
  /\ UNCHANGED <<gameVars, seen, misses, size, offset, read_any, entries, todo, instances,
                 conclusive, steady, held, crowded, excused>>

Again ==
  /\ pc = "Done"
  /\ pc' = "Idle"
  /\ size' = 0 /\ offset' = 0 /\ read_any' = FALSE /\ entries' = {}
  /\ todo' = {} /\ instances' = {} /\ conclusive' = FALSE /\ answer' = Null
  /\ steady' = {} /\ held' = {} /\ crowded' = FALSE /\ excused' = FALSE
  /\ UNCHANGED <<gameVars, seen, misses>>

GameNext ==
  \/ \E o \in Object : Build(o) \/ Pass(o) \/ Collect(o) \/ \E i \in Slot : Hold(o, i)
  \/ \E i \in Slot : Release(i) \/ Flicker(i)
  \/ Unmap

SearchNext ==
  \/ Begin \/ ReadWindow \/ EndEntries
  \/ \E o \in todo : Look(o) \/ Skip(o)
  \/ EndTable \/ EndSweep \/ Pick \/ Again

Next == GameNext \/ SearchNext

Spec == Init /\ [][Next]_vars

(***************************************************************************)
(* Properties.                                                             *)
(***************************************************************************)
\* Objects the table has had an entry for all along, in windows that could be
\* read all along.
SteadilyHeld == {slot[i] : i \in held}

\* An object that was acceptable all along is found, and not missed for what
\* moved around it: if the table held it all along, and also if it did not but a
\* sweep may be had and could read everything; unless the limit was spent on
\* leftovers, or what the table settled it with changed before it was judged
\* again.  An empty answer that is called conclusive is of that kind.
WantedIsFound ==
  pc = "Done" /\ answer = Null /\ ~crowded =>
    /\ steady \cap SteadilyHeld = {}
    /\ (may_sweep /\ ~excused) \/ conclusive => steady = {}

\* The table is counted as missing an object only if it did: while it holds what
\* was asked for and can be read, it is not on its way to being given up.
MissesAreEarned ==
  [][misses' > misses => crowded \/ steady \cap SteadilyHeld = {}]_vars
=============================================================================
