----------------------------- MODULE Buildings -----------------------------
(***************************************************************************)
(* The building splits: Buildings of src/src/lib.rs, which walks the       *)
(* game's global entity list once when it is resolved, follows the list's  *)
(* tail from then on, and watches the state of every tracked building it   *)
(* came across.                                                            *)
(*                                                                         *)
(* The game changes the list while the splitter reads it.  The opening     *)
(* walk awaits a tick after each chunk; a poll reads the count first and   *)
(* the entries after it.  An entity is named by the address of its         *)
(* BlockObjectState, which is what the watch list holds.                   *)
(***************************************************************************)
EXTENDS Integers, SequencesExt

CONSTANTS
  Addr,           \* where BlockObjectStates may live
  Kinds,          \* what the settlement's buildings are
  Placed,         \* the longest list a walk starts from
  BASELINE_CHUNK, \* entities inspected per tick of the opening walk ...
  CHUNK,          \* ... and per poll
  MaxPlaced,      \* bound: buildings placed while the splitter watches
  MaxGlitches,    \* bound: polls whose count reads as nothing
  Removals,       \* when a removal may happen, besides on a tick of its own
  Reuse           \* a new building may take a removed one's memory

\* "walk": during the opening walk; "read": between a poll's count and its
\* entries; "growth": between the same two counts as a placement.
Moment == {"walk", "read", "growth"}

\* One slot of the five that split alone stands for all of them.
Slot    == {"solo", "smelter", "workshop"}
Trigger == {"solo", "smelter", "combined"}
Kind    == Slot \cup {"other"}

ASSUME BuildingsAssumption ==
  /\ IsFiniteSet(Addr) /\ Placed <= Cardinality(Addr)
  /\ Kinds \subseteq Kind
  /\ Placed \in Nat
  /\ BASELINE_CHUNK \in Nat \ {0} /\ CHUNK \in Nat \ {0}
  /\ MaxPlaced \in Nat /\ MaxGlitches \in Nat
  /\ Removals \subseteq Moment
  /\ Reuse \in BOOLEAN

VARIABLES
  list,          \* _entitiesInInstantiationOrder
  heap,          \* what is at each address
  placed,        \* buildings placed so far
  grew, shrank,  \* since the count was last read
  pc,            \* the opening walk, a poll's count, or its entries
  total, index,  \* of the opening walk
  inspected,     \* leading entries inspected
  lastCount,     \* last_count
  watched,       \* the slot each address is watched for, "none" if it is not
  finished, onArrival, combinedFired,
  midRun,        \* arrived_mid_run follows the walk
  glitches,
  built,         \* history: slots a building of which has been finished
  before,        \* history: `built` when the splitter arrived
  fired,         \* history: how often each trigger fired
  spoiled        \* history: slots whose addresses came to be another building's,
                 \* or that stood while the list slid under the opening walk

gameVars == <<list, heap, placed, grew, shrank, built, spoiled>>
walkVars == <<total, index, midRun, before>>
pollVars == <<inspected, lastCount, watched, finished, onArrival, combinedFired, fired, glitches>>
vars == <<gameVars, walkVars, pollVars, pc>>

Live(a) == \E i \in DOMAIN list : list[i] = a

\* Nothing has been at the address yet.
Nothing == [kind |-> "other", done |-> FALSE, isState |-> FALSE, used |-> FALSE]
Building(k, d) == [kind |-> k, done |-> d, isState |-> TRUE, used |-> TRUE]
Cell == [kind : Kind, done : BOOLEAN, isState : BOOLEAN, used : BOOLEAN]

TypeOK ==
  /\ list \in Seq(Addr)
  /\ heap \in [Addr -> Cell]
  /\ placed \in 0 .. MaxPlaced
  /\ grew \in BOOLEAN /\ shrank \in BOOLEAN
  /\ pc \in {"walk", "poll", "read"}
  /\ total \in Nat /\ index \in 0 .. total
  /\ inspected \in Nat /\ lastCount \in Nat
  /\ watched \in [Addr -> Slot \cup {"none"}]
  /\ finished \subseteq Slot /\ onArrival \subseteq finished
  /\ combinedFired \in BOOLEAN
  /\ midRun \in BOOLEAN
  /\ glitches \in 0 .. MaxGlitches
  /\ built \subseteq Slot /\ before \subseteq built /\ spoiled \subseteq Slot
  /\ fired \in [Trigger -> Nat]

\* Buildings::resolve, up to its first await: the count is read and the walk
\* over that many entities is about to start.
Init ==
  /\ \E n \in 0 .. Placed : list = SubSeq(SetToSeq(Addr), 1, n)
  /\ heap \in [Addr -> {Nothing} \cup {Building(k, d) : k \in Kinds, d \in BOOLEAN}]
  /\ \A a \in Addr : heap[a].used = Live(a)
  /\ placed = 0 /\ grew = FALSE /\ shrank = FALSE
  /\ pc = "walk"
  /\ total = Len(list) /\ index = 0
  /\ inspected = 0 /\ lastCount = 0
  /\ watched = [a \in Addr |-> "none"]
  /\ finished = {} /\ onArrival = {} /\ combinedFired = FALSE
  /\ midRun \in BOOLEAN
  /\ glitches = 0
  /\ built = {heap[a].kind : a \in {b \in Addr : heap[b].done}} \ {"other"}
  /\ before = built /\ spoiled = {}
  /\ fired = [t \in Trigger |-> 0]

(***************************************************************************)
(* The game.                                                               *)
(***************************************************************************)
\* A building is an entity from the moment it is placed.  Memory that was
\* never used is all alike, so one unused address stands for the others.
Place(a, k) ==
  /\ placed < MaxPlaced
  /\ ~Live(a)
  /\ IF heap[a].used THEN Reuse ELSE a = CHOOSE b \in Addr : ~heap[b].used
  /\ shrank => "growth" \in Removals
  /\ list' = Append(list, a)
  /\ heap' = [heap EXCEPT ![a] = Building(k, FALSE)]
  /\ placed' = placed + 1
  /\ grew' = TRUE
  /\ spoiled' = spoiled \cup ({watched[a]} \ {k, "none"})
  /\ UNCHANGED <<shrank, built, walkVars, pollVars, pc>>

Finish(a) ==
  /\ Live(a) /\ ~heap[a].done
  /\ heap' = [heap EXCEPT ![a].done = TRUE]
  /\ built' = built \cup ({heap[a].kind} \cap Slot)
  /\ UNCHANGED <<list, placed, grew, shrank, spoiled, walkVars, pollVars, pc>>

\* Demolished: what follows it in the list slides down by one.
Demolish(i) ==
  /\ pc = "walk" => "walk" \in Removals
  /\ pc = "read" => "read" \in Removals
  /\ grew => "growth" \in Removals
  /\ list' = RemoveAt(list, i)
  /\ shrank' = TRUE
  /\ spoiled' = IF pc = "walk" THEN spoiled \cup before ELSE spoiled
  /\ UNCHANGED <<heap, placed, grew, built, walkVars, pollVars, pc>>

\* What a demolished building leaves behind comes to hold something else, and
\* the worst that can read as is a finished building.
Overwrite(a) ==
  /\ heap[a].used /\ heap[a].isState /\ ~Live(a)
  /\ heap' = [heap EXCEPT ![a] = [kind |-> "other", done |-> TRUE, isState |-> FALSE, used |-> TRUE]]
  /\ UNCHANGED <<list, placed, grew, shrank, built, spoiled, walkVars, pollVars, pc>>

(***************************************************************************)
(* Buildings::inspect_range and poll_watched.                              *)
(***************************************************************************)
\* Entities [from, to) of the list as it is now; beyond its end nothing reads.
InRange(from, to) == {list[i] : i \in {j \in DOMAIN list : from < j /\ j <= to}}

\* The tracked ones are watched from then on, each address for one slot.
Inspected(from, to) ==
  [a \in Addr |->
     IF watched[a] = "none" /\ a \in InRange(from, to) /\ heap[a].kind \in Slot
       THEN heap[a].kind ELSE watched[a]]

\* A watched address says finished, and is still a BlockObjectState.
ReadsFinished(a) == heap[a].done /\ heap[a].isState

\* Mutant of Newly: what has been finished before is reported again.
Newly_Again(w) == {w[a] : a \in {b \in Addr : ReadsFinished(b)}} \ {"none"}

\* poll_watched: the slots that just reached Finished.
Newly(w) == {w[a] : a \in {b \in Addr : ReadsFinished(b)}} \ ({"none"} \cup finished)

(***************************************************************************)
(* The opening walk.                                                       *)
(***************************************************************************)
Lesser(a, b)  == IF a < b THEN a ELSE b
Greater(a, b) == IF a > b THEN a ELSE b

WalkChunk ==
  /\ pc = "walk" /\ index < total
  /\ index' = Lesser(index + BASELINE_CHUNK, total)
  /\ watched' = Inspected(index, index')
  /\ UNCHANGED <<gameVars, total, midRun, before, pc, inspected, lastCount, finished,
                 onArrival, combinedFired, fired, glitches>>

\* Mutant of EndWalk: what stands already is not remembered.
EndWalk_Forgets ==
  /\ pc = "walk" /\ index = total
  /\ inspected' = total /\ lastCount' = total
  /\ finished' = {} /\ onArrival' = {}
  /\ pc' = "poll"
  /\ UNCHANGED <<gameVars, walkVars, watched, combinedFired, fired, glitches>>

\* What stands finished is not a split -- unless the run is already under way,
\* and then it was built during it.
EndWalk ==
  /\ pc = "walk" /\ index = total
  /\ inspected' = total /\ lastCount' = total
  /\ finished' = IF midRun THEN {} ELSE Newly(watched)
  /\ onArrival' = finished'
  /\ pc' = "poll"
  /\ UNCHANGED <<gameVars, walkVars, watched, combinedFired, fired, glitches>>

(***************************************************************************)
(* Buildings::poll.                                                        *)
(***************************************************************************)
\* Mutant of Rewound: the mark is brought back to the end of the list only.
Rewound_ToCount(count) == Lesser(inspected, count)

\* Mutant of Rewound: the mark is not held at zero.
Rewound_Freely(count) ==
  IF count < lastCount THEN inspected - (lastCount - count) ELSE inspected

\* The mark after a shrink of k has given back k.
Rewound(count) ==
  IF count < lastCount THEN Greater(inspected - (lastCount - count), 0) ELSE inspected

\* The count is read; a read that fails counts nothing.
PollCount ==
  /\ pc = "poll"
  /\ \E count \in {Len(list), 0} :
       /\ glitches' = IF count = Len(list) THEN glitches ELSE glitches + 1
       /\ glitches' <= MaxGlitches
       /\ inspected' = Rewound(count)
       /\ lastCount' = count
  /\ grew' = FALSE /\ shrank' = FALSE
  /\ pc' = "read"
  /\ UNCHANGED <<list, heap, placed, built, spoiled, walkVars, watched, finished, onArrival,
                 combinedFired, fired>>

\* How far this poll inspects.
Catch == Lesser(inspected + CHUNK, lastCount)

\* Mutant of Combined: both have to be new.
Combined_BothNew(done) ==
  {"smelter", "workshop"} \subseteq (done \ onArrival) /\ ~combinedFired

\* The combined split, on the later of the two.
Combined(done) ==
  /\ {"smelter", "workshop"} \subseteq done
  /\ ~({"smelter", "workshop"} \subseteq onArrival)
  /\ ~combinedFired

PollEntries ==
  /\ pc = "read"
  /\ watched' = Inspected(inspected, Catch)
  /\ inspected' = Catch
  /\ LET newly == Newly(watched')
         alone == newly \ (onArrival \cup {"workshop"})
         both  == Combined(finished \cup newly) IN
       /\ finished' = finished \cup newly
       /\ combinedFired' = (combinedFired \/ both)
       /\ fired' = [t \in Trigger |->
                      fired[t] + IF t \in alone \/ (t = "combined" /\ both) THEN 1 ELSE 0]
  /\ pc' = "poll"
  /\ UNCHANGED <<gameVars, walkVars, lastCount, onArrival, glitches>>

GameNext ==
  \/ \E a \in Addr :
       \/ \E k \in Kinds : Place(a, k)
       \/ Finish(a)
       \/ Overwrite(a)
  \/ \E i \in DOMAIN list : Demolish(i)

SplitterNext == WalkChunk \/ EndWalk \/ PollCount \/ PollEntries

Next == GameNext \/ SplitterNext

Spec == Init /\ [][Next]_vars

\* The task is polled for as long as the host runs it.
FairSpec == Spec /\ WF_vars(SplitterNext)

(***************************************************************************)
(* Properties.                                                             *)
(***************************************************************************)
\* Where the mark stands for the list as it is now, the next poll having yet
\* to learn of a shrink.
Mark == IF Len(list) < lastCount THEN inspected - (lastCount - Len(list)) ELSE inspected

\* Every tracked building below the mark is watched: entities that slide down
\* the list never slip under the mark unseen.
BelowTheMarkIsWatched ==
  pc = "poll" => \A i \in DOMAIN list :
                   i <= Mark /\ heap[list[i]].kind \in Slot => watched[list[i]] # "none"

\* A trigger fires only for buildings that were finished -- and, in a game
\* that was not a run yet, that were not finished when the splitter arrived.
\* Two things may pass for such a building, and they only for the slots in
\* `spoiled`: another building in the memory of one that was watched, and one
\* that stood on arrival, if the list slid under the walk that looked for it.
New(s) == s \in spoiled \/ (s \in built /\ (midRun \/ s \notin before))
SplitsAreReal ==
  /\ \A s \in {"solo", "smelter"} : fired[s] > 0 => New(s)
  /\ fired["combined"] > 0 =>
       /\ {"smelter", "workshop"} \subseteq built \cup spoiled
       /\ New("smelter") \/ New("workshop")

\* No trigger fires twice, whatever is rebuilt, removed or read again.
EachSplitsOnce == \A t \in Trigger : fired[t] <= 1

\* A tracked building that stands finished, and not where another was watched
\* that is gone, is split for in the end: alone, and together with its partner,
\* unless it stood when the splitter arrived.
Standing(s) == \E i \in DOMAIN list :
  /\ heap[list[i]].kind = s /\ heap[list[i]].done
  /\ watched[list[i]] \in {"none", s}
Due(t) ==
  IF t = "combined"
    THEN /\ Standing("smelter") /\ Standing("workshop")
         /\ ~({"smelter", "workshop"} \subseteq onArrival)
    ELSE Standing(t) /\ t \notin onArrival
EverySplitComes ==
  \A t \in Trigger : <>[](pc # "walk" /\ Due(t)) => <>(fired[t] > 0)
=============================================================================
