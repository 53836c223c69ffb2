---------------------------- MODULE Find_proofs -----------------------------
(***************************************************************************)
(* What holds of Find for any objects, any table and any limit: types,     *)
(* that an object acceptable all along is handed over, and that a miss is  *)
(* counted only for a table that missed.                                   *)
(***************************************************************************)
EXTENDS Find, TLAPS

LEMMA Numbers ==
  /\ Capacity \in Nat /\ MaxMisses \in Nat /\ may_sweep \in BOOLEAN
  /\ Null \notin Object
  /\ 0 \in 0 .. Capacity /\ 1 \in 0 .. Capacity /\ 0 \in 0 .. MaxMisses
<1>1. /\ Capacity \in Nat \ {0} /\ MaxMisses \in Nat /\ may_sweep \in BOOLEAN
      /\ Null \notin Object
  BY FindAssumption
<1> QED
  BY <1>1

(***************************************************************************)
(* Types.                                                                  *)
(***************************************************************************)
LEMMA InitType == Init => TypeOK
<1> SUFFICES ASSUME Init
             PROVE  TypeOK
  OBVIOUS
<1>1. slot \in [Slot -> Object \cup {Null}] /\ kind \in [Object -> Kind]
  BY DEF Init
<1>2. extent \in 0 .. Capacity /\ seen \in 0 .. Capacity /\ misses \in 0 .. MaxMisses
  BY Numbers DEF Init
<1>3. size \in 0 .. Capacity /\ offset \in 0 .. size
  BY Numbers DEF Init
<1> QED
  BY <1>1, <1>2, <1>3 DEF Init, TypeOK

LEMMA GameType == TypeOK /\ GameNext => TypeOK'
<1> SUFFICES ASSUME TypeOK, GameNext
             PROVE  TypeOK'
  OBVIOUS
<1> USE DEF TypeOK, Forget, searchVars
<1>1. ASSUME NEW o \in Object, NEW from, NEW to \in Kind, Become(o, from, to)
      PROVE  TypeOK'
  BY <1>1 DEF Become
<1>2. ASSUME NEW o \in Object, Build(o) \/ Pass(o) \/ Collect(o)
      PROVE  TypeOK'
  BY <1>1, <1>2 DEF Build, Pass, Collect, Kind
<1>3. ASSUME NEW o \in Object, NEW i \in Slot, Hold(o, i)
      PROVE  TypeOK'
  <2>1. slot' \in [Slot -> Object \cup {Null}]
    BY <1>3 DEF Hold
  <2>2. extent' \in 0 .. Capacity
    BY <1>3, Numbers DEF Hold, Slot
  <2> QED
    BY <1>3, <2>1, <2>2 DEF Hold
<1>4. ASSUME NEW i \in Slot, Release(i)
      PROVE  TypeOK'
  BY <1>4 DEF Release
<1>5. ASSUME NEW i \in Slot, Flicker(i)
      PROVE  TypeOK'
  BY <1>5 DEF Flicker
<1>6. CASE Unmap
  BY <1>6, Numbers DEF Unmap
<1> QED
  BY <1>2, <1>3, <1>4, <1>5, <1>6 DEF GameNext

LEMMA SearchType == TypeOK /\ SearchNext => TypeOK'
<1> SUFFICES ASSUME TypeOK, SearchNext
             PROVE  TypeOK'
  OBVIOUS
<1> USE DEF TypeOK, gameVars
<1>1. ASSUME Unanswered
      PROVE  /\ pc' \in {"Sweep", "Pick"} /\ todo' \subseteq Object /\ instances' = {}
             /\ conclusive' \in BOOLEAN
  BY <1>1, Numbers DEF Unanswered
<1>2. CASE Begin
  <2>1. steady' \subseteq Object /\ held' \subseteq Slot
    <3>1. extent \in 0 .. Capacity /\ Legible \subseteq 1 .. extent
      BY DEF Legible
    <3>2. Legible \subseteq Slot
      BY <3>1, Numbers DEF Slot
    <3> QED
      BY <1>2, <3>2 DEF Begin, Wanted
  <2>2. size' \in 0 .. Capacity /\ offset' = 0 /\ 0 \in 0 .. size'
    BY <1>2, Numbers DEF Begin
  <2>3. /\ pc' \in {"Sweep", "Pick", "Entries"} /\ todo' \subseteq Object
        /\ instances' \subseteq Object /\ conclusive' \in BOOLEAN /\ seen' \in 0 .. Capacity
    BY <1>1, <1>2 DEF Begin
  <2> QED
    BY <1>2, <2>1, <2>2, <2>3 DEF Begin
<1>3. CASE ReadWindow
  <2>1. offset' \in 0 .. size /\ offset' \in Slot
    BY <1>3, Numbers DEF ReadWindow, Slot
  <2>2. entries' \subseteq Object /\ read_any' \in BOOLEAN
    BY <1>3, <2>1 DEF ReadWindow
  <2> QED
    BY <1>3, <2>1, <2>2 DEF ReadWindow
<1>4. CASE EndEntries
  BY <1>1, <1>4 DEF EndEntries
<1>5. ASSUME NEW o \in todo, Look(o)
      PROVE  TypeOK'
  BY <1>5 DEF Look
<1>6. ASSUME NEW o \in todo, Skip(o)
      PROVE  TypeOK'
  BY <1>6 DEF Skip
<1>7. CASE EndTable
  <2>1. misses' \in 0 .. MaxMisses
    BY <1>7, Numbers DEF EndTable
  <2>2. excused' \in BOOLEAN
    BY <1>7 DEF EndTable, Settled
  <2> QED
    BY <1>1, <1>7, <2>1, <2>2 DEF EndTable
<1>8. CASE EndSweep
  <2>1. misses' \in 0 .. MaxMisses
    BY <1>8, Numbers DEF EndSweep
  <2> QED
    BY <1>8, <2>1 DEF EndSweep, searchVars
<1>9. CASE Pick
  <2>1. answer' \in Object \cup {Null}
    BY <1>9 DEF Pick, Acceptable
  <2> QED
    BY <1>9, <2>1 DEF Pick
<1>10. CASE Again
  <2>1. size' = 0 /\ offset' = 0 /\ size' \in 0 .. Capacity /\ offset' \in 0 .. size'
    BY <1>10, Numbers DEF Again
  <2> QED
    BY <1>10, <2>1 DEF Again
<1> QED
  BY <1>2, <1>3, <1>4, <1>5, <1>6, <1>7, <1>8, <1>9, <1>10 DEF SearchNext

LEMMA NextType == TypeOK /\ [Next]_vars => TypeOK'
<1>1. TypeOK /\ UNCHANGED vars => TypeOK'
  BY DEF TypeOK, vars, gameVars, searchVars
<1> QED
  BY <1>1, GameType, SearchType DEF Next

\* The variables keep their types: the place in the table never passes the
\* extent that was read for this search, and that never passes the bound.
THEOREM FindTypeCorrect == Spec => []TypeOK
BY InitType, NextType, PTL DEF Spec

(***************************************************************************)
(* An object that stayed acceptable is, from window to window and from     *)
(* object to object, in what has been read or still to be looked at.       *)
(***************************************************************************)
\* What is remembered of the game is still so.
Remembered == steady \subseteq Wanted /\ held \subseteq Legible

Active == pc # "Idle"

\* While the entries are read: those held all along are in windows of this
\* search, and the ones already passed were read.
EntriesSeen ==
  pc = "Entries" =>
    /\ conclusive = FALSE /\ excused = FALSE
    /\ \A i \in held : i <= size /\ (i <= offset => read_any /\ slot[i] \in entries)

\* While their objects are looked at.
ObjectsSeen ==
  pc = "Objects" =>
    /\ conclusive = FALSE
    /\ ~ crowded => steady \cap SteadilyHeld \subseteq todo \cup instances

\* While the heap is swept: the table had nothing, and the sweep has not passed
\* anything by unless it says so.
SweepSeen ==
  pc = "Sweep" =>
    /\ may_sweep
    /\ conclusive => ~ excused
    /\ ~ crowded => steady \cap SteadilyHeld = {}
    /\ ~ crowded /\ ~ excused => steady \subseteq todo \cup instances

PickSeen ==
  pc = "Pick" /\ ~ crowded =>
    /\ steady \cap SteadilyHeld \subseteq instances
    /\ (may_sweep /\ ~ excused) \/ conclusive => steady \subseteq instances

Seen == Remembered /\ EntriesSeen /\ ObjectsSeen /\ SweepSeen /\ PickSeen /\ WantedIsFound

LEMMA InitSeen == Init => Seen
BY DEF Init, Seen, Remembered, EntriesSeen, ObjectsSeen, SweepSeen, PickSeen, WantedIsFound

\* The game only takes from what is remembered.
LEMMA GameForgets ==
  ASSUME TypeOK, Remembered, GameNext
  PROVE  /\ Remembered'
         /\ steady' \subseteq steady /\ held' \subseteq held
         /\ \A i \in held' : slot'[i] = slot[i]
         /\ UNCHANGED <<seen, misses, pc, searchVars, crowded, excused>>
<1>1. /\ steady \subseteq Wanted
      /\ \A i \in held : i \in Slot /\ i <= extent /\ i \in readable /\ slot[i] # Null
  <2>1. held \subseteq Legible /\ Legible \subseteq 1 .. extent /\ held \subseteq Slot
    BY DEF Remembered, Legible, TypeOK
  <2>2. \A i \in Slot : i \in 1 .. extent => i <= extent
    BY Numbers DEF Slot, TypeOK
  <2> QED
    BY <2>1, <2>2 DEF Remembered, Legible
<1>2. ASSUME NEW o \in Object, NEW from, NEW to, Become(o, from, to)
      PROVE  /\ Remembered'
             /\ steady' \subseteq steady /\ held' = held /\ slot' = slot
             /\ UNCHANGED <<seen, misses, pc, searchVars, crowded, excused>>
  <2>1. /\ steady' = steady \ {o} /\ held' = held
        /\ \A p \in Object : p # o => kind'[p] = kind[p]
        /\ UNCHANGED <<slot, extent, readable>>
    BY <1>2 DEF Become, Forget, TypeOK
  <2>2. steady' \subseteq Wanted'
    BY <1>1, <2>1 DEF Wanted
  <2>3. held' \subseteq Legible'
    BY <2>1 DEF Legible, Remembered
  <2> QED
    BY <1>2, <2>1, <2>2, <2>3 DEF Become, Forget, Remembered
<1>3. ASSUME NEW o \in Object, Build(o) \/ Pass(o) \/ Collect(o)
      PROVE  /\ Remembered'
             /\ steady' \subseteq steady /\ held' = held /\ slot' = slot
             /\ UNCHANGED <<seen, misses, pc, searchVars, crowded, excused>>
  BY <1>2, <1>3 DEF Build, Pass, Collect
<1>4. ASSUME NEW slots, held' = held \ slots,
             \A i \in held' : slot'[i] = slot[i] /\ i \in readable' /\ i \in 1 .. extent',
             kind' = kind, steady' = steady
      PROVE  /\ Remembered' /\ steady' \subseteq steady /\ held' \subseteq held
             /\ \A i \in held' : slot'[i] = slot[i]
  BY <1>1, <1>4 DEF Remembered, Wanted, Legible
<1>5. ASSUME NEW o \in Object, NEW i \in Slot, Hold(o, i)
      PROVE  /\ Remembered'
             /\ steady' \subseteq steady /\ held' \subseteq held
             /\ \A j \in held' : slot'[j] = slot[j]
             /\ UNCHANGED <<seen, misses, pc, searchVars, crowded, excused>>
  <2>1. held' = held \ {} /\ kind' = kind /\ steady' = steady /\ readable' = readable
    BY <1>5 DEF Hold, Forget
  <2>2. \A j \in held' : slot'[j] = slot[j]
    BY <1>1, <1>5, <2>1 DEF Hold, TypeOK
  <2>3. extent' \in Nat /\ extent <= extent' /\ extent \in Nat
    BY <1>5, Numbers DEF Hold, Slot, TypeOK
  <2>4. \A j \in held' : j \in 1 .. extent'
    <3>1. \A j \in held' : j \in Nat /\ 1 <= j /\ j <= extent
      BY <1>1, <2>1 DEF Slot
    <3> QED
      BY <2>3, <3>1
  <2>5. \A j \in held' : j \in readable'
    BY <1>1, <2>1
  <2> QED
    BY <1>4, <1>5, <2>1, <2>2, <2>4, <2>5 DEF Hold, Forget
<1>6. ASSUME NEW i \in Slot, Release(i) \/ Flicker(i)
      PROVE  /\ Remembered'
             /\ steady' \subseteq steady /\ held' \subseteq held
             /\ \A j \in held' : slot'[j] = slot[j]
             /\ UNCHANGED <<seen, misses, pc, searchVars, crowded, excused>>
  <2>1. held' = held \ {i} /\ kind' = kind /\ steady' = steady \ {} /\ extent' = extent
    BY <1>6 DEF Release, Flicker, Forget
  <2>2. \A j \in held' : slot'[j] = slot[j] /\ j \in readable'
    BY <1>1, <1>6, <2>1 DEF Release, Flicker, TypeOK
  <2>3. \A j \in held' : j \in 1 .. extent'
    BY <2>1 DEF Remembered, Legible
  <2> QED
    BY <1>4, <1>6, <2>1, <2>2, <2>3 DEF Release, Flicker, Forget
<1>7. CASE Unmap
  <2>1. held' = held \ Slot /\ held' = {} /\ kind' = kind /\ steady' = steady
    BY <1>7 DEF Unmap, Forget, TypeOK
  <2> QED
    BY <1>4, <1>7, <2>1 DEF Unmap, Forget
<1> QED
  BY <1>3, <1>5, <1>6, <1>7 DEF GameNext

LEMMA GameSeen ==
  ASSUME TypeOK, Seen, GameNext
  PROVE  Seen'
<1>1. /\ Remembered'
      /\ steady' \subseteq steady /\ held' \subseteq held
      /\ \A i \in held' : slot'[i] = slot[i]
      /\ UNCHANGED <<seen, misses, pc, searchVars, crowded, excused>>
  BY GameForgets DEF Seen
<1>2. SteadilyHeld' \subseteq SteadilyHeld
  BY <1>1 DEF SteadilyHeld
<1>3. EntriesSeen'
  BY <1>1 DEF Seen, EntriesSeen, searchVars
<1>4. ObjectsSeen' /\ SweepSeen' /\ PickSeen' /\ WantedIsFound'
  BY <1>1, <1>2 DEF Seen, ObjectsSeen, SweepSeen, PickSeen, WantedIsFound, searchVars
<1> QED
  BY <1>1, <1>3, <1>4 DEF Seen

\* The steps of a search leave the game and what is remembered of it.
LEMMA KeepsRemembered ==
  ASSUME Remembered, UNCHANGED <<gameVars, steady, held>>
  PROVE  Remembered' /\ SteadilyHeld' = SteadilyHeld /\ Wanted' = Wanted
BY DEF Remembered, Wanted, Legible, SteadilyHeld, gameVars

LEMMA BeginSeen ==
  ASSUME TypeOK, Seen, Begin
  PROVE  Seen'
<1>1. steady' = Wanted' /\ held' = Legible' /\ Legible' = Legible
  BY DEF Begin, gameVars, Wanted, Legible
<1>2. /\ ~ excused' /\ (conclusive' => pc' = "Sweep")
      /\ pc' = "Sweep" => may_sweep /\ ~ excused' /\ todo' = Object /\ extent = 0
      /\ pc' = "Pick" => ~ may_sweep /\ ~ conclusive' /\ extent = 0
      /\ pc' \in {"Sweep", "Pick", "Entries"}
      /\ pc' = "Entries" => size' = extent /\ offset' = 0
  BY DEF Begin, Unanswered
<1>3. extent = 0 => held' = {}
  BY <1>1 DEF Legible
<1>4. EntriesSeen'
  <2> SUFFICES ASSUME pc' = "Entries"
               PROVE  /\ ~ conclusive' /\ ~ excused'
                      /\ \A i \in held' : i <= size' /\ ~ (i <= offset')
    BY DEF EntriesSeen, Begin
  <2>1. \A i \in held' : i \in 1 .. extent
    BY <1>1 DEF Legible
  <2>2. extent \in Nat
    BY Numbers DEF TypeOK
  <2> QED
    BY <1>2, <2>1, <2>2
<1>5. steady' \subseteq Object
  BY <1>1 DEF Wanted
<1> QED
  BY <1>1, <1>2, <1>3, <1>4, <1>5
     DEF Seen, Remembered, ObjectsSeen, SweepSeen, PickSeen, WantedIsFound, SteadilyHeld

LEMMA WindowSeen ==
  ASSUME TypeOK, Seen, ReadWindow
  PROVE  Seen'
<1>1. Remembered' /\ pc = "Entries" /\ pc' = "Entries" 
      /\ UNCHANGED <<slot, held, size, conclusive, excused>>
  BY KeepsRemembered DEF Seen, ReadWindow, gameVars
<1>2. \A i \in held : i \in Slot /\ i \in readable /\ i <= extent /\ slot[i] \in Object
  <2>1. \A i \in held : i \in 1 .. extent /\ i \in readable /\ slot[i] # Null /\ i \in Slot
    BY DEF Seen, Remembered, Legible, TypeOK
  <2>2. extent \in Nat
    BY Numbers DEF TypeOK
  <2>3. \A i \in held : i <= extent
    BY <2>1, <2>2
  <2> QED
    BY <2>1, <2>3 DEF TypeOK
<1>3. offset \in Nat /\ offset' = offset + 1
  BY Numbers DEF TypeOK, ReadWindow
<1>4. /\ read_any => read_any'
      /\ entries \subseteq entries'
      /\ offset' \in held => read_any' /\ slot[offset'] \in entries'
  BY <1>2, Numbers DEF ReadWindow
<1>5. \A i \in held : i <= offset' => i <= offset \/ i = offset'
  BY <1>2, <1>3 DEF Slot
<1>6. EntriesSeen'
  BY <1>1, <1>4, <1>5 DEF Seen, EntriesSeen
<1> QED
  BY <1>1, <1>6 DEF Seen, ObjectsSeen, SweepSeen, PickSeen, WantedIsFound

LEMMA EndEntriesSeen ==
  ASSUME TypeOK, Seen, EndEntries
  PROVE  Seen'
<1>1. /\ Remembered' /\ SteadilyHeld' = SteadilyHeld /\ steady' = steady
      /\ steady \subseteq Object /\ crowded' = crowded
  BY KeepsRemembered DEF Seen, EndEntries, gameVars, TypeOK
<1>2. \A i \in held : read_any /\ slot[i] \in entries
  BY DEF Seen, EntriesSeen, EndEntries
<1>3. CASE read_any
  <2>1. pc' = "Objects" /\ todo' = entries /\ conclusive' = FALSE
    BY <1>3 DEF EndEntries, Seen, EntriesSeen
  <2>2. SteadilyHeld \subseteq entries
    BY <1>2 DEF SteadilyHeld
  <2> QED
    BY <1>1, <2>1, <2>2 DEF Seen, EntriesSeen, ObjectsSeen, SweepSeen, PickSeen, WantedIsFound
<1>4. CASE ~ read_any
  <2>1. SteadilyHeld = {}
    BY <1>2, <1>4 DEF SteadilyHeld
  <2>2. Unanswered
    BY <1>4 DEF EndEntries
  <2>3. ~ excused'
    BY DEF EndEntries, Seen, EntriesSeen
  <2>4. CASE may_sweep
    <3>1. pc' = "Sweep" /\ todo' = Object /\ conclusive' = TRUE
      BY <2>2, <2>4 DEF Unanswered
    <3> QED
      BY <1>1, <2>1, <2>3, <2>4, <3>1
         DEF Seen, EntriesSeen, ObjectsSeen, SweepSeen, PickSeen, WantedIsFound
  <2>5. CASE ~ may_sweep
    <3>1. pc' = "Pick" /\ conclusive' = FALSE
      BY <2>2, <2>5, Numbers DEF Unanswered
    <3> QED
      BY <1>1, <2>1, <2>5, <3>1
         DEF Seen, EntriesSeen, ObjectsSeen, SweepSeen, PickSeen, WantedIsFound
  <2> QED
    BY <2>4, <2>5
<1> QED
  BY <1>3, <1>4

LEMMA LookSeen ==
  ASSUME TypeOK, Seen, NEW o \in todo, Look(o)
  PROVE  Seen'
<1>1. /\ Remembered' /\ SteadilyHeld' = SteadilyHeld /\ steady' = steady
      /\ pc' = pc /\ pc \in {"Objects", "Sweep"} /\ UNCHANGED <<conclusive, excused>>
  BY KeepsRemembered DEF Seen, Look, gameVars
<1>2. o \in steady => kind[o] = "wanted"
  BY DEF Seen, Remembered, Wanted
<1>3. /\ instances \subseteq instances'
      /\ o \in steady => o \in instances'
      /\ crowded' = crowded \/ crowded'
      /\ ~ crowded' => ~ crowded /\ todo' = todo \ {o}
  BY <1>2 DEF Look, TypeOK
<1>4. ObjectsSeen' /\ SweepSeen'
  BY <1>1, <1>3 DEF Seen, ObjectsSeen, SweepSeen
<1> QED
  BY <1>1, <1>4 DEF Seen, EntriesSeen, PickSeen, WantedIsFound

LEMMA SkipSeen ==
  ASSUME TypeOK, Seen, NEW o \in todo, Skip(o)
  PROVE  Seen'
<1>1. /\ Remembered' /\ SteadilyHeld' = SteadilyHeld /\ steady' = steady
      /\ pc' = pc /\ pc = "Sweep" /\ ~ conclusive' /\ excused' /\ crowded' = crowded
  BY KeepsRemembered DEF Seen, Skip, gameVars
<1> QED
  BY <1>1 DEF Seen, EntriesSeen, ObjectsSeen, SweepSeen, PickSeen, WantedIsFound

LEMMA EndTableSeen ==
  ASSUME TypeOK, Seen, EndTable
  PROVE  Seen'
<1>1. /\ Remembered' /\ SteadilyHeld' = SteadilyHeld /\ steady' = steady /\ crowded' = crowded
      /\ steady \subseteq Object /\ steady \subseteq Wanted
  BY KeepsRemembered DEF Seen, EndTable, gameVars, TypeOK, Remembered
<1>2. ~ crowded => steady \cap SteadilyHeld \subseteq instances
  BY DEF EndTable, Seen, ObjectsSeen
<1>3. conclusive = FALSE
  BY DEF EndTable, Seen, ObjectsSeen
<1>4. CASE may_sweep /\ ~ Settled
  <2>1. /\ pc' = "Sweep" /\ todo' = Object /\ conclusive' = TRUE /\ ~ excused' /\ may_sweep
    BY <1>4 DEF EndTable, Unanswered
  <2>2. ~ crowded => steady \cap SteadilyHeld = {}
    BY <1>1, <1>2, <1>4 DEF Settled, Acceptable
  <2> QED
    BY <1>1, <2>1, <2>2 DEF Seen, EntriesSeen, ObjectsSeen, SweepSeen, PickSeen, WantedIsFound
<1>5. CASE ~ (may_sweep /\ ~ Settled)
  <2>1. pc' = "Pick" /\ instances' = instances /\ conclusive' = FALSE /\ excused' = Settled
    BY <1>3, <1>5 DEF EndTable
  <2> QED
    BY <1>1, <1>2, <1>5, <2>1
       DEF Seen, EntriesSeen, ObjectsSeen, SweepSeen, PickSeen, WantedIsFound
<1> QED
  BY <1>4, <1>5

LEMMA EndSweepSeen ==
  ASSUME TypeOK, Seen, EndSweep
  PROVE  Seen'
<1>1. /\ Remembered' /\ SteadilyHeld' = SteadilyHeld /\ steady' = steady
      /\ pc = "Sweep" /\ pc' = "Pick" /\ todo = {}
      /\ UNCHANGED <<instances, conclusive, crowded, excused>>
  BY KeepsRemembered DEF Seen, EndSweep, gameVars, searchVars
<1> QED
  BY <1>1 DEF Seen, EntriesSeen, ObjectsSeen, SweepSeen, PickSeen, WantedIsFound

LEMMA PickedSeen ==
  ASSUME TypeOK, Seen, Pick
  PROVE  Seen'
<1>1. /\ Remembered' /\ SteadilyHeld' = SteadilyHeld /\ steady' = steady
      /\ steady \subseteq Wanted
      /\ pc = "Pick" /\ pc' = "Done" /\ UNCHANGED <<instances, conclusive, crowded, excused>>
  BY KeepsRemembered DEF Seen, Pick, gameVars, Remembered
<1>2. answer' = Null => Acceptable = {}
  BY Numbers DEF Pick, Settled, Acceptable, TypeOK
<1>3. Acceptable = {} => steady \cap instances = {}
  BY <1>1 DEF Acceptable
<1> QED
  BY <1>1, <1>2, <1>3 DEF Seen, EntriesSeen, ObjectsSeen, SweepSeen, PickSeen, WantedIsFound

LEMMA AgainSeen ==
  ASSUME Again
  PROVE  Seen'
BY DEF Again, Seen, Remembered, EntriesSeen, ObjectsSeen, SweepSeen, PickSeen, WantedIsFound

LEMMA NextSeen == TypeOK /\ Seen /\ [Next]_vars => Seen'
<1> SUFFICES ASSUME TypeOK, Seen, [Next]_vars
             PROVE  Seen'
  OBVIOUS
<1>1. CASE GameNext
  BY <1>1, GameSeen
<1>2. CASE SearchNext
  BY <1>2, BeginSeen, WindowSeen, EndEntriesSeen, LookSeen, SkipSeen, EndTableSeen,
     EndSweepSeen, PickedSeen, AgainSeen DEF SearchNext
<1>3. CASE UNCHANGED vars
  BY <1>3 DEF vars, gameVars, searchVars, Seen, Remembered, Wanted, Legible, SteadilyHeld,
              EntriesSeen, ObjectsSeen, SweepSeen, PickSeen, WantedIsFound
<1> QED
  BY <1>1, <1>2, <1>3 DEF Next

\* An object that was acceptable all along is found by the search: by its table
\* pass if the table held it all along, by the sweep if that read everything,
\* unless the limit was spent on leftovers.
THEOREM TheWantedIsFound == Spec => []WantedIsFound
<1>1. Seen => WantedIsFound
  BY DEF Seen
<1> QED
  BY <1>1, InitSeen, NextSeen, FindTypeCorrect, PTL DEF Spec

\* A miss is counted against the table only by a sweep that followed a table pass
\* which read every entry it was owed, and found nothing acceptable in them.
THEOREM MissesWereEarned == Spec => MissesAreEarned
<1>1. TypeOK /\ Seen /\ [Next]_vars =>
        [misses' > misses => crowded \/ steady \cap SteadilyHeld = {}]_vars
  <2> SUFFICES ASSUME TypeOK, Seen, Next, misses' > misses
               PROVE  crowded \/ steady \cap SteadilyHeld = {}
    OBVIOUS
  <2>1. misses \in Nat
    BY Numbers DEF TypeOK
  <2>2. misses' # misses /\ misses' # 0
    BY <2>1
  <2>3. EndSweep
    BY <2>2 DEF Next, GameNext, Build, Pass, Collect, Become, Hold, Release, Flicker, Unmap,
                Forget, SearchNext, Begin, ReadWindow, EndEntries, Look, Skip, EndTable, Pick,
                Again
  <2> QED
    BY <2>3 DEF EndSweep, Seen, SweepSeen
<1> QED
  BY <1>1, InitSeen, NextSeen, FindTypeCorrect, PTL DEF Spec, MissesAreEarned
=============================================================================
