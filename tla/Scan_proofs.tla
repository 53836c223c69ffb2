---------------------------- MODULE Scan_proofs -----------------------------
(***************************************************************************)
(* What holds of Scan for any ranges, chunks and limits, and whatever the  *)
(* game does to its memory meanwhile: its types, that a scan keeps the     *)
(* promise of a search, and that what is there throughout, can be read and *)
(* does not exceed the limit is found.                                     *)
(***************************************************************************)
EXTENDS Scan, TLAPS

\* Of two ranges that are next, there is one.
LEMMA OneIsNext ==
  ASSUME NEW S, S \subseteq Range, NEW r, NEW s, IsNext(r, S), IsNext(s, S)
  PROVE  r = s
<1>1. r \in Nat /\ s \in Nat /\ r <= s /\ s <= r
  BY ScanAssumption DEF IsNext
<1> QED
  BY <1>1

LEMMA ArePages ==
  ASSUME NEW r \in Range
  PROVE  PagesOf(r) \subseteq Page /\ Chunk(r) \subseteq PagesOf(r)
BY DEF Page, Chunk

(***************************************************************************)
(* Types.                                                                  *)
(***************************************************************************)
LEMMA GameType == TypeOK /\ GameNext => TypeOK'
<1> SUFFICES ASSUME TypeOK, GameNext
             PROVE  TypeOK'
  OBVIOUS
<1> USE DEF TypeOK, Forget, readVars, resultVars
<1>1. ASSUME NEW p \in Page, NEW from, NEW to \in Word, Write(p, from, to)
      PROVE  TypeOK'
  BY <1>1 DEF Write
<1>2. ASSUME NEW p \in Page, Build(p)
      PROVE  TypeOK'
  BY <1>1, <1>2 DEF Build, Word
<1>3. ASSUME NEW p \in Page, Inject(p)
      PROVE  TypeOK'
  BY <1>1, <1>3 DEF Inject, Word
<1>4. ASSUME NEW p \in Page, Collect(p)
      PROVE  TypeOK'
  BY <1>1, <1>4 DEF Collect, Word
<1>5. ASSUME NEW p \in Page, Shut(p)
      PROVE  TypeOK'
  BY <1>5 DEF Shut
<1>6. ASSUME NEW p \in Page, Reopen(p)
      PROVE  TypeOK'
  BY <1>6 DEF Reopen
<1>7. ASSUME NEW r \in Range, Map(r)
      PROVE  TypeOK'
  BY <1>7 DEF Map
<1>8. ASSUME NEW r \in Range, Unmap(r)
      PROVE  TypeOK'
  <2>1. open' \subseteq UNION {PagesOf(s) : s \in mapped'}
    BY <1>8 DEF Unmap
  <2>2. word' \in [Page -> Word]
    BY <1>8 DEF Unmap, Word
  <2> QED
    BY <1>8, <2>1, <2>2 DEF Unmap
<1> QED
  BY <1>2, <1>3, <1>4, <1>5, <1>6, <1>7, <1>8 DEF GameNext

LEMMA StepType == TypeOK /\ (New \/ Step) => TypeOK'
<1> SUFFICES ASSUME TypeOK, New \/ Step
             PROVE  TypeOK'
  OBVIOUS
<1> USE DEF TypeOK, gameVars, readVars, resultVars
<1>1. CASE New
  <2>1. open \subseteq Page
    BY DEF Page
  <2>2. /\ mapped' = mapped /\ open' = open /\ word' = word /\ pc' = "Sweep"
        /\ ranges' \subseteq Range /\ left' = ranges' /\ offset' = 0
        /\ pages' = {} /\ matches' = {} /\ found' = {} /\ rejected' = {}
        /\ anchor_ranges' = {} /\ unreadable' = {} /\ stopped' = FALSE
    BY <1>1 DEF New
  <2>3. lasting' \subseteq Page /\ steady' \subseteq Page
    BY <1>1, <2>1 DEF New, Instances
  <2> QED
    BY <2>2, <2>3
<1>2. ASSUME NEW r \in left, NextRange(r)
      PROVE  TypeOK'
  BY <1>2 DEF NextRange
<1>3. ASSUME NEW r \in left, NEW ps, ps \subseteq Page, Examine(r, ps)
      PROVE  matches' \subseteq Page /\ anchor_ranges' \subseteq Range
  BY <1>3 DEF Examine, Holding
<1>4. ASSUME NEW r \in left, ReadChunk(r)
      PROVE  TypeOK'
  <2>1. Chunk(r) \subseteq Page
    BY ArePages
  <2>2. offset' \in Nat
    BY <1>4, ScanAssumption DEF ReadChunk
  <2>3. pages' \subseteq Page /\ matches' \subseteq Page /\ anchor_ranges' \subseteq Range
    BY <1>3, <1>4, <2>1 DEF ReadChunk
  <2> QED
    BY <1>4, <2>2, <2>3 DEF ReadChunk
<1>5. ASSUME NEW r \in left, NEW p \in pages, ReadPage(r, p)
      PROVE  TypeOK'
  <2>1. {p} \subseteq Page
    OBVIOUS
  <2>2. matches' \subseteq Page /\ anchor_ranges' \subseteq Range
    BY <1>3, <1>5, <2>1 DEF ReadPage
  <2> QED
    BY <1>5, <2>2 DEF ReadPage
<1>6. ASSUME NEW p \in matches, Take(p)
      PROVE  TypeOK'
  BY <1>6 DEF Take
<1>7. ASSUME NEW p \in matches, Reject(p)
      PROVE  TypeOK'
  BY <1>7 DEF Reject
<1>8. CASE Finish
  BY <1>8 DEF Finish
<1> QED
  BY <1>1, <1>2, <1>4, <1>5, <1>6, <1>7, <1>8 DEF Step

LEMMA InitType == Init => TypeOK
<1> SUFFICES ASSUME Init
             PROVE  TypeOK
  OBVIOUS
<1>1. word \in [Page -> Word]
  BY DEF Init, Word
<1>2. /\ mapped \subseteq Range
      /\ open \subseteq UNION {PagesOf(r) : r \in mapped}
  BY DEF Init
<1> QED
  BY <1>1, <1>2 DEF Init, TypeOK

LEMMA NextType == TypeOK /\ [Next]_vars => TypeOK'
<1>1. TypeOK /\ UNCHANGED vars => TypeOK'
  BY DEF vars, gameVars, readVars, resultVars, TypeOK
<1> QED
  BY <1>1, GameType, StepType DEF Next

\* The variables keep their types: what is open is mapped, what is left to read
\* was listed, and everything the scan names is a page of a range.
THEOREM ScanTypeCorrect == Spec => []TypeOK
BY InitType, NextType, PTL DEF Spec

(***************************************************************************)
(* The promise.  Nothing in "an empty answer that is conclusive hides      *)
(* nothing" says why: an instance that lasted is, until the scan ends,     *)
(* either accounted for or still ahead of the place the scan has reached.  *)
(***************************************************************************)
\* Words are only in mapped memory, and what lasted is an instance.
Placed ==
  /\ \A p \in Page : word[p] # "none" => \E r \in mapped : p \in PagesOf(r)
  /\ lasting \subseteq Instances

\* The ranges that are listed hold all that has lasted since.
Listed ==
  pc # "Idle" /\ ranges # {} =>
    \A p \in lasting : \E r \in ranges : p \in PagesOf(r)

\* Pages of the ranges that are left, from the place in the next one on.
Ahead(p) ==
  \E r \in left : p \in PagesOf(r) /\ (IsNext(r, left) => Base[r] + offset <= p)

Met(p) == p \in found \cup rejected \cup unreadable \cup matches \cup pages

Accounted ==
  pc = "Sweep" /\ ~stopped =>
    \A p \in lasting : (\E r \in ranges : p \in PagesOf(r)) => Met(p) \/ Ahead(p)

\* A scan that the limit stopped has found something and looks at nothing more.
StoppedWithSome ==
  pc = "Sweep" /\ stopped => found # {} /\ matches = {} /\ pages = {}

Inv == TypeOK /\ Placed /\ Listed /\ Accounted /\ StoppedWithSome

LEMMA InitInv == Init => Inv
BY InitType DEF Init, Inv, Placed, Listed, Accounted, StoppedWithSome

\* What the game does takes from what lasted exactly what is no instance now.
LEMMA GameKeeps ==
  ASSUME TypeOK, Placed, GameNext
  PROVE  /\ Placed'
         /\ lasting' = lasting \cap Instances'
         /\ UNCHANGED <<pc, readVars, matches, resultVars, stopped>>
<1>1. ASSUME NEW p \in Page, NEW from, NEW to, Write(p, from, to),
             "instance" \notin from \/ to # "instance"
      PROVE  /\ Placed'
             /\ lasting' = lasting \cap Instances'
             /\ UNCHANGED <<pc, readVars, matches, resultVars, stopped>>
  <2>1. \A q \in Page : word'[q] = IF q = p THEN to ELSE word[q]
    BY <1>1 DEF Write, TypeOK
  <2>2. lasting' = lasting \ {p} /\ p \in open /\ word[p] \in from /\ mapped' = mapped
    BY <1>1 DEF Write, Forget
  <2>3. p \in lasting => word[p] = "instance"
    BY DEF Placed, Instances
  <2>4. lasting' = lasting \cap Instances'
    BY <1>1, <2>1, <2>2, <2>3 DEF Instances, Placed
  <2>5. \E r \in mapped : p \in PagesOf(r)
    BY <2>2 DEF TypeOK
  <2>6. Placed'
    BY <2>1, <2>2, <2>4, <2>5 DEF Placed
  <2> QED
    BY <1>1, <2>4, <2>6 DEF Write, Forget
<1>2. ASSUME NEW p \in Page, Build(p) \/ Inject(p) \/ Collect(p)
      PROVE  /\ Placed'
             /\ lasting' = lasting \cap Instances'
             /\ UNCHANGED <<pc, readVars, matches, resultVars, stopped>>
  BY <1>1, <1>2 DEF Build, Inject, Collect
<1>3. ASSUME NEW p \in Page, Shut(p) \/ Reopen(p)
      PROVE  /\ Placed'
             /\ lasting' = lasting \cap Instances'
             /\ UNCHANGED <<pc, readVars, matches, resultVars, stopped>>
  BY <1>3 DEF Shut, Reopen, Forget, Placed, Instances
<1>4. ASSUME NEW r \in Range, Map(r)
      PROVE  /\ Placed'
             /\ lasting' = lasting \cap Instances'
             /\ UNCHANGED <<pc, readVars, matches, resultVars, stopped>>
  BY <1>4 DEF Map, Forget, Placed, Instances
<1>5. ASSUME NEW r \in Range, Unmap(r)
      PROVE  /\ Placed'
             /\ lasting' = lasting \cap Instances'
             /\ UNCHANGED <<pc, readVars, matches, resultVars, stopped>>
  <2>1. \A p \in Page : word'[p] = IF p \in PagesOf(r) THEN "none" ELSE word[p]
    BY <1>5 DEF Unmap
  <2>2. lasting' = lasting \ PagesOf(r) /\ mapped' = mapped \ {r}
    BY <1>5 DEF Unmap, Forget
  <2>3. lasting' = lasting \cap Instances'
    BY <2>1, <2>2 DEF Instances, Placed
  <2>4. \A p \in Page : word'[p] # "none" => \E s \in mapped' : p \in PagesOf(s)
    BY <2>1, <2>2 DEF Placed
  <2> QED
    BY <1>5, <2>3, <2>4 DEF Unmap, Forget, Placed
<1> QED
  BY <1>2, <1>3, <1>4, <1>5 DEF GameNext

LEMMA GameInv == Inv /\ GameNext => Inv'
<1> SUFFICES ASSUME Inv, GameNext
             PROVE  Inv'
  OBVIOUS
<1>1. /\ TypeOK' /\ Placed'
      /\ lasting' \subseteq lasting
      /\ UNCHANGED <<pc, readVars, matches, resultVars, stopped>>
  BY GameType, GameKeeps DEF Inv
<1>2. Listed'
  BY <1>1 DEF Inv, Listed, readVars
<1>3. Accounted'
  BY <1>1 DEF Inv, Accounted, Met, Ahead, IsNext, readVars, resultVars
<1>4. StoppedWithSome'
  BY <1>1 DEF Inv, StoppedWithSome, readVars, resultVars
<1> QED
  BY <1>1, <1>2, <1>3, <1>4 DEF Inv

LEMMA NewInv == Inv /\ New => Inv'
<1> SUFFICES ASSUME Inv, New
             PROVE  Inv'
  OBVIOUS
<1>1. TypeOK'
  BY StepType DEF Inv
<1>2. Placed'
  BY DEF New, gameVars, Inv, Placed, Instances
<1>3. \A p \in lasting' : \E r \in mapped : p \in PagesOf(r)
  BY DEF New, Inv, Placed, Instances
<1>4. Listed'
  BY <1>3 DEF New, Listed
<1>5. Accounted'
  <2> SUFFICES ASSUME NEW p \in lasting', NEW r \in ranges', p \in PagesOf(r)
               PROVE  Ahead(p)'
    BY DEF Accounted
  <2>1. left' = ranges' /\ offset' = 0
    BY DEF New
  <2>2. r \in Range
    BY <1>1 DEF TypeOK
  <2>3. Base[r] + 0 <= p
    BY <2>2, ScanAssumption DEF PagesOf
  <2> QED
    BY <2>1, <2>3 DEF Ahead
<1>6. StoppedWithSome'
  BY DEF New, StoppedWithSome
<1> QED
  BY <1>1, <1>2, <1>4, <1>5, <1>6 DEF Inv

LEMMA NextRangeInv ==
  ASSUME Inv, NEW r \in left, NextRange(r)
  PROVE  Accounted'
<1> SUFFICES ASSUME NEW p \in lasting, ~ Met(p), NEW s \in ranges, p \in PagesOf(s)
             PROVE  Ahead(p)'
  BY DEF Accounted, NextRange, Met, resultVars
<1>1. PICK q \in left : p \in PagesOf(q) /\ (IsNext(q, left) => Base[q] + offset <= p)
  BY DEF Inv, Accounted, Ahead, NextRange, ReadyToRead
<1>2. q \in Range /\ r \in Range /\ p \in Int /\ offset \in Nat /\ Base[q] \in Nat /\ Size[q] \in Nat
  BY <1>1, ScanAssumption DEF Inv, TypeOK, PagesOf
<1>3. q # r
  BY <1>1, <1>2 DEF NextRange, PagesOf
<1>4. q \in left' /\ offset' = 0
  BY <1>1, <1>3 DEF NextRange
<1>5. Base[q] + 0 <= p
  BY <1>1, <1>2 DEF PagesOf
<1> QED
  BY <1>1, <1>4, <1>5 DEF Ahead

LEMMA ReadChunkInv ==
  ASSUME Inv, NEW r \in left, ReadChunk(r)
  PROVE  Accounted'
<1> SUFFICES ASSUME NEW p \in lasting, ~ (Met(p)'), NEW s \in ranges, p \in PagesOf(s)
             PROVE  Ahead(p)'
  BY DEF Accounted, ReadChunk
<1>1. p \notin found \cup rejected \cup unreadable /\ matches = {} /\ pages = {}
  BY DEF ReadChunk, ReadyToRead, Met
<1>2. PICK q \in left : p \in PagesOf(q) /\ (IsNext(q, left) => Base[q] + offset <= p)
  BY <1>1 DEF Inv, Accounted, Ahead, Met, ReadChunk, ReadyToRead
<1>3. q \in Range /\ p \in Int /\ offset \in Nat /\ Base[q] \in Nat /\ CHUNK \in Nat
  BY <1>2, ScanAssumption DEF Inv, TypeOK, PagesOf
<1>4. word[p] = "instance"
  BY DEF Inv, Placed, Instances
<1>5. p \notin Chunk(r)
  <2>1. CASE Chunk(r) \subseteq open
    BY <1>4, <2>1 DEF ReadChunk, Examine, Holding, Met
  <2>2. CASE ~ (Chunk(r) \subseteq open)
    BY <2>2 DEF ReadChunk, Met
  <2> QED
    BY <2>1, <2>2
<1>6. left' = left /\ offset' = offset + CHUNK
  BY DEF ReadChunk
<1>7. ASSUME IsNext(q, left)
      PROVE  Base[q] + offset + CHUNK <= p
  <2>1. q = r
    BY <1>7, OneIsNext DEF ReadChunk, Inv, TypeOK
  <2> QED
    BY <1>2, <1>3, <1>5, <1>7, <2>1 DEF Chunk
<1>8. ASSUME IsNext(q, left)
      PROVE  Base[q] + offset' <= p
  BY <1>3, <1>6, <1>7, <1>8
<1> QED
  BY <1>2, <1>6, <1>8 DEF Ahead

LEMMA ReadPageInv ==
  ASSUME Inv, NEW r \in left, NEW p \in pages, ReadPage(r, p)
  PROVE  Accounted'
<1> SUFFICES ASSUME NEW q \in lasting, NEW s \in ranges, q \in PagesOf(s), ~ stopped
             PROVE  Met(q)' \/ Ahead(q)'
  BY DEF Accounted, ReadPage
<1>1. Met(q) \/ Ahead(q)
  BY DEF Inv, Accounted, ReadPage
<1>2. Ahead(q) => Ahead(q)'
  BY DEF Ahead, ReadPage
<1>3. word[q] = "instance"
  BY DEF Inv, Placed, Instances
<1>4. ASSUME Met(q)
      PROVE  Met(q)'
  <2>1. CASE q = p
    <3>1. CASE p \in open
      BY <1>3, <2>1, <3>1 DEF ReadPage, Examine, Holding, Met
    <3>2. CASE p \notin open
      BY <2>1, <3>2 DEF ReadPage, Met
    <3> QED
      BY <3>1, <3>2
  <2>2. CASE q # p
    <3>1. q \in found \cup rejected \cup unreadable \cup pages
      BY <1>4 DEF Met, ReadPage
    <3>2. /\ found' = found /\ rejected' = rejected
          /\ unreadable \subseteq unreadable' /\ pages' = pages \ {p}
      BY DEF ReadPage
    <3> QED
      BY <2>2, <3>1, <3>2 DEF Met
  <2> QED
    BY <2>1, <2>2
<1> QED
  BY <1>1, <1>2, <1>4

LEMMA StepInv == Inv /\ Step => Inv'
<1> SUFFICES ASSUME Inv, Step
             PROVE  Inv'
  OBVIOUS
<1>1. TypeOK' /\ pc = "Sweep"
  BY StepType DEF Inv, Step, NextRange, ReadChunk, ReadyToRead, ReadPage, Take, Reject, Finish
<1>2. UNCHANGED <<gameVars, ranges, lasting>>
  BY DEF Step, NextRange, ReadChunk, ReadPage, Take, Reject, Finish, readVars
<1>3. Placed' /\ Listed'
  BY <1>1, <1>2 DEF Inv, Placed, Listed, Instances, gameVars
<1>4. Accounted'
  <2>1. ASSUME NEW r \in left, NextRange(r)
        PROVE  Accounted'
    BY <2>1, NextRangeInv
  <2>2. ASSUME NEW r \in left, ReadChunk(r)
        PROVE  Accounted'
    BY <2>2, ReadChunkInv
  <2>3. ASSUME NEW r \in left, NEW p \in pages, ReadPage(r, p)
        PROVE  Accounted'
    BY <2>3, ReadPageInv
  <2>4. ASSUME NEW p \in matches, Take(p)
        PROVE  Accounted'
    <3> SUFFICES ASSUME ~ stopped', NEW q \in lasting, NEW r \in ranges, q \in PagesOf(r)
                 PROVE  Met(q)' \/ Ahead(q)'
      BY <2>4 DEF Accounted, Take
    <3>1. ~ stopped
      BY <2>4 DEF Inv, StoppedWithSome, Take
    <3>2. Met(q) \/ Ahead(q)
      BY <2>4, <3>1 DEF Inv, Accounted, Take
    <3>3. /\ found' = found \cup {p} /\ matches' = matches \ {p} /\ pages' = pages
          /\ UNCHANGED <<left, offset, rejected, unreadable>>
      BY <2>4 DEF Take
    <3> QED
      BY <3>2, <3>3 DEF Met, Ahead, IsNext
  <2>5. ASSUME NEW p \in matches, Reject(p)
        PROVE  Accounted'
    BY <2>5 DEF Inv, Accounted, Reject, Met, Ahead, readVars
  <2>6. CASE Finish
    BY <2>6 DEF Finish, Accounted
  <2> QED
    BY <2>1, <2>2, <2>3, <2>4, <2>5, <2>6 DEF Step
<1>5. StoppedWithSome'
  <2>1. ASSUME NEW p \in matches, Take(p)
        PROVE  StoppedWithSome'
    BY <2>1 DEF Take, StoppedWithSome
  <2>2. ASSUME NEW r \in left, NEW p \in pages, ReadPage(r, p)
        PROVE  StoppedWithSome'
    BY <1>1, <2>2 DEF Inv, StoppedWithSome, ReadPage
  <2>3. ASSUME NEW p \in matches, Reject(p)
        PROVE  StoppedWithSome'
    BY <1>1, <2>3 DEF Inv, StoppedWithSome, Reject
  <2> QED
    BY <1>1, <2>1, <2>2, <2>3 DEF Inv, Step, NextRange, ReadChunk, ReadyToRead, Finish, StoppedWithSome,
                                  resultVars, readVars
<1> QED
  BY <1>1, <1>3, <1>4, <1>5 DEF Inv

THEOREM ScanInvariance == Spec => []Inv
<1>1. Inv /\ UNCHANGED vars => Inv'
  BY NextType DEF vars, gameVars, readVars, resultVars, Inv, Placed, Listed, Accounted,
                  StoppedWithSome, Met, Ahead, IsNext, Instances
<1>2. Inv /\ [Next]_vars => Inv'
  BY <1>1, GameInv, NewInv, StepInv DEF Next
<1> QED
  BY InitInv, <1>2, PTL DEF Spec

(***************************************************************************)
(* What was steady is found.  Nothing was read of a page between its       *)
(* listing and its turn, so the argument is about the place: a page that   *)
(* stayed as it was is seen, is still to be tried or lies ahead; and what  *)
(* is still to be tried belongs to the range whose turn it is, so that a   *)
(* pointer is noticed for the range that holds it.                         *)
(***************************************************************************)
\* What is steady can be read, and is a word.
SteadyPlaced == \A p \in steady : p \in open /\ word[p] # "none"

SteadyListed ==
  pc # "Idle" /\ ranges # {} =>
    \A p \in steady : \E r \in ranges : p \in PagesOf(r)

\* The pages that are tried one by one are of the range that is next.
PagesOfNext == \A r \in left : IsNext(r, left) => pages \subseteq PagesOf(r)

Noticed(p) ==
  /\ word[p] = "instance" => p \in found \cup matches
  /\ word[p] = "pointer"  => \E r \in anchor_ranges : p \in PagesOf(r)

SteadyAccounted ==
  pc = "Sweep" /\ ~stopped =>
    \A p \in steady :
      (\E r \in ranges : p \in PagesOf(r)) => Noticed(p) \/ p \in pages \/ Ahead(p)

SteadyInv ==
  /\ SteadyPlaced /\ SteadyListed /\ PagesOfNext /\ SteadyAccounted
  /\ SteadyIsFound

LEMMA InitSteady == Init => SteadyInv
BY DEF Init, SteadyInv, SteadyPlaced, SteadyListed, PagesOfNext, SteadyAccounted,
       SteadyIsFound

\* The game forgets of what is steady every page it touches.
LEMMA GameKeepsSteady ==
  ASSUME TypeOK, SteadyPlaced, GameNext
  PROVE  /\ SteadyPlaced'
         /\ steady' \subseteq steady
         /\ \A p \in steady' : word'[p] = word[p]
         /\ UNCHANGED <<pc, readVars, matches, resultVars, stopped>>
<1> USE DEF Forget, SteadyPlaced
<1> steady \subseteq Page
  BY DEF TypeOK
<1>1. ASSUME NEW p \in Page, NEW from, NEW to, Write(p, from, to)
      PROVE  /\ SteadyPlaced'
             /\ steady' \subseteq steady
             /\ \A q \in steady' : word'[q] = word[q]
             /\ UNCHANGED <<pc, readVars, matches, resultVars, stopped>>
  BY <1>1 DEF Write, TypeOK
<1>2. ASSUME NEW p \in Page, Build(p) \/ Inject(p) \/ Collect(p)
      PROVE  /\ SteadyPlaced'
             /\ steady' \subseteq steady
             /\ \A q \in steady' : word'[q] = word[q]
             /\ UNCHANGED <<pc, readVars, matches, resultVars, stopped>>
  BY <1>1, <1>2 DEF Build, Inject, Collect
<1>3. ASSUME NEW p \in Page, Shut(p) \/ Reopen(p)
      PROVE  /\ SteadyPlaced'
             /\ steady' \subseteq steady
             /\ \A q \in steady' : word'[q] = word[q]
             /\ UNCHANGED <<pc, readVars, matches, resultVars, stopped>>
  BY <1>3 DEF Shut, Reopen
<1>4. ASSUME NEW r \in Range, Map(r) \/ Unmap(r)
      PROVE  /\ SteadyPlaced'
             /\ steady' \subseteq steady
             /\ \A q \in steady' : word'[q] = word[q]
             /\ UNCHANGED <<pc, readVars, matches, resultVars, stopped>>
  BY <1>4 DEF Map, Unmap
<1> QED
  BY <1>2, <1>3, <1>4 DEF GameNext

LEMMA GameSteady == TypeOK /\ SteadyInv /\ pc # "Done" /\ GameNext => SteadyInv'
<1> SUFFICES ASSUME TypeOK, SteadyInv, pc # "Done", GameNext
             PROVE  SteadyInv'
  OBVIOUS
<1>1. /\ SteadyPlaced'
      /\ steady' \subseteq steady
      /\ \A p \in steady' : word'[p] = word[p]
      /\ UNCHANGED <<pc, readVars, matches, resultVars, stopped>>
  BY GameKeepsSteady DEF SteadyInv
<1>2. SteadyListed' /\ PagesOfNext'
  BY <1>1 DEF SteadyInv, SteadyListed, PagesOfNext, IsNext, readVars
<1>3. SteadyAccounted'
  BY <1>1 DEF SteadyInv, SteadyAccounted, Noticed, Ahead, IsNext, readVars, resultVars
<1>4. SteadyIsFound'
  BY <1>1 DEF SteadyIsFound
<1> QED
  BY <1>1, <1>2, <1>3, <1>4 DEF SteadyInv

LEMMA NewSteady == TypeOK /\ SteadyInv /\ New => SteadyInv'
<1> SUFFICES ASSUME TypeOK, SteadyInv, New
             PROVE  SteadyInv'
  OBVIOUS
<1>1. TypeOK'
  BY StepType
<1>2. SteadyPlaced'
  BY DEF New, gameVars, SteadyPlaced
<1>3. \A p \in steady' : \E r \in mapped : p \in PagesOf(r)
  BY DEF New, TypeOK
<1>4. SteadyListed'
  BY <1>3 DEF New, SteadyListed
<1>5. PagesOfNext'
  BY DEF New, PagesOfNext
<1>6. SteadyAccounted'
  <2> SUFFICES ASSUME NEW p \in steady', NEW r \in ranges', p \in PagesOf(r)
               PROVE  Ahead(p)'
    BY DEF SteadyAccounted
  <2>1. left' = ranges' /\ offset' = 0
    BY DEF New
  <2>2. r \in Range
    BY <1>1 DEF TypeOK
  <2>3. Base[r] + 0 <= p
    BY <2>2, ScanAssumption DEF PagesOf
  <2> QED
    BY <2>1, <2>3 DEF Ahead
<1>7. SteadyIsFound'
  BY DEF New, SteadyIsFound
<1> QED
  BY <1>2, <1>4, <1>5, <1>6, <1>7 DEF SteadyInv

LEMMA NextRangeSteady ==
  ASSUME TypeOK, SteadyInv, NEW r \in left, NextRange(r)
  PROVE  SteadyAccounted'
<1> SUFFICES ASSUME NEW p \in steady, ~ Noticed(p), NEW s \in ranges, p \in PagesOf(s)
             PROVE  Ahead(p)'
  BY DEF SteadyAccounted, NextRange, Noticed, resultVars, gameVars
<1>1. PICK q \in left : p \in PagesOf(q) /\ (IsNext(q, left) => Base[q] + offset <= p)
  BY DEF SteadyInv, SteadyAccounted, Ahead, NextRange, ReadyToRead
<1>2. q \in Range /\ r \in Range /\ p \in Int /\ offset \in Nat /\ Base[q] \in Nat /\ Size[q] \in Nat
  BY <1>1, ScanAssumption DEF TypeOK, PagesOf
<1>3. q # r
  BY <1>1, <1>2 DEF NextRange, PagesOf
<1>4. q \in left' /\ offset' = 0
  BY <1>1, <1>3 DEF NextRange
<1>5. Base[q] + 0 <= p
  BY <1>1, <1>2 DEF PagesOf
<1> QED
  BY <1>1, <1>4, <1>5 DEF Ahead

LEMMA ReadChunkSteady ==
  ASSUME TypeOK, SteadyInv, NEW r \in left, ReadChunk(r)
  PROVE  SteadyAccounted' /\ PagesOfNext'
<1>1. SteadyAccounted'
  <2> SUFFICES ASSUME NEW p \in steady, ~ (Noticed(p)'), p \notin pages',
                      NEW s \in ranges, p \in PagesOf(s)
               PROVE  Ahead(p)'
    BY DEF SteadyAccounted, ReadChunk
  <2>1. matches = {} /\ pages = {}
    BY DEF ReadChunk, ReadyToRead
  <2>2. anchor_ranges \subseteq anchor_ranges'
    BY DEF ReadChunk, Examine
  <2>3. ~ Noticed(p)
    BY <2>1, <2>2 DEF Noticed, ReadChunk, gameVars
  <2>4. PICK q \in left : p \in PagesOf(q) /\ (IsNext(q, left) => Base[q] + offset <= p)
    BY <2>1, <2>3 DEF SteadyInv, SteadyAccounted, Ahead, ReadChunk, ReadyToRead
  <2>5. q \in Range /\ r \in Range /\ p \in Int /\ offset \in Nat /\ Base[q] \in Nat /\ CHUNK \in Nat
    BY <2>4, ScanAssumption DEF TypeOK, PagesOf
  <2>6. p \notin Chunk(r)
    <3>1. CASE Chunk(r) \subseteq open
      <4> SUFFICES ASSUME p \in Chunk(r)
                   PROVE  Noticed(p)'
        OBVIOUS
      <4>1. word[p] = "instance" => p \in matches'
        BY <3>1 DEF ReadChunk, Examine, Holding
      <4>2. word[p] = "pointer" => r \in anchor_ranges'
        BY <3>1 DEF ReadChunk, Examine, Holding
      <4>3. p \in PagesOf(r)
        BY <2>5, ArePages
      <4> QED
        BY <4>1, <4>2, <4>3 DEF Noticed, ReadChunk, gameVars
    <3>2. CASE ~ (Chunk(r) \subseteq open)
      BY <3>2 DEF ReadChunk
    <3> QED
      BY <3>1, <3>2
  <2>7. left' = left /\ offset' = offset + CHUNK
    BY DEF ReadChunk
  <2>8. ASSUME IsNext(q, left)
        PROVE  Base[q] + offset + CHUNK <= p
    <3>1. q = r
      BY <2>8, OneIsNext DEF ReadChunk, TypeOK
    <3> QED
      BY <2>4, <2>5, <2>6, <2>8, <3>1 DEF Chunk
  <2>9. ASSUME IsNext(q, left)
        PROVE  Base[q] + offset' <= p
    BY <2>5, <2>7, <2>8, <2>9
  <2> QED
    BY <2>4, <2>7, <2>9 DEF Ahead
<1>2. PagesOfNext'
  <2> SUFFICES ASSUME NEW s \in left, IsNext(s, left)
               PROVE  pages' \subseteq PagesOf(s)
    BY DEF PagesOfNext, ReadChunk
  <2>1. s = r /\ r \in Range
    BY OneIsNext DEF ReadChunk, TypeOK
  <2>2. pages' \subseteq pages \cup Chunk(r) /\ pages = {}
    BY DEF ReadChunk, ReadyToRead
  <2> QED
    BY <2>1, <2>2, ArePages
<1> QED
  BY <1>1, <1>2

LEMMA ReadPageSteady ==
  ASSUME TypeOK, SteadyInv, NEW r \in left, NEW p \in pages, ReadPage(r, p)
  PROVE  SteadyAccounted'
<1> SUFFICES ASSUME NEW q \in steady, NEW s \in ranges, q \in PagesOf(s), ~ stopped
             PROVE  Noticed(q)' \/ q \in pages' \/ Ahead(q)'
  BY DEF SteadyAccounted, ReadPage
<1>1. Noticed(q) \/ q \in pages \/ Ahead(q)
  BY DEF SteadyInv, SteadyAccounted, ReadPage
<1>2. Ahead(q) => Ahead(q)'
  BY DEF Ahead, ReadPage
<1>3. /\ matches = {} /\ pages' = pages \ {p}
      /\ anchor_ranges \subseteq anchor_ranges'
      /\ UNCHANGED <<word, found>>
  BY DEF ReadPage, Examine, gameVars
<1>4. Noticed(q) => Noticed(q)'
  BY <1>3 DEF Noticed
<1>5. ASSUME q = p
      PROVE  Noticed(q)'
  <2>1. q \in open /\ q \in PagesOf(r)
    BY <1>5 DEF SteadyInv, SteadyPlaced, PagesOfNext, ReadPage
  <2>2. Examine(r, {q})
    BY <1>5, <2>1 DEF ReadPage
  <2>3. word[q] = "instance" => q \in matches'
    BY <2>2 DEF Examine, Holding
  <2>4. word[q] = "pointer" => r \in anchor_ranges'
    BY <2>2 DEF Examine, Holding
  <2> QED
    BY <1>3, <2>1, <2>3, <2>4 DEF Noticed
<1> QED
  BY <1>1, <1>2, <1>3, <1>4, <1>5

LEMMA StepSteady == Inv /\ SteadyInv /\ Step => SteadyInv'
<1> SUFFICES ASSUME Inv, SteadyInv, Step
             PROVE  SteadyInv'
  OBVIOUS
<1> TypeOK
  BY DEF Inv
<1>1. pc = "Sweep" /\ UNCHANGED <<mapped, open, word, ranges, steady>>
  BY DEF Step, NextRange, ReadChunk, ReadyToRead, ReadPage, Take, Reject, Finish, gameVars,
         readVars
<1>2. SteadyPlaced' /\ SteadyListed'
  BY <1>1 DEF SteadyInv, SteadyPlaced, SteadyListed, Step, NextRange, ReadChunk, ReadPage,
              Take, Reject, Finish
<1>3. PagesOfNext' /\ SteadyAccounted'
  <2>1. ASSUME NEW r \in left, NextRange(r)
        PROVE  PagesOfNext' /\ SteadyAccounted'
    BY <2>1, NextRangeSteady DEF NextRange, ReadyToRead, PagesOfNext
  <2>2. ASSUME NEW r \in left, ReadChunk(r)
        PROVE  PagesOfNext' /\ SteadyAccounted'
    BY <2>2, ReadChunkSteady
  <2>3. ASSUME NEW r \in left, NEW p \in pages, ReadPage(r, p)
        PROVE  PagesOfNext' /\ SteadyAccounted'
    BY <2>3, ReadPageSteady DEF ReadPage, PagesOfNext, SteadyInv
  <2>4. ASSUME NEW p \in matches, Take(p)
        PROVE  PagesOfNext' /\ SteadyAccounted'
    <3>1. /\ left' = left /\ offset' = offset /\ pages' \subseteq pages
          /\ anchor_ranges' = anchor_ranges
          /\ found' = found \cup {p} /\ stopped' \in BOOLEAN
          /\ ~ stopped' => matches' = matches \ {p} /\ pages' = pages
      BY <2>4 DEF Take
    <3>2. PagesOfNext'
      BY <3>1 DEF SteadyInv, PagesOfNext
    <3>3. ASSUME ~ stopped', NEW q \in steady, NEW r \in ranges, q \in PagesOf(r)
          PROVE  Noticed(q)' \/ q \in pages' \/ Ahead(q)'
      <4>1. Noticed(q) => Noticed(q)'
        BY <1>1, <3>1, <3>3 DEF Noticed
      <4>2. Ahead(q) => Ahead(q)'
        BY <3>1 DEF Ahead
      <4>3. ~ stopped
        BY <2>4 DEF Inv, StoppedWithSome, Take
      <4> QED
        BY <1>1, <3>1, <3>3, <4>1, <4>2, <4>3 DEF SteadyInv, SteadyAccounted
    <3>4. SteadyAccounted'
      BY <1>1, <3>3 DEF SteadyAccounted
    <3> QED
      BY <3>2, <3>4
  <2>5. ASSUME NEW p \in matches, Reject(p)
        PROVE  PagesOfNext' /\ SteadyAccounted'
    <3>1. /\ left' = left /\ offset' = offset /\ pages' = pages /\ stopped' = stopped
          /\ anchor_ranges' = anchor_ranges /\ found' = found
          /\ matches' = matches \ {p}
      BY <2>5 DEF Reject, readVars
    <3>2. PagesOfNext'
      BY <3>1 DEF SteadyInv, PagesOfNext
    <3>3. ASSUME NEW q \in steady, Noticed(q)
          PROVE  Noticed(q)'
      <4>1. q = p => word[q] # "instance"
        BY <2>5 DEF SteadyInv, SteadyPlaced, Reject, Accepts
      <4> QED
        BY <1>1, <3>1, <3>3, <4>1 DEF Noticed
    <3>4. \A q \in steady : Ahead(q) => Ahead(q)'
      BY <3>1 DEF Ahead
    <3> QED
      BY <1>1, <3>1, <3>2, <3>3, <3>4 DEF SteadyInv, SteadyAccounted
  <2>6. CASE Finish
    BY <2>6 DEF Finish, SteadyInv, SteadyAccounted, PagesOfNext, readVars
  <2> QED
    BY <2>1, <2>2, <2>3, <2>4, <2>5, <2>6 DEF Step
<1>4. SteadyIsFound'
  <2>1. CASE Finish
    <3> SUFFICES ASSUME ~ stopped, ranges # {}, NEW p \in steady
                 PROVE  Noticed(p) /\ matches = {} /\ UNCHANGED <<found, anchor_ranges>>
      BY <1>1, <2>1 DEF SteadyIsFound, Finish, Noticed, resultVars
    <3>1. left = {} /\ pages = {} /\ matches = {}
      BY <2>1 DEF Finish, ReadyToRead
    <3>2. Noticed(p) \/ p \in pages \/ Ahead(p)
      BY <1>1 DEF SteadyInv, SteadyAccounted, SteadyListed
    <3>3. ~ Ahead(p)
      BY <3>1 DEF Ahead
    <3> QED
      BY <2>1, <3>1, <3>2, <3>3 DEF Finish, resultVars
  <2>2. CASE ~ Finish
    BY <1>1, <2>2 DEF Step, NextRange, ReadChunk, ReadPage, Take, Reject, SteadyIsFound
  <2> QED
    BY <2>1, <2>2
<1> QED
  BY <1>2, <1>3, <1>4 DEF SteadyInv

\* However the game maps, writes and shuts its memory while the scan goes on, a
\* scan that comes to its end has found every instance, and noticed every
\* pointer to the anchor, that it could have read at any time.
THEOREM ScanFindsWhatIsSteady == Spec => []SteadyIsFound
<1>1. SteadyInv /\ UNCHANGED vars => SteadyInv'
  BY DEF vars, gameVars, readVars, resultVars, SteadyInv, SteadyPlaced, SteadyListed,
         PagesOfNext, SteadyAccounted, SteadyIsFound, Noticed, Ahead, IsNext
<1>2. Inv /\ SteadyInv /\ [Next]_vars => SteadyInv'
  BY <1>1, GameSteady, NewSteady, StepSteady DEF Next, Inv
<1>3. SteadyInv => SteadyIsFound
  BY DEF SteadyInv
<1> QED
  BY InitSteady, ScanInvariance, <1>2, <1>3, PTL DEF Spec

(***************************************************************************)
(* The refinement.                                                         *)
(***************************************************************************)
LEMMA InitPromised == Init => Promise!Init
BY DEF Init, Promise!Init, Instances

\* What the game does is a change; what the scan reads and looks past is nothing
\* to the search; an instance taken is visible, and one rejected is not.
LEMMA GamePromised ==
  ASSUME Inv, GameNext
  PROVE  Promise!Change
<1>1. /\ lasting' = lasting \cap Instances'
      /\ UNCHANGED <<pc, readVars, matches, resultVars, stopped>>
  BY GameKeeps DEF Inv
<1>2. Instances' \subseteq Page
  BY DEF Instances
<1> QED
  BY <1>1, <1>2 DEF Promise!Change, Promise!asked, readVars, resultVars, is_conclusive

LEMMA NewPromised ==
  ASSUME Inv, New
  PROVE  Promise!Ask
BY DEF New, Promise!Ask, gameVars, Instances

LEMMA TakePromised ==
  ASSUME Inv, NEW p \in matches, Take(p)
  PROVE  Promise!Take
<1>1. p \in Instances \cap open
  BY DEF Inv, TypeOK, Take, Accepts, Instances
<1> QED
  BY <1>1 DEF Take, Promise!Take, gameVars, Instances

LEMMA RejectPromised ==
  ASSUME Inv, NEW p \in matches, Reject(p)
  PROVE  Promise!Refuse
<1>1. p \in Page \ (Instances \cap open)
  BY DEF Inv, TypeOK, Reject, Accepts, Instances
<1> QED
  BY <1>1 DEF Reject, Promise!Refuse, gameVars, Instances

\* An end without the limit leaves nothing ahead: what lasted was met, and with
\* nothing found and nothing unreadable it was rejected.
LEMMA FinishPromised ==
  ASSUME Inv, Finish
  PROVE  Promise!Answer
<1>1. ASSUME found = {}, is_conclusive
      PROVE  lasting \subseteq rejected
  <2>1. ~ stopped
    BY <1>1 DEF Inv, StoppedWithSome, Finish
  <2>2. left = {} /\ pages = {} /\ matches = {}
    BY <2>1 DEF Finish, ReadyToRead
  <2>3. ASSUME NEW p \in lasting
        PROVE  p \in rejected
    <3>1. \E r \in ranges : p \in PagesOf(r)
      BY <1>1, <2>3 DEF Inv, Listed, is_conclusive, Finish
    <3>2. Met(p) \/ Ahead(p)
      BY <2>1, <2>3, <3>1 DEF Inv, Accounted, Finish
    <3> QED
      BY <1>1, <2>2, <3>2 DEF Met, Ahead, is_conclusive
  <2> QED
    BY <2>3
<1>2. /\ pc = "Sweep" /\ pc' = "Done"
      /\ UNCHANGED <<mapped, open, word, found, rejected, unreadable, lasting, ranges>>
  BY DEF Finish, gameVars, resultVars, readVars
<1>3. is_conclusive' = is_conclusive /\ is_conclusive \in BOOLEAN
  BY <1>2 DEF is_conclusive
<1> QED
  BY <1>1, <1>2, <1>3 DEF Promise!Answer, Instances

LEMMA ReadingPromised ==
  ASSUME Inv, NEW r \in left,
         NextRange(r) \/ ReadChunk(r) \/ \E p \in pages : ReadPage(r, p)
  PROVE  UNCHANGED Promise!vars
<1>1. pc = "Sweep" /\ UNCHANGED <<gameVars, pc, found, rejected, lasting>>
  BY DEF NextRange, ReadChunk, ReadyToRead, ReadPage, resultVars
<1> QED
  BY <1>1 DEF Promise!vars, gameVars, Instances

\* A scan keeps the promise of a search: it takes only what is there, refuses
\* only what it cannot see, and an empty answer that it calls conclusive hides
\* nothing that was there from the beginning to the end.
THEOREM ScanKeepsPromise == Spec => KeepsPromise
<1>1. Inv /\ [Next]_vars => [Promise!Next]_(Promise!vars)
  <2> SUFFICES ASSUME Inv, [Next]_vars
               PROVE  [Promise!Next]_(Promise!vars)
    OBVIOUS
  <2>1. CASE GameNext
    BY <2>1, GamePromised DEF Promise!Next
  <2>2. CASE New
    BY <2>2, NewPromised DEF Promise!Next
  <2>3. CASE Step
    BY <2>3, ReadingPromised, TakePromised, RejectPromised, FinishPromised
       DEF Step, Promise!Next
  <2>4. CASE UNCHANGED vars
    BY <2>4 DEF vars, gameVars, readVars, resultVars, Promise!vars, Instances, is_conclusive
  <2> QED
    BY <2>1, <2>2, <2>3, <2>4 DEF Next
<1> QED
  BY <1>1, InitPromised, ScanInvariance, PTL DEF Spec, KeepsPromise, Promise!Spec
=============================================================================
