-------------------------- MODULE Buildings_proofs --------------------------
(***************************************************************************)
(* What holds of Buildings for any addresses, kinds and chunks: types,     *)
(* that no trigger fires twice, that every split is for a building that    *)
(* was finished, and, where nothing is removed, that nothing slips under   *)
(* the mark unseen.                                                        *)
(***************************************************************************)
EXTENDS Buildings, FiniteSetTheorems, SequenceTheorems, TLAPS

\* Some order of a finite set has its elements, as many as there are.
LEMMA OrderOfAddr ==
  /\ Cardinality(Addr) \in Nat
  /\ SetToSeq(Addr) \in [1 .. Cardinality(Addr) -> Addr]
<1>1. Cardinality(Addr) \in Nat /\ ExistsBijection(1 .. Cardinality(Addr), Addr)
  BY BuildingsAssumption, FS_CardinalityType
<1>2. PICK f \in [1 .. Cardinality(Addr) -> Addr] : IsInjective(f)
  BY <1>1 DEF ExistsBijection, Bijection, Injection
<1> QED
  BY <1>1, <1>2 DEF SetToSeq

\* RemoveAt takes one entry out; what follows it slides down.
LEMMA Removed ==
  ASSUME NEW l \in Seq(Addr), NEW i \in DOMAIN l
  PROVE  /\ RemoveAt(l, i) \in Seq(Addr)
         /\ Len(RemoveAt(l, i)) = Len(l) - 1
         /\ \A j \in 1 .. Len(l) - 1 : RemoveAt(l, i)[j] = IF j < i THEN l[j] ELSE l[j + 1]
<1> DEFINE s == SubSeq(l, 1, i - 1)
           r == SubSeq(l, i + 1, Len(l))
<1>1. Len(l) \in Nat /\ DOMAIN l = 1 .. Len(l) /\ i \in 1 .. Len(l)
  OBVIOUS
<1>2. /\ s \in Seq(Addr) /\ Len(s) = i - 1
      /\ \A j \in 1 .. i - 1 : s[j] = l[j]
  BY <1>1
<1>3. /\ r \in Seq(Addr) /\ Len(r) = Len(l) - i
      /\ \A j \in 1 .. Len(l) - i : r[j] = l[i + j]
  BY <1>1
<1>4. RemoveAt(l, i) = s \o r
  BY DEF RemoveAt
<1> HIDE DEF s, r
<1>5. /\ s \o r \in Seq(Addr) /\ Len(s \o r) = Len(s) + Len(r)
      /\ \A k \in 1 .. Len(s) + Len(r) :
           (s \o r)[k] = IF k <= Len(s) THEN s[k] ELSE r[k - Len(s)]
  BY <1>2, <1>3, ConcatProperties
<1>6. Len(s) + Len(r) = Len(l) - 1
  BY <1>1, <1>2, <1>3
<1>7. ASSUME NEW j \in 1 .. Len(l) - 1
      PROVE  (s \o r)[j] = IF j < i THEN l[j] ELSE l[j + 1]
  <2>1. (s \o r)[j] = IF j <= Len(s) THEN s[j] ELSE r[j - Len(s)]
    BY <1>5, <1>6
  <2>2. CASE j < i
    BY <1>1, <1>2, <2>1, <2>2
  <2>3. CASE ~ (j < i)
    <3>1. j - Len(s) = j - (i - 1) /\ ~ (j <= Len(s)) /\ j - (i - 1) \in 1 .. Len(l) - i
      BY <1>1, <1>2, <2>3
    <3>2. r[j - (i - 1)] = l[i + (j - (i - 1))] /\ i + (j - (i - 1)) = j + 1
      BY <1>1, <1>3, <3>1
    <3> QED
      BY <2>1, <2>3, <3>1, <3>2
  <2> QED
    BY <2>2, <2>3
<1> QED
  BY <1>4, <1>5, <1>6, <1>7

\* What Append and RemoveAt leave of a list.
LEMMA ListTypes ==
  ASSUME NEW l \in Seq(Addr)
  PROVE  /\ Len(l) \in Nat /\ DOMAIN l = 1 .. Len(l)
         /\ \A a \in Addr : /\ Append(l, a) \in Seq(Addr)
                            /\ Len(Append(l, a)) = Len(l) + 1
                            /\ Append(l, a)[Len(l) + 1] = a
                            /\ \A i \in 1 .. Len(l) : Append(l, a)[i] = l[i]
         /\ \A i \in DOMAIN l :
              /\ RemoveAt(l, i) \in Seq(Addr)
              /\ \A j \in DOMAIN RemoveAt(l, i) :
                   \E k \in DOMAIN l : RemoveAt(l, i)[j] = l[k]
<1>1. Len(l) \in Nat /\ DOMAIN l = 1 .. Len(l)
  OBVIOUS
<1>2. ASSUME NEW a \in Addr
      PROVE  /\ Append(l, a) \in Seq(Addr)
             /\ Len(Append(l, a)) = Len(l) + 1
             /\ Append(l, a)[Len(l) + 1] = a
             /\ \A i \in 1 .. Len(l) : Append(l, a)[i] = l[i]
  OBVIOUS
<1>3. ASSUME NEW i \in DOMAIN l
      PROVE  /\ RemoveAt(l, i) \in Seq(Addr)
             /\ \A j \in DOMAIN RemoveAt(l, i) :
                  \E k \in DOMAIN l : RemoveAt(l, i)[j] = l[k]
  <2> DEFINE m == RemoveAt(l, i)
  <2>1. /\ m \in Seq(Addr) /\ Len(m) = Len(l) - 1
        /\ \A j \in 1 .. Len(l) - 1 : m[j] = IF j < i THEN l[j] ELSE l[j + 1]
    BY Removed
  <2> HIDE DEF m
  <2>2. ASSUME NEW j \in DOMAIN m
        PROVE  \E k \in DOMAIN l : m[j] = l[k]
    <3>1. j \in 1 .. Len(l) - 1 /\ j \in DOMAIN l /\ j + 1 \in DOMAIN l
      BY <1>1, <2>1
    <3> QED
      BY <2>1, <3>1
  <2> QED
    BY <2>1, <2>2 DEF m
<1> QED
  BY <1>1, <1>2, <1>3

(***************************************************************************)
(* Types.                                                                  *)
(***************************************************************************)
LEMMA InitType == Init => TypeOK
<1> SUFFICES ASSUME Init
             PROVE  TypeOK
  OBVIOUS
<1>1. list \in Seq(Addr)
  <2>1. PICK n \in 0 .. Placed : list = SubSeq(SetToSeq(Addr), 1, n)
    BY DEF Init
  <2>2. SetToSeq(Addr) \in Seq(Addr) /\ Len(SetToSeq(Addr)) = Cardinality(Addr)
    BY OrderOfAddr
  <2>3. n \in Nat /\ n <= Len(SetToSeq(Addr))
    BY <2>2, OrderOfAddr, BuildingsAssumption
  <2> QED
    BY <2>1, <2>2, <2>3
<1>2. Len(list) \in Nat
  BY <1>1
<1>3. heap \in [Addr -> Cell]
  <2>1. {Nothing} \cup {Building(k, d) : k \in Kinds, d \in BOOLEAN} \subseteq Cell
    <3>1. Nothing \in Cell
      BY DEF Nothing, Cell, Kind
    <3>2. ASSUME NEW k \in Kinds, NEW d \in BOOLEAN
          PROVE  Building(k, d) \in Cell
      BY BuildingsAssumption DEF Building, Cell
    <3> QED
      BY <3>1, <3>2
  <2> QED
    BY <2>1 DEF Init
<1>4. built \subseteq Slot
  BY <1>3 DEF Init, Cell, Kind
<1>5. 0 \in 0 .. MaxPlaced /\ 0 \in 0 .. MaxGlitches
  BY BuildingsAssumption
<1>6. /\ total \in Nat /\ index \in 0 .. total
      /\ inspected \in Nat /\ lastCount \in Nat
  BY <1>2 DEF Init
<1>7. /\ watched \in [Addr -> Slot \cup {"none"}]
      /\ fired \in [Trigger -> Nat]
  BY DEF Init
<1>8. /\ grew = FALSE /\ shrank = FALSE /\ pc = "walk" /\ combinedFired = FALSE
      /\ finished = {} /\ onArrival = {} /\ midRun \in BOOLEAN
      /\ placed = 0 /\ glitches = 0 /\ before = built /\ spoiled = {}
  BY DEF Init
<1> QED
  BY <1>1, <1>3, <1>4, <1>5, <1>6, <1>7, <1>8 DEF TypeOK

LEMMA GameType == TypeOK /\ GameNext => TypeOK'
<1> SUFFICES ASSUME TypeOK, GameNext
             PROVE  TypeOK'
  OBVIOUS
<1>1. list \in Seq(Addr) /\ heap \in [Addr -> Cell] /\ built \subseteq Slot
  BY DEF TypeOK
<1>2. ASSUME NEW a \in Addr, NEW k \in Kinds, Place(a, k)
      PROVE  TypeOK'
  <2>1. list' \in Seq(Addr)
    BY <1>1, <1>2 DEF Place
  <2>2. heap' \in [Addr -> Cell]
    BY <1>1, <1>2, BuildingsAssumption DEF Place, Building, Cell
  <2>3. placed' \in 0 .. MaxPlaced
    BY <1>2, BuildingsAssumption DEF Place, TypeOK
  <2>4. spoiled' \subseteq Slot
    BY <1>2 DEF Place, TypeOK
  <2> QED
    BY <1>2, <2>1, <2>2, <2>3, <2>4 DEF Place, TypeOK, walkVars, pollVars
<1>3. ASSUME NEW a \in Addr, Finish(a)
      PROVE  TypeOK'
  <2>1. heap' \in [Addr -> Cell]
    BY <1>1, <1>3 DEF Finish, Cell
  <2>2. built' \subseteq Slot /\ built \subseteq built'
    BY <1>1, <1>3 DEF Finish
  <2> QED
    BY <1>3, <2>1, <2>2 DEF Finish, TypeOK, walkVars, pollVars
<1>4. ASSUME NEW a \in Addr, Overwrite(a)
      PROVE  TypeOK'
  <2>1. heap' \in [Addr -> Cell]
    BY <1>1, <1>4 DEF Overwrite, Cell, Kind
  <2> QED
    BY <1>4, <2>1 DEF Overwrite, TypeOK, walkVars, pollVars
<1>5. ASSUME NEW i \in DOMAIN list, Demolish(i)
      PROVE  TypeOK'
  <2>1. list' \in Seq(Addr)
    BY <1>1, <1>5, ListTypes DEF Demolish
  <2>2. spoiled' \subseteq Slot
    BY <1>5 DEF Demolish, TypeOK
  <2> QED
    BY <1>5, <2>1, <2>2 DEF Demolish, TypeOK, walkVars, pollVars
<1> QED
  BY <1>2, <1>3, <1>4, <1>5 DEF GameNext

\* What is watched after a look at some entries, and what then reads finished.
LEMMA SeenType ==
  ASSUME TypeOK, NEW from, NEW to, NEW w \in [Addr -> Slot \cup {"none"}]
  PROVE  /\ Inspected(from, to) \in [Addr -> Slot \cup {"none"}]
         /\ Newly(w) \subseteq Slot /\ Newly(w) \cap finished = {}
<1>1. Inspected(from, to) \in [Addr -> Slot \cup {"none"}]
  BY DEF TypeOK, Inspected
<1>2. Newly(w) \subseteq Slot /\ Newly(w) \cap finished = {}
  BY DEF Newly
<1> QED
  BY <1>1, <1>2

LEMMA WalkType == TypeOK /\ (WalkChunk \/ EndWalk) => TypeOK'
<1> SUFFICES ASSUME TypeOK, WalkChunk \/ EndWalk
             PROVE  TypeOK'
  OBVIOUS
<1>1. CASE WalkChunk
  <2>1. index' \in 0 .. total
    BY <1>1, BuildingsAssumption DEF WalkChunk, TypeOK, Lesser
  <2>2. watched' \in [Addr -> Slot \cup {"none"}]
    BY <1>1, SeenType DEF WalkChunk, TypeOK
  <2> QED
    BY <1>1, <2>1, <2>2 DEF WalkChunk, TypeOK, gameVars
<1>2. CASE EndWalk
  <2>1. finished' \subseteq Slot
    BY <1>2, SeenType DEF EndWalk, TypeOK
  <2> QED
    BY <1>2, <2>1 DEF EndWalk, TypeOK, gameVars, walkVars
<1> QED
  BY <1>1, <1>2

LEMMA PollType == TypeOK /\ (PollCount \/ PollEntries) => TypeOK'
<1> SUFFICES ASSUME TypeOK, PollCount \/ PollEntries
             PROVE  TypeOK'
  OBVIOUS
<1>1. CASE PollCount
  <2>1. PICK count \in {Len(list), 0} :
          /\ glitches' = IF count = Len(list) THEN glitches ELSE glitches + 1
          /\ glitches' <= MaxGlitches
          /\ inspected' = Rewound(count)
          /\ lastCount' = count
    BY <1>1 DEF PollCount
  <2>2. count \in Nat /\ inspected \in Nat /\ lastCount \in Nat
    BY <2>1 DEF TypeOK
  <2>3. inspected' \in Nat /\ lastCount' \in Nat
    BY <2>1, <2>2 DEF Rewound, Greater
  <2>4. glitches' \in 0 .. MaxGlitches
    BY <2>1, BuildingsAssumption DEF TypeOK
  <2> QED
    BY <1>1, <2>3, <2>4 DEF PollCount, TypeOK, walkVars
<1>2. CASE PollEntries
  <2>1. watched' \in [Addr -> Slot \cup {"none"}]
    BY <1>2, SeenType DEF PollEntries, TypeOK
  <2>2. Newly(watched') \subseteq Slot
    BY <2>1, SeenType
  <2>3. finished' \subseteq Slot /\ finished \subseteq finished'
    BY <1>2, <2>2 DEF PollEntries, TypeOK
  <2>4. inspected' \in Nat
    BY <1>2, BuildingsAssumption DEF PollEntries, TypeOK, Catch, Lesser
  <2>5. combinedFired' \in BOOLEAN
    BY <1>2 DEF PollEntries, TypeOK, Combined
  <2>6. fired' \in [Trigger -> Nat]
    BY <1>2 DEF PollEntries, TypeOK
  <2> QED
    BY <1>2, <2>1, <2>3, <2>4, <2>5, <2>6 DEF PollEntries, TypeOK, gameVars, walkVars
<1> QED
  BY <1>1, <1>2

LEMMA NextType == TypeOK /\ [Next]_vars => TypeOK'
<1>1. TypeOK /\ UNCHANGED vars => TypeOK'
  BY DEF TypeOK, vars, gameVars, walkVars, pollVars
<1> QED
  BY <1>1, GameType, WalkType, PollType DEF Next, SplitterNext

\* The variables keep their types: among them, what was found finished on
\* arrival is finished, and what was built before was built.
THEOREM BuildingsTypeCorrect == Spec => []TypeOK
BY InitType, NextType, PTL DEF Spec

(***************************************************************************)
(* No trigger fires twice.                                                 *)
(***************************************************************************)
\* A trigger that fired is marked as having fired.
Once ==
  /\ pc = "walk" => ~combinedFired /\ \A t \in Trigger : fired[t] = 0
  /\ \A t \in Trigger : fired[t] <= 1
  /\ \A s \in {"solo", "smelter"} : fired[s] > 0 => s \in finished
  /\ fired["combined"] > 0 => combinedFired

LEMMA InitOnce == Init => Once
BY DEF Init, Once, Trigger

LEMMA NextOnce == TypeOK /\ Once /\ [Next]_vars => Once'
<1> SUFFICES ASSUME TypeOK, Once, [Next]_vars
             PROVE  Once'
  OBVIOUS
<1>1. CASE UNCHANGED <<finished, fired, combinedFired, pc>>
  BY <1>1 DEF Once
<1>2. CASE WalkChunk \/ GameNext
  BY <1>1, <1>2 DEF WalkChunk, GameNext, Place, Finish, Overwrite, Demolish, pollVars
<1>3. CASE EndWalk
  <2>1. \A t \in Trigger : fired[t] = 0
    BY <1>3 DEF EndWalk, Once
  <2>2. fired' = fired /\ pc' = "poll"
    BY <1>3 DEF EndWalk
  <2> QED
    BY <2>1, <2>2 DEF Once, Trigger
<1>4. CASE PollCount
  BY <1>4 DEF PollCount, Once
<1>5. CASE PollEntries
  <2> DEFINE newly == Newly(watched')
             alone == newly \ (onArrival \cup {"workshop"})
             both  == Combined(finished \cup newly)
  <2>1. /\ finished' = finished \cup newly
        /\ combinedFired' = (combinedFired \/ both)
        /\ fired' = [t \in Trigger |->
                       fired[t] + IF t \in alone \/ (t = "combined" /\ both) THEN 1 ELSE 0]
        /\ pc' = "poll"
    BY <1>5 DEF PollEntries
  <2>2. newly \subseteq Slot /\ newly \cap finished = {}
    <3>1. watched' \in [Addr -> Slot \cup {"none"}]
      BY NextType DEF TypeOK
    <3> QED
      BY <3>1, SeenType
  <2>3. both => ~combinedFired
    BY DEF Combined
  <2>4. "combined" \notin alone
    BY <2>2 DEF Slot
  <2>5. fired \in [Trigger -> Nat] /\ combinedFired \in BOOLEAN
    BY DEF TypeOK
  <2> HIDE DEF newly, both
  <2>6. ASSUME NEW t \in {"solo", "smelter"}
        PROVE  fired'[t] <= 1 /\ (fired'[t] > 0 => t \in finished')
    <3>1. t \in Trigger /\ fired[t] \in Nat /\ t # "combined"
      BY <2>5, <2>6 DEF Trigger
    <3>2. fired[t] <= 1 /\ (fired[t] > 0 => t \in finished)
      BY <2>6, <3>1 DEF Once
    <3>3. CASE t \in newly
      <4>1. fired[t] = 0
        BY <2>2, <3>1, <3>2, <3>3
      <4> QED
        BY <2>1, <3>1, <3>3, <4>1
    <3>4. CASE t \notin newly
      <4>1. fired'[t] = fired[t]
        BY <2>1, <3>1, <3>4
      <4> QED
        BY <2>1, <3>2, <4>1
    <3> QED
      BY <3>3, <3>4
  <2>7. fired'["combined"] <= 1 /\ (fired'["combined"] > 0 => combinedFired')
    <3>1. "combined" \in Trigger /\ fired["combined"] \in Nat
      BY <2>5 DEF Trigger
    <3>2. fired["combined"] <= 1 /\ (fired["combined"] > 0 => combinedFired)
      BY <3>1 DEF Once
    <3>3. CASE both
      <4>1. fired["combined"] = 0
        BY <2>3, <3>1, <3>2, <3>3
      <4>2. fired'["combined"] = 1
        BY <2>1, <3>1, <3>3, <4>1
      <4>3. combinedFired' = TRUE
        BY <2>1, <3>3
      <4> QED
        BY <4>2, <4>3
    <3>4. CASE ~both
      <4>1. fired'["combined"] = fired["combined"]
        BY <2>1, <2>4, <3>1, <3>4
      <4> QED
        BY <2>1, <3>2, <4>1
    <3> QED
      BY <3>3, <3>4
  <2>8. \A t \in Trigger : fired'[t] <= 1
    BY <2>6, <2>7 DEF Trigger
  <2> QED
    BY <2>1, <2>6, <2>7, <2>8 DEF Once
<1>6. CASE UNCHANGED vars
  BY <1>1, <1>6 DEF vars, pollVars
<1> QED
  BY <1>2, <1>3, <1>4, <1>5, <1>6 DEF Next, SplitterNext

\* No trigger fires twice, whatever is rebuilt, removed or read again.
THEOREM EachIsSplitOnce == Spec => []EachSplitsOnce
<1>1. TypeOK /\ Once /\ [Next]_vars => (TypeOK /\ Once)'
  BY NextType, NextOnce
<1>2. Once => EachSplitsOnce
  BY DEF Once, EachSplitsOnce
<1> QED
  BY <1>1, <1>2, InitType, InitOnce, PTL DEF Spec

(***************************************************************************)
(* Every split is for a building that was finished.  What is watched is    *)
(* what it was seen as until its memory holds something else; and what     *)
(* stood before the splitter came is known to have, unless the list slid   *)
(* under the walk that looked for it.  Of the slots in `spoiled` neither   *)
(* is known.                                                               *)
(***************************************************************************)
\* What is watched was seen, and is what it was seen as as long as its memory
\* holds a building's state, but for the slots that are spoiled.
WatchedIsKnown ==
  \A a \in Addr : watched[a] # "none" =>
    /\ heap[a].used
    /\ heap[a].isState => heap[a].kind = watched[a] \/ watched[a] \in spoiled

\* What is in the list is a building; what is done was built.
CellsAreTrue ==
  /\ \A i \in DOMAIN list : heap[list[i]].isState /\ heap[list[i]].used
  /\ \A a \in Addr : heap[a].done /\ heap[a].isState /\ heap[a].kind \in Slot =>
                       heap[a].kind \in built

\* The opening walk reports nothing.
WalkIsQuiet ==
  pc = "walk" => finished = {} /\ ~combinedFired /\ \A t \in Trigger : fired[t] = 0

\* Unless the list slid, the walk watches what it has passed, and what was built
\* before stands in its way.
WalkMeetsAll ==
  pc = "walk" /\ ~(before \subseteq spoiled) =>
    /\ total <= Len(list)
    /\ \A i \in 1 .. index : heap[list[i]].kind \in Slot => watched[list[i]] # "none"
    /\ \A s \in before \ spoiled : \E i \in 1 .. total :
         /\ heap[list[i]].kind = s /\ heap[list[i]].done
         /\ watched[list[i]] \in {"none", s}

\* Then it is known.
BeforeIsKnown == ~midRun /\ pc # "walk" => before \ spoiled \subseteq onArrival

\* What was split for was seen finished, and not on arrival.
FiredIsFinished ==
  /\ finished \subseteq built \cup spoiled
  /\ \A s \in {"solo", "smelter"} : fired[s] > 0 => s \in finished \ onArrival
  /\ fired["combined"] > 0 => /\ {"smelter", "workshop"} \subseteq finished
                              /\ ~({"smelter", "workshop"} \subseteq onArrival)

Real ==
  /\ WatchedIsKnown /\ CellsAreTrue /\ WalkIsQuiet
  /\ WalkMeetsAll /\ BeforeIsKnown /\ FiredIsFinished

LEMMA InitReal == Init => Real
<1> SUFFICES ASSUME Init
             PROVE  Real
  OBVIOUS
<1>1. TypeOK
  BY InitType
<1>2. /\ list \in Seq(Addr) /\ heap \in [Addr -> Cell]
      /\ DOMAIN list = 1 .. Len(list) /\ Len(list) \in Nat
  BY <1>1, ListTypes DEF TypeOK
<1>3. \A a \in Addr : /\ heap[a].used = Live(a)
                      /\ heap[a].used => heap[a].isState
                      /\ heap[a].done => heap[a].used
  <2>1. ASSUME NEW a \in Addr
        PROVE  /\ heap[a].used => heap[a].isState
               /\ heap[a].done => heap[a].used
    <3>1. heap[a] \in {Nothing} \cup {Building(k, d) : k \in Kinds, d \in BOOLEAN}
      BY DEF Init
    <3> QED
      BY <3>1 DEF Nothing, Building
  <2> QED
    BY <2>1 DEF Init
<1>4. WatchedIsKnown
  BY DEF Init, WatchedIsKnown
<1>5. CellsAreTrue
  <2>1. ASSUME NEW i \in DOMAIN list
        PROVE  heap[list[i]].isState /\ heap[list[i]].used
    <3>1. list[i] \in Addr /\ Live(list[i])
      BY <1>2, <2>1 DEF Live
    <3> QED
      BY <1>3, <3>1
  <2>2. built = {heap[a].kind : a \in {b \in Addr : heap[b].done}} \ {"other"}
    BY DEF Init
  <2>3. ASSUME NEW a \in Addr, heap[a].done, heap[a].kind \in Slot
        PROVE  heap[a].kind \in built
    BY <2>2, <2>3 DEF Slot
  <2> QED
    BY <2>1, <2>3 DEF CellsAreTrue
<1>6. WalkIsQuiet /\ BeforeIsKnown
  BY DEF Init, WalkIsQuiet, BeforeIsKnown
<1>7. WalkMeetsAll
  <2>1. ASSUME NEW s \in before
        PROVE  \E i \in 1 .. total :
                 /\ heap[list[i]].kind = s /\ heap[list[i]].done
                 /\ watched[list[i]] \in {"none", s}
    <3>1. PICK a \in Addr : heap[a].done /\ heap[a].kind = s
      BY <2>1 DEF Init
    <3>2. Live(a)
      BY <1>3, <3>1
    <3>3. PICK i \in DOMAIN list : list[i] = a
      BY <3>2 DEF Live
    <3>4. i \in 1 .. total /\ watched[a] = "none"
      BY <1>2 DEF Init
    <3> QED
      BY <3>1, <3>3, <3>4
  <2>2. total = Len(list) /\ index = 0
    BY DEF Init
  <2> QED
    BY <1>2, <2>1, <2>2 DEF WalkMeetsAll
<1>8. FiredIsFinished
  BY DEF Init, FiredIsFinished, Trigger
<1> QED
  BY <1>4, <1>5, <1>6, <1>7, <1>8 DEF Real

LEMMA PlaceReal ==
  ASSUME TypeOK, Real, NEW a \in Addr, NEW k \in Kinds, Place(a, k)
  PROVE  Real'
<1>1. /\ list \in Seq(Addr) /\ heap \in [Addr -> Cell]
      /\ DOMAIN list = 1 .. Len(list) /\ Len(list) \in Nat
      /\ total \in Nat /\ index \in 0 .. total
  BY ListTypes DEF TypeOK
<1>2. ~Live(a)
  BY DEF Place
<1>3. /\ list' = Append(list, a)
      /\ heap' = [heap EXCEPT ![a] = Building(k, FALSE)]
      /\ UNCHANGED <<built, total, index, midRun, before, finished, onArrival, combinedFired>>
      /\ UNCHANGED <<watched, fired, pc>>
      /\ spoiled' = spoiled \cup ({watched[a]} \ {k, "none"})
  BY DEF Place, walkVars, pollVars
<1>4. /\ \A b \in Addr \ {a} : heap'[b] = heap[b]
      /\ heap'[a].isState /\ heap'[a].used /\ ~heap'[a].done /\ heap'[a].kind = k
  BY <1>1, <1>3 DEF Building
<1>5. /\ DOMAIN list' = 1 .. Len(list) + 1 /\ Len(list') = Len(list) + 1
      /\ list'[Len(list) + 1] = a
      /\ \A i \in 1 .. Len(list) : list'[i] = list[i] /\ list[i] \in Addr \ {a}
  <2>1. list' \in Seq(Addr) /\ Len(list') = Len(list) + 1
    BY <1>1, <1>3, ListTypes
  <2>2. \A i \in 1 .. Len(list) : list'[i] = list[i]
    BY <1>1, <1>3, ListTypes
  <2>3. \A i \in 1 .. Len(list) : list[i] \in Addr \ {a}
    BY <1>1, <1>2 DEF Live
  <2>4. list'[Len(list) + 1] = a
    BY <1>1, <1>3, ListTypes
  <2> QED
    BY <2>1, <2>2, <2>3, <2>4
<1>6. WatchedIsKnown'
  BY <1>2, <1>3, <1>4 DEF Real, WatchedIsKnown
<1>7. CellsAreTrue'
  <2>1. ASSUME NEW i \in 1 .. Len(list) + 1
        PROVE  heap'[list'[i]].isState /\ heap'[list'[i]].used
    <3>1. CASE i = Len(list) + 1
      BY <1>4, <1>5, <3>1
    <3>2. CASE i \in 1 .. Len(list)
      BY <1>1, <1>4, <1>5, <3>2 DEF Real, CellsAreTrue
    <3> QED
      BY <1>1, <3>1, <3>2
  <2>2. \A b \in Addr : heap'[b].done /\ heap'[b].isState /\ heap'[b].kind \in Slot =>
                          heap'[b].kind \in built
    <3>1. \A b \in Addr : heap[b].done /\ heap[b].isState /\ heap[b].kind \in Slot =>
                            heap[b].kind \in built
      BY DEF Real, CellsAreTrue
    <3> QED
      BY <1>4, <3>1
  <2> QED
    BY <1>3, <1>5, <2>1, <2>2 DEF CellsAreTrue
<1>8. ASSUME NEW i \in 1 .. Len(list)
      PROVE  list'[i] = list[i] /\ heap'[list'[i]] = heap[list[i]]
  BY <1>4, <1>5, <1>8
<1>9. WalkMeetsAll'
  <2> SUFFICES ASSUME pc = "walk", ~(before \subseteq spoiled')
               PROVE  WalkMeetsAll'
    BY <1>3 DEF WalkMeetsAll
  <2>1. /\ total <= Len(list)
        /\ \A i \in 1 .. index : heap[list[i]].kind \in Slot => watched[list[i]] # "none"
        /\ \A s \in before \ spoiled : \E i \in 1 .. total :
             /\ heap[list[i]].kind = s /\ heap[list[i]].done
             /\ watched[list[i]] \in {"none", s}
    BY <1>3 DEF Real, WalkMeetsAll
  <2>2. total <= Len(list') /\ 1 .. index \subseteq 1 .. Len(list)
        /\ 1 .. total \subseteq 1 .. Len(list)
    BY <1>1, <1>5, <2>1
  <2>3. \A i \in 1 .. index : heap'[list'[i]].kind \in Slot => watched'[list'[i]] # "none"
    BY <1>3, <1>8, <2>1, <2>2
  <2>4. \A s \in before \ spoiled' : \E i \in 1 .. total :
          /\ heap'[list'[i]].kind = s /\ heap'[list'[i]].done
          /\ watched'[list'[i]] \in {"none", s}
    <3> SUFFICES ASSUME NEW s \in before \ spoiled'
                 PROVE  \E i \in 1 .. total :
                          /\ heap'[list'[i]].kind = s /\ heap'[list'[i]].done
                          /\ watched'[list'[i]] \in {"none", s}
      OBVIOUS
    <3>1. s \in before \ spoiled
      BY <1>3
    <3>2. PICK i \in 1 .. total :
            /\ heap[list[i]].kind = s /\ heap[list[i]].done
            /\ watched[list[i]] \in {"none", s}
      BY <2>1, <3>1
    <3>3. list'[i] = list[i] /\ heap'[list'[i]] = heap[list[i]] /\ watched' = watched
      BY <1>3, <1>8, <2>2
    <3> QED
      BY <3>2, <3>3
  <2> QED
    BY <1>3, <2>2, <2>3, <2>4 DEF WalkMeetsAll
<1>11. WalkIsQuiet' /\ BeforeIsKnown'
  BY <1>3 DEF Real, WalkIsQuiet, BeforeIsKnown
<1>10. FiredIsFinished'
  <2>1. finished \subseteq built \cup spoiled'
    BY <1>3 DEF Real, FiredIsFinished
  <2> QED
    BY <1>3, <2>1 DEF Real, FiredIsFinished
<1> QED
  BY <1>6, <1>7, <1>9, <1>10, <1>11 DEF Real

\* A building is finished, or what a demolished one left is overwritten.
LEMMA HeapReal ==
  ASSUME TypeOK, Real, NEW a \in Addr, Finish(a) \/ Overwrite(a)
  PROVE  Real'
<1>1. /\ list \in Seq(Addr) /\ heap \in [Addr -> Cell]
      /\ DOMAIN list = 1 .. Len(list) /\ Len(list) \in Nat
      /\ total \in Nat /\ index \in 0 .. total
  BY ListTypes DEF TypeOK
<1>2. /\ UNCHANGED <<list, total, index, midRun, before, finished, onArrival, combinedFired>>
      /\ UNCHANGED <<watched, fired, pc, spoiled>>
  BY DEF Finish, Overwrite, walkVars, pollVars
<1>3. built \subseteq built'
  BY DEF Finish, Overwrite
<1>4. \A b \in Addr :
        /\ heap'[b].used = heap[b].used
        /\ heap'[b].isState => /\ heap[b].isState /\ heap'[b].kind = heap[b].kind
                               /\ heap[b].done => heap'[b].done
                               /\ heap'[b].done /\ heap[b].kind \in Slot =>
                                    heap[b].done \/ heap[b].kind \in built'
        /\ Live(b) => heap'[b].isState = heap[b].isState
  <2>1. CASE Finish(a)
    BY <1>1, <2>1 DEF Finish, Cell
  <2>2. CASE Overwrite(a)
    BY <1>1, <2>2 DEF Overwrite, Cell
  <2> QED
    BY <2>1, <2>2
<1>5. \A i \in 1 .. Len(list) :
        /\ list[i] \in Addr /\ Live(list[i])
        /\ heap[list[i]].isState /\ heap'[list[i]].isState
        /\ heap'[list[i]].kind = heap[list[i]].kind
        /\ heap[list[i]].done => heap'[list[i]].done
  BY <1>1, <1>4 DEF Live, Real, CellsAreTrue
<1>6. WatchedIsKnown'
  BY <1>2, <1>4 DEF Real, WatchedIsKnown
<1>7. CellsAreTrue'
  BY <1>1, <1>2, <1>3, <1>4, <1>5 DEF Real, CellsAreTrue
<1>8. WalkIsQuiet' /\ BeforeIsKnown'
  BY <1>2 DEF Real, WalkIsQuiet, BeforeIsKnown
<1>9. WalkMeetsAll'
  <2> SUFFICES ASSUME pc = "walk", ~(before \subseteq spoiled)
               PROVE  WalkMeetsAll'
    BY <1>2 DEF WalkMeetsAll
  <2>1. total <= Len(list) /\ 1 .. index \subseteq 1 .. Len(list)
        /\ 1 .. total \subseteq 1 .. Len(list)
    BY <1>1 DEF Real, WalkMeetsAll
  <2> QED
    BY <1>2, <1>5, <2>1 DEF Real, WalkMeetsAll
<1>10. FiredIsFinished'
  BY <1>2, <1>3 DEF Real, FiredIsFinished
<1> QED
  BY <1>6, <1>7, <1>8, <1>9, <1>10 DEF Real

LEMMA DemolishReal ==
  ASSUME TypeOK, Real, NEW i \in DOMAIN list, Demolish(i)
  PROVE  Real'
<1>1. list \in Seq(Addr) /\ list' = RemoveAt(list, i)
  BY DEF Demolish, TypeOK
<1>2. /\ UNCHANGED <<heap, built, total, index, midRun, before, finished, onArrival>>
      /\ UNCHANGED <<combinedFired, watched, fired, pc>>
      /\ spoiled' = IF pc = "walk" THEN spoiled \cup before ELSE spoiled
  BY DEF Demolish, walkVars, pollVars
<1>3. \A j \in DOMAIN list' : \E k \in DOMAIN list : list'[j] = list[k]
  BY <1>1, ListTypes
<1>4. CellsAreTrue'
  BY <1>2, <1>3 DEF Real, CellsAreTrue
<1>5. spoiled \subseteq spoiled' /\ (pc = "walk" => before \subseteq spoiled')
  BY <1>2
<1>6. WatchedIsKnown' /\ BeforeIsKnown'
  BY <1>2, <1>5 DEF Real, WatchedIsKnown, BeforeIsKnown
<1>7. WalkIsQuiet' /\ WalkMeetsAll'
  BY <1>2, <1>5 DEF Real, WalkIsQuiet, WalkMeetsAll
<1>8. FiredIsFinished'
  <2>1. finished \subseteq built \cup spoiled'
    BY <1>5 DEF Real, FiredIsFinished
  <2> QED
    BY <1>2, <2>1 DEF Real, FiredIsFinished
<1> QED
  BY <1>4, <1>6, <1>7, <1>8 DEF Real

\* What a look at some entries adds to what is watched.
LEMMA InspectedIsKnown ==
  ASSUME TypeOK, Real, NEW from \in Nat, NEW to \in Nat
  PROVE  /\ \A a \in Addr : Inspected(from, to)[a] # "none" =>
              /\ heap[a].used
              /\ heap[a].isState => \/ heap[a].kind = Inspected(from, to)[a]
                                    \/ Inspected(from, to)[a] \in spoiled
         /\ \A a \in Addr : /\ watched[a] # "none" => Inspected(from, to)[a] = watched[a]
                            /\ Inspected(from, to)[a] \in {watched[a], heap[a].kind}
         /\ \A i \in DOMAIN list : from < i /\ i <= to /\ heap[list[i]].kind \in Slot =>
              Inspected(from, to)[list[i]] # "none"
<1>1. list \in Seq(Addr) /\ watched \in [Addr -> Slot \cup {"none"}]
  BY DEF TypeOK
<1>2. \A a \in InRange(from, to) : heap[a].used
  BY DEF InRange, Real, CellsAreTrue
<1>3. \A a \in Addr :
        Inspected(from, to)[a] =
          IF watched[a] = "none" /\ a \in InRange(from, to) /\ heap[a].kind \in Slot
            THEN heap[a].kind ELSE watched[a]
  BY DEF Inspected
<1>4. \A a \in Addr : watched[a] # "none" =>
        /\ heap[a].used
        /\ heap[a].isState => heap[a].kind = watched[a] \/ watched[a] \in spoiled
  BY DEF Real, WatchedIsKnown
<1>5. ASSUME NEW i \in DOMAIN list, from < i, i <= to, heap[list[i]].kind \in Slot
      PROVE  Inspected(from, to)[list[i]] # "none"
  <2>1. list[i] \in Addr /\ list[i] \in InRange(from, to)
    BY <1>1, <1>5 DEF InRange
  <2>2. heap[list[i]].kind # "none"
    BY <1>5 DEF Slot
  <2> QED
    BY <1>3, <1>5, <2>1, <2>2
<1> QED
  BY <1>2, <1>3, <1>4, <1>5

\* What reads finished was built, or is spoiled.
LEMMA NewlyIsBuilt ==
  ASSUME TypeOK, Real, NEW w \in [Addr -> Slot \cup {"none"}],
         \A a \in Addr : w[a] # "none" =>
           (heap[a].isState => heap[a].kind = w[a] \/ w[a] \in spoiled)
  PROVE  Newly(w) \subseteq built \cup spoiled
<1> SUFFICES ASSUME NEW s \in Newly(w)
             PROVE  s \in built \cup spoiled
  OBVIOUS
<1>1. PICK a \in Addr : ReadsFinished(a) /\ w[a] = s /\ s # "none"
  BY DEF Newly
<1>2. /\ heap[a].done /\ heap[a].isState /\ s \in Slot
      /\ heap[a].kind = s \/ s \in spoiled
  BY <1>1 DEF ReadsFinished
<1> QED
  BY <1>2 DEF Real, CellsAreTrue

LEMMA WalkReal ==
  ASSUME TypeOK, Real, WalkChunk
  PROVE  Real'
<1>1. /\ list \in Seq(Addr) /\ DOMAIN list = 1 .. Len(list) /\ Len(list) \in Nat
      /\ total \in Nat /\ index \in 0 .. total /\ pc = "walk"
  BY ListTypes DEF TypeOK, WalkChunk
<1>2. /\ index' = Lesser(index + BASELINE_CHUNK, total)
      /\ watched' = Inspected(index, index')
      /\ UNCHANGED <<list, heap, built, spoiled, total, midRun, before, pc, finished>>
      /\ UNCHANGED <<onArrival, combinedFired, fired>>
  BY DEF WalkChunk, gameVars
<1>3. index' \in Nat /\ index' <= total /\ index \in Nat
  BY <1>1, <1>2, BuildingsAssumption DEF Lesser
<1>4. WatchedIsKnown'
  BY <1>2, <1>3, InspectedIsKnown DEF WatchedIsKnown
<1>5. WalkMeetsAll'
  <2> SUFFICES ASSUME ~(before \subseteq spoiled)
               PROVE  WalkMeetsAll'
    BY <1>2 DEF WalkMeetsAll
  <2>1. total <= Len(list)
    BY <1>1 DEF Real, WalkMeetsAll
  <2>2. ASSUME NEW i \in 1 .. index', heap[list[i]].kind \in Slot
        PROVE  watched'[list[i]] # "none"
    <3>1. i \in DOMAIN list /\ list[i] \in Addr
      BY <1>1, <1>3, <2>1
    <3>2. CASE i <= index
      <4>1. i \in 1 .. index
        BY <1>3, <3>2
      <4>2. watched[list[i]] # "none"
        BY <1>1, <2>2, <4>1 DEF Real, WalkMeetsAll
      <4>3. watched'[list[i]] = watched[list[i]]
        BY <1>2, <1>3, <3>1, <4>2, InspectedIsKnown
      <4> QED
        BY <4>2, <4>3
    <3>3. CASE index < i
      <4>1. i <= index'
        BY <1>3
      <4> QED
        BY <1>2, <1>3, <2>2, <3>1, <3>3, <4>1, InspectedIsKnown
    <3>4. i <= index \/ index < i
      BY <1>3
    <3> QED
      BY <3>2, <3>3, <3>4
  <2>3. ASSUME NEW s \in before \ spoiled
        PROVE  \E i \in 1 .. total :
                 /\ heap[list[i]].kind = s /\ heap[list[i]].done
                 /\ watched'[list[i]] \in {"none", s}
    <3>1. PICK i \in 1 .. total : /\ heap[list[i]].kind = s /\ heap[list[i]].done
                                  /\ watched[list[i]] \in {"none", s}
      BY <1>1, <2>3 DEF Real, WalkMeetsAll
    <3>2. list[i] \in Addr
      BY <1>1, <2>1
    <3>3. watched'[list[i]] \in {watched[list[i]], heap[list[i]].kind}
      BY <1>2, <1>3, <3>2, InspectedIsKnown
    <3> QED
      BY <3>1, <3>3
  <2> QED
    BY <1>2, <2>1, <2>2, <2>3 DEF WalkMeetsAll
<1>6. CellsAreTrue' /\ WalkIsQuiet' /\ BeforeIsKnown' /\ FiredIsFinished'
  BY <1>2 DEF Real, CellsAreTrue, WalkIsQuiet, BeforeIsKnown, FiredIsFinished
<1> QED
  BY <1>4, <1>5, <1>6 DEF Real

\* At the end of the walk, what was built before reads finished.
LEMMA EndWalkReal ==
  ASSUME TypeOK, Real, EndWalk
  PROVE  Real'
<1>1. /\ list \in Seq(Addr) /\ DOMAIN list = 1 .. Len(list) /\ Len(list) \in Nat
      /\ total \in Nat /\ index = total /\ pc = "walk"
      /\ watched \in [Addr -> Slot \cup {"none"}] /\ before \subseteq Slot
  BY ListTypes DEF TypeOK, EndWalk
<1>2. /\ finished' = IF midRun THEN {} ELSE Newly(watched)
      /\ onArrival' = finished' /\ pc' = "poll"
      /\ UNCHANGED <<list, heap, built, spoiled, total, index, midRun, before, watched>>
      /\ UNCHANGED <<combinedFired, fired>>
  BY DEF EndWalk, gameVars, walkVars
<1>3. finished = {} /\ \A t \in Trigger : fired[t] = 0
  BY <1>1 DEF Real, WalkIsQuiet
<1>4. Newly(watched) \subseteq built \cup spoiled
  BY <1>1, NewlyIsBuilt DEF Real, WatchedIsKnown
<1>5. BeforeIsKnown'
  <2>1. ASSUME ~midRun, NEW s \in before \ spoiled
        PROVE  s \in Newly(watched)
    <3>1. /\ total <= Len(list)
          /\ \A i \in 1 .. index : heap[list[i]].kind \in Slot => watched[list[i]] # "none"
          /\ \E i \in 1 .. total : /\ heap[list[i]].kind = s /\ heap[list[i]].done
                                   /\ watched[list[i]] \in {"none", s}
      BY <1>1, <2>1 DEF Real, WalkMeetsAll
    <3>2. PICK i \in 1 .. total : /\ heap[list[i]].kind = s /\ heap[list[i]].done
                                  /\ watched[list[i]] \in {"none", s}
      BY <3>1
    <3>3. i \in DOMAIN list /\ list[i] \in Addr /\ s \in Slot
      BY <1>1, <3>1
    <3>4. watched[list[i]] = s /\ heap[list[i]].isState
      BY <1>1, <3>1, <3>2, <3>3 DEF Real, CellsAreTrue
    <3> QED
      BY <1>3, <3>2, <3>3, <3>4 DEF Newly, ReadsFinished, Slot
  <2> QED
    BY <1>2, <2>1 DEF BeforeIsKnown
<1>6. FiredIsFinished'
  <2>1. finished' \subseteq built' \cup spoiled'
    BY <1>2, <1>4
  <2>2. \A t \in {"solo", "smelter", "combined"} : ~(fired'[t] > 0)
    BY <1>2, <1>3 DEF Trigger
  <2> QED
    BY <2>1, <2>2 DEF FiredIsFinished
<1>7. WatchedIsKnown' /\ CellsAreTrue' /\ WalkIsQuiet' /\ WalkMeetsAll'
  BY <1>2 DEF Real, WatchedIsKnown, CellsAreTrue, WalkIsQuiet, WalkMeetsAll
<1> QED
  BY <1>5, <1>6, <1>7 DEF Real

LEMMA PollEntriesReal ==
  ASSUME TypeOK, Real, PollEntries
  PROVE  Real'
<1> DEFINE newly == Newly(watched')
           alone == newly \ (onArrival \cup {"workshop"})
           both  == Combined(finished \cup newly)
<1>1. /\ watched' = Inspected(inspected, Catch)
      /\ finished' = finished \cup newly
      /\ fired' = [t \in Trigger |->
                     fired[t] + IF t \in alone \/ (t = "combined" /\ both) THEN 1 ELSE 0]
      /\ pc = "read" /\ pc' = "poll"
      /\ UNCHANGED <<list, heap, built, spoiled, total, index, midRun, before, onArrival>>
  BY DEF PollEntries, gameVars, walkVars
<1>2. inspected \in Nat /\ Catch \in Nat
  BY BuildingsAssumption DEF TypeOK, Catch, Lesser
<1>3. watched' \in [Addr -> Slot \cup {"none"}]
  BY <1>1, SeenType DEF TypeOK
<1>4. \A a \in Addr : watched'[a] # "none" =>
        /\ heap[a].used
        /\ heap[a].isState => heap[a].kind = watched'[a] \/ watched'[a] \in spoiled
  BY <1>1, <1>2, InspectedIsKnown
<1>5. newly \subseteq built \cup spoiled /\ newly \subseteq Slot
  BY <1>3, <1>4, NewlyIsBuilt, SeenType
<1>6. both => /\ {"smelter", "workshop"} \subseteq finished'
              /\ ~({"smelter", "workshop"} \subseteq onArrival)
  BY <1>1 DEF Combined
<1>7. fired \in [Trigger -> Nat]
  BY DEF TypeOK
<1>8. "combined" \notin alone
  BY <1>5 DEF Slot
<1> HIDE DEF newly, both
<1>9. FiredIsFinished'
  <2>1. finished' \subseteq built' \cup spoiled'
    BY <1>1, <1>5 DEF Real, FiredIsFinished
  <2>2. ASSUME NEW s \in {"solo", "smelter"}, fired'[s] > 0
        PROVE  s \in finished' \ onArrival'
    <3>1. s \in Trigger /\ fired[s] \in Nat /\ s # "combined"
      BY <1>7, <2>2 DEF Trigger
    <3>2. CASE s \in alone
      BY <1>1, <3>2
    <3>3. CASE s \notin alone
      <4>1. fired'[s] = fired[s]
        BY <1>1, <3>1, <3>3
      <4>2. s \in finished \ onArrival
        BY <2>2, <4>1 DEF Real, FiredIsFinished
      <4> QED
        BY <1>1, <4>2
    <3> QED
      BY <3>2, <3>3
  <2>3. ASSUME fired'["combined"] > 0
        PROVE  /\ {"smelter", "workshop"} \subseteq finished'
               /\ ~({"smelter", "workshop"} \subseteq onArrival')
    <3>1. "combined" \in Trigger /\ fired["combined"] \in Nat
      BY <1>7 DEF Trigger
    <3>2. CASE both
      BY <1>1, <1>6, <3>2
    <3>3. CASE ~both
      <4>1. fired'["combined"] = fired["combined"]
        BY <1>1, <1>8, <3>1, <3>3
      <4> QED
        BY <1>1, <2>3, <4>1 DEF Real, FiredIsFinished
    <3> QED
      BY <3>2, <3>3
  <2> QED
    BY <2>1, <2>2, <2>3 DEF FiredIsFinished
<1>10. WatchedIsKnown'
  BY <1>1, <1>4 DEF WatchedIsKnown
<1>11. CellsAreTrue' /\ WalkIsQuiet' /\ WalkMeetsAll' /\ BeforeIsKnown'
  BY <1>1 DEF Real, CellsAreTrue, WalkIsQuiet, WalkMeetsAll, BeforeIsKnown
<1> QED
  BY <1>9, <1>10, <1>11 DEF Real

LEMMA NextReal == TypeOK /\ Real /\ [Next]_vars => Real'
<1> SUFFICES ASSUME TypeOK, Real, [Next]_vars
             PROVE  Real'
  OBVIOUS
<1>1. CASE PollCount
  <2>1. /\ UNCHANGED <<list, heap, built, spoiled, total, index, midRun, before>>
        /\ UNCHANGED <<finished, onArrival>>
        /\ UNCHANGED <<combinedFired, watched, fired>> /\ pc # "walk" /\ pc' # "walk"
    BY <1>1 DEF PollCount, walkVars
  <2> QED
    BY <2>1 DEF Real, WatchedIsKnown, CellsAreTrue, WalkIsQuiet, WalkMeetsAll,
                BeforeIsKnown, FiredIsFinished
<1>2. CASE UNCHANGED vars
  BY <1>2 DEF vars, gameVars, walkVars, pollVars, Real, WatchedIsKnown, CellsAreTrue,
              WalkIsQuiet, WalkMeetsAll, BeforeIsKnown, FiredIsFinished
<1>3. CASE GameNext
  BY <1>3, PlaceReal, HeapReal, DemolishReal DEF GameNext
<1> QED
  BY <1>1, <1>2, <1>3, WalkReal, EndWalkReal, PollEntriesReal DEF Next, SplitterNext

\* A trigger fires only for buildings that were finished, and in a game that was
\* not a run yet, only for what was not finished when the splitter came -- with
\* memory used again, buildings removed at any moment and counts that fail to
\* read: what may pass for such a building is only another one in the memory of
\* one that was watched, or one the walk missed because the list slid under it.
THEOREM OnlyTheRealSplit == Spec => []SplitsAreReal
<1>1. TypeOK /\ Real /\ [Next]_vars => (TypeOK /\ Real)'
  BY NextType, NextReal
<1>2. TypeOK /\ Real => SplitsAreReal
  <2> SUFFICES ASSUME TypeOK, Real
               PROVE  SplitsAreReal
    OBVIOUS
  <2>1. CASE pc = "walk"
    <3>1. \A t \in {"solo", "smelter", "combined"} : ~(fired[t] > 0)
      BY <2>1 DEF Real, WalkIsQuiet, Trigger
    <3> QED
      BY <3>1 DEF SplitsAreReal
  <2>2. CASE pc # "walk"
    <3>1. finished \subseteq built \cup spoiled
          /\ (~midRun => before \ spoiled \subseteq onArrival)
      BY <2>2 DEF Real, FiredIsFinished, BeforeIsKnown
    <3> QED
      BY <3>1 DEF Real, FiredIsFinished, SplitsAreReal, New
  <2> QED
    BY <2>1, <2>2
<1> QED
  BY <1>1, <1>2, InitType, InitReal, PTL DEF Spec

(***************************************************************************)
(* Nothing slips under the mark.  As long as a shrink is learned of before *)
(* the list grows again, and nothing is removed between a count and its    *)
(* entries or under the opening walk, what the last count said bounds how  *)
(* far the list has slid, and so does the mark that gives it back.         *)
(***************************************************************************)
WatchedTo(m) ==
  \A i \in DOMAIN list : i <= m /\ heap[list[i]].kind \in Slot => watched[list[i]] # "none"

\* Between two counts the list either grows or shrinks, and the last count
\* says where it was -- or nothing, and then the mark is at nothing, too.
Paced ==
  /\ ~(grew /\ shrank)
  /\ pc = "walk" => ~shrank /\ total <= Len(list) /\ (~grew => Len(list) = total)
  /\ pc # "walk" =>
       /\ inspected <= lastCount
       /\ ~shrank => Len(list) >= lastCount
       /\ ~grew => Len(list) <= lastCount \/ lastCount = 0
       /\ pc = "read" => ~shrank

CaughtUp == WatchedTo(IF pc = "walk" THEN index ELSE Mark)

Slides == Paced /\ CaughtUp

\* The same of a step's outcome, to a place that is known before it.
StaysWatchedTo(m) ==
  \A i \in DOMAIN list' : i <= m /\ heap'[list'[i]].kind \in Slot => watched'[list'[i]] # "none"

\* What every lemma below says of the list and the counters.
LEMMA Counters ==
  ASSUME TypeOK
  PROVE  /\ list \in Seq(Addr) /\ DOMAIN list = 1 .. Len(list) /\ Len(list) \in Nat
         /\ total \in Nat /\ index \in Nat /\ index <= total
         /\ inspected \in Nat /\ lastCount \in Nat
         /\ \A i \in DOMAIN list : list[i] \in Addr
BY ListTypes DEF TypeOK

LEMMA InitSlides == Init => Slides
<1> SUFFICES ASSUME Init PROVE Slides
  OBVIOUS
<1>1. pc = "walk" /\ grew = FALSE /\ shrank = FALSE /\ total = Len(list) /\ index = 0
  BY DEF Init
<1>2. Len(list) \in Nat /\ DOMAIN list = 1 .. Len(list)
  BY InitType, Counters
<1> QED
  BY <1>1, <1>2 DEF Slides, Paced, CaughtUp, WatchedTo

\* A placed building goes to the end, beyond the mark.
LEMMA PlaceSlides ==
  ASSUME TypeOK, Slides, Removals = {}, NEW a \in Addr, NEW k \in Kinds, Place(a, k)
  PROVE  Slides'
<1>1. /\ ~Live(a) /\ ~shrank
      /\ list' = Append(list, a) /\ heap' = [heap EXCEPT ![a] = Building(k, FALSE)]
      /\ grew' = TRUE /\ UNCHANGED <<shrank, walkVars, pollVars, pc>>
  BY DEF Place
<1>2. /\ Len(list') = Len(list) + 1 /\ DOMAIN list' = 1 .. Len(list) + 1
      /\ \A i \in 1 .. Len(list) : list'[i] = list[i]
  <2>1. list' \in Seq(Addr) /\ Len(list') = Len(list) + 1
    BY <1>1, ListTypes DEF TypeOK
  <2> QED
    BY <1>1, <2>1, ListTypes DEF TypeOK
<1>3. \A i \in 1 .. Len(list) : heap'[list[i]] = heap[list[i]]
  BY <1>1, Counters DEF Live, TypeOK
<1>4. Paced'
  BY <1>1, <1>2, Counters DEF Slides, Paced, walkVars, pollVars
<1>5. ASSUME NEW m \in Int, m <= Len(list), WatchedTo(m)
      PROVE  StaysWatchedTo(m)
  <2> SUFFICES ASSUME NEW i \in 1 .. Len(list) + 1, i <= m, heap'[list'[i]].kind \in Slot
               PROVE  watched[list'[i]] # "none"
    BY <1>1, <1>2 DEF StaysWatchedTo, pollVars
  <2>1. i \in 1 .. Len(list)
    BY <1>5, Counters
  <2> QED
    BY <1>2, <1>3, <1>5, <2>1, Counters DEF WatchedTo
<1>6. CASE pc = "walk"
  <2>1. index \in Int /\ index <= Len(list) /\ WatchedTo(index) /\ index' = index
    BY <1>1, <1>6, Counters DEF Slides, CaughtUp, Paced, walkVars
  <2>2. StaysWatchedTo(index)
    BY <1>5, <2>1
  <2> QED
    BY <1>1, <1>4, <1>6, <2>1, <2>2 DEF Slides, CaughtUp, WatchedTo, StaysWatchedTo
<1>7. CASE pc # "walk"
  <2>1. Mark = inspected /\ Mark' = inspected /\ inspected <= Len(list)
    BY <1>1, <1>2, <1>7, Counters DEF Mark, Slides, Paced, pollVars
  <2>2. StaysWatchedTo(inspected)
    <3>1. inspected \in Int /\ WatchedTo(inspected)
      BY <1>7, <2>1, Counters DEF Slides, CaughtUp
    <3> QED
      BY <1>5, <2>1, <3>1
  <2> QED
    BY <1>1, <1>4, <1>7, <2>1, <2>2 DEF Slides, CaughtUp, WatchedTo, StaysWatchedTo
<1> QED
  BY <1>6, <1>7

\* Nothing of the list, or of what its entries are, changes.
LEMMA HeapSlides ==
  ASSUME TypeOK, Slides, NEW a \in Addr, Finish(a) \/ Overwrite(a)
  PROVE  Slides'
<1>1. UNCHANGED <<list, grew, shrank, walkVars, pollVars, pc>>
  BY DEF Finish, Overwrite
<1>2. \A i \in DOMAIN list : heap'[list[i]].kind = heap[list[i]].kind
  <2>1. heap \in [Addr -> Cell] /\ \A i \in DOMAIN list : list[i] \in Addr
    BY ListTypes DEF TypeOK
  <2>2. CASE Finish(a)
    BY <2>1, <2>2 DEF Finish, Cell
  <2>3. CASE Overwrite(a)
    <3>1. \A i \in DOMAIN list : list[i] # a
      BY <2>3 DEF Overwrite, Live
    <3> QED
      BY <2>1, <2>3, <3>1 DEF Overwrite
  <2> QED
    BY <2>2, <2>3
<1> QED
  BY <1>1, <1>2 DEF Slides, Paced, CaughtUp, WatchedTo, Mark, walkVars, pollVars

\* What slides down past the mark has been inspected: the mark slides with it.
LEMMA DemolishSlides ==
  ASSUME TypeOK, Slides, Removals = {}, NEW i \in DOMAIN list, Demolish(i)
  PROVE  Slides'
<1>1. /\ pc \notin {"walk", "read"} /\ ~grew
      /\ list' = RemoveAt(list, i) /\ shrank' = TRUE
      /\ UNCHANGED <<heap, grew, walkVars, pollVars, pc>>
  BY DEF Demolish
<1>2. /\ Len(list') = Len(list) - 1 /\ DOMAIN list' = 1 .. Len(list) - 1
      /\ \A j \in 1 .. Len(list) - 1 : list'[j] = IF j < i THEN list[j] ELSE list[j + 1]
  <2>1. /\ list' \in Seq(Addr) /\ Len(list') = Len(list) - 1
        /\ \A j \in 1 .. Len(list) - 1 : list'[j] = IF j < i THEN list[j] ELSE list[j + 1]
    BY <1>1, Removed DEF TypeOK
  <2>2. DOMAIN list' = 1 .. Len(list')
    BY <2>1
  <2> QED
    BY <2>1, <2>2
<1>3. Paced'
  BY <1>1, <1>2, Counters DEF Slides, Paced, pollVars
<1>4. CASE lastCount = 0
  <2>1. Mark' = inspected /\ inspected = 0
    BY <1>1, <1>2, <1>4, Counters DEF Mark, Slides, Paced, pollVars
  <2> QED
    BY <1>1, <1>2, <1>3, <2>1 DEF Slides, CaughtUp, WatchedTo
<1>5. CASE lastCount # 0
  <2>1. Len(list) <= lastCount
    BY <1>1, <1>5 DEF Slides, Paced
  <2>2. Mark' = Mark - 1 /\ Mark \in Int
    BY <1>1, <1>2, <2>1, Counters DEF Mark, pollVars
  <2>3. WatchedTo(Mark)
    BY <1>1 DEF Slides, CaughtUp
  <2>4. ASSUME NEW j \in 1 .. Len(list) - 1, j <= Mark - 1, heap[list'[j]].kind \in Slot
        PROVE  watched[list'[j]] # "none"
    <3>1. j \in DOMAIN list /\ j + 1 \in DOMAIN list /\ j <= Mark /\ j + 1 <= Mark
      BY <2>2, <2>4, Counters
    <3>2. list'[j] = list[j] \/ list'[j] = list[j + 1]
      BY <1>2
    <3> QED
      BY <2>3, <2>4, <3>1, <3>2 DEF WatchedTo
  <2>5. WatchedTo(Mark)'
    BY <1>1, <1>2, <2>2, <2>4 DEF WatchedTo, pollVars
  <2> QED
    BY <1>1, <1>3, <2>5 DEF Slides, CaughtUp
<1> QED
  BY <1>4, <1>5

\* A look at the entries up to a place leaves the tracked ones watched to it.
LEMMA InspectedTo ==
  ASSUME TypeOK, NEW from \in Nat, NEW to \in Nat, WatchedTo(from),
         watched' = Inspected(from, to), UNCHANGED <<list, heap>>
  PROVE  StaysWatchedTo(to)
<1> SUFFICES ASSUME NEW i \in DOMAIN list, i <= to, heap[list[i]].kind \in Slot
             PROVE  watched'[list[i]] # "none"
  BY DEF StaysWatchedTo
<1>1. list[i] \in Addr /\ i \in Nat
  BY Counters
<1>2. watched'[list[i]] =
        IF watched[list[i]] = "none" /\ list[i] \in InRange(from, to) /\ heap[list[i]].kind \in Slot
          THEN heap[list[i]].kind ELSE watched[list[i]]
  BY <1>1 DEF Inspected
<1>3. CASE i <= from
  BY <1>2, <1>3 DEF WatchedTo, Slot
<1>4. CASE from < i
  <2>1. list[i] \in InRange(from, to)
    BY <1>4 DEF InRange
  <2> QED
    BY <1>2, <2>1 DEF Slot
<1> QED
  BY <1>1, <1>3, <1>4

LEMMA WalkSlides == TypeOK /\ Slides /\ (WalkChunk \/ EndWalk) => Slides'
<1> SUFFICES ASSUME TypeOK, Slides, WalkChunk \/ EndWalk
             PROVE  Slides'
  OBVIOUS
<1>1. pc = "walk" /\ WatchedTo(index) /\ UNCHANGED <<gameVars, total>>
  BY DEF WalkChunk, EndWalk, Slides, CaughtUp, walkVars
<1>2. CASE WalkChunk
  <2>1. index' \in Nat
    BY <1>2, Counters, BuildingsAssumption DEF WalkChunk, Lesser
  <2>2. watched' = Inspected(index, index') /\ UNCHANGED <<list, heap>>
    BY <1>1, <1>2 DEF WalkChunk, gameVars
  <2>3. StaysWatchedTo(index')
    BY <1>1, <2>1, <2>2, InspectedTo, Counters
  <2>4. CaughtUp'
    BY <1>1, <1>2, <2>3 DEF WalkChunk, CaughtUp, WatchedTo, StaysWatchedTo
  <2> QED
    BY <1>1, <1>2, <2>4 DEF WalkChunk, Slides, Paced, gameVars
<1>3. CASE EndWalk
  <2>1. inspected' = total /\ lastCount' = total /\ pc' = "poll" /\ index = total /\ watched' = watched
    BY <1>3 DEF EndWalk
  <2>2. Paced'
    BY <1>1, <2>1, Counters DEF Slides, Paced, gameVars
  <2>3. Mark' = total
    BY <1>1, <2>1, Counters DEF Mark, Slides, Paced, gameVars
  <2> QED
    BY <1>1, <2>1, <2>2, <2>3 DEF Slides, CaughtUp, WatchedTo, gameVars
<1> QED
  BY <1>2, <1>3

LEMMA PollSlides == TypeOK /\ Slides /\ (PollCount \/ PollEntries) => Slides'
<1> SUFFICES ASSUME TypeOK, Slides, PollCount \/ PollEntries
             PROVE  Slides'
  OBVIOUS
<1>1. pc \in {"poll", "read"} /\ WatchedTo(Mark) /\ inspected <= lastCount /\ UNCHANGED <<list, heap>>
  BY DEF PollCount, PollEntries, gameVars, Slides, CaughtUp, Paced
<1>2. CASE PollCount
  <2>1. PICK count \in {Len(list), 0} : inspected' = Rewound(count) /\ lastCount' = count
    BY <1>2 DEF PollCount
  <2>2. grew' = FALSE /\ shrank' = FALSE /\ pc' = "read" /\ watched' = watched
    BY <1>2 DEF PollCount
  <2>3. inspected' \in Nat /\ inspected' <= count
    BY <1>1, <2>1, Counters DEF Rewound, Greater
  <2>4. Paced'
    BY <1>1, <2>1, <2>2, <2>3, Counters DEF Paced
  <2>5. Mark' = inspected'
    BY <1>1, <2>1, Counters DEF Mark
  <2>6. inspected' = 0 \/ inspected' = Mark
    BY <1>1, <2>1, Counters DEF Rewound, Greater, Mark
  <2>7. StaysWatchedTo(inspected')
    <3>1. CASE inspected' = 0
      BY <1>1, <3>1, Counters DEF StaysWatchedTo
    <3>2. CASE inspected' = Mark
      BY <1>1, <2>2, <3>2 DEF WatchedTo, StaysWatchedTo
    <3> QED
      BY <2>6, <3>1, <3>2
  <2> QED
    BY <2>2, <2>4, <2>5, <2>7 DEF Slides, CaughtUp, WatchedTo, StaysWatchedTo
<1>3. CASE PollEntries
  <2>1. /\ watched' = Inspected(inspected, Catch) /\ inspected' = Catch
        /\ pc = "read" /\ pc' = "poll" /\ UNCHANGED <<grew, shrank, lastCount>>
    BY <1>3 DEF PollEntries, gameVars
  <2>2. Catch \in Nat /\ Catch <= lastCount
    BY <1>1, Counters, BuildingsAssumption DEF Catch, Lesser
  <2>3. ~shrank /\ Len(list) >= lastCount
    BY <2>1 DEF Slides, Paced
  <2>4. Mark = inspected /\ Mark' = Catch
    BY <1>1, <2>1, <2>3, Counters DEF Mark
  <2>5. StaysWatchedTo(Catch)
    <3>1. WatchedTo(inspected) /\ inspected \in Nat
      BY <1>1, <2>4, Counters
    <3> QED
      BY <1>1, <2>1, <2>2, <3>1, InspectedTo
  <2>6. Paced'
    BY <1>1, <2>1, <2>2, <2>3 DEF Slides, Paced
  <2> QED
    BY <1>1, <2>1, <2>4, <2>5, <2>6 DEF Slides, CaughtUp, WatchedTo, StaysWatchedTo
<1> QED
  BY <1>2, <1>3

\* Where nothing is removed under the opening walk, between a count and its
\* entries or between the same two counts as a placement, every tracked building
\* the mark has passed is watched, however the list grows and slides meanwhile
\* and whatever counts fail to be read.
THEOREM NothingSlipsUnderTheMark ==
  ASSUME Removals = {}
  PROVE  Spec => []BelowTheMarkIsWatched
<1>1. TypeOK /\ Slides /\ [Next]_vars => Slides'
  <2> SUFFICES ASSUME TypeOK, Slides, [Next]_vars
               PROVE  Slides'
    OBVIOUS
  <2>1. CASE UNCHANGED vars
    BY <2>1 DEF vars, gameVars, walkVars, pollVars, Slides, Paced, CaughtUp, WatchedTo, Mark
  <2>2. CASE GameNext
    BY <2>2, PlaceSlides, HeapSlides, DemolishSlides DEF GameNext
  <2> QED
    BY <2>1, <2>2, WalkSlides, PollSlides DEF Next, SplitterNext
<1>2. Slides => BelowTheMarkIsWatched
  BY DEF Slides, CaughtUp, WatchedTo, BelowTheMarkIsWatched
<1> QED
  BY <1>1, <1>2, InitSlides, BuildingsTypeCorrect, PTL DEF Spec
=============================================================================
