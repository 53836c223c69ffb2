-------------------------------- MODULE Scan --------------------------------
(***************************************************************************)
(* The sweep of the heap for the instances of a class (src/src/scan.rs).   *)
(*                                                                         *)
(* The mapped ranges are listed once, and read over many ticks a chunk at  *)
(* a time: what the list and the chunk say is old by the time it is used.  *)
(* Memory is counted in pages, with one word of interest on a page; an     *)
(* object is named by its page.                                            *)
(***************************************************************************)
EXTENDS FiniteSets, Integers

CONSTANTS
  Range,        \* the ranges memory may be mapped in, in address order
  Base, Size,   \* of each: its first page, and its pages
  CHUNK,        \* pages to a bulk read
  Limit,        \* instances after which the scan stops
  MaxWords      \* bound: words of interest in memory at a time

PagesOf(r) == Base[r] .. Base[r] + Size[r] - 1
Page       == UNION {PagesOf(r) : r \in Range}

ASSUME ScanAssumption ==
  /\ Range \subseteq Nat
  /\ Base \in [Range -> Nat] /\ Size \in [Range -> Nat \ {0}]
  /\ \A r, s \in Range : r < s => Base[r] + Size[r] <= Base[s]
  /\ CHUNK \in Nat \ {0} /\ Limit \in Nat \ {0} /\ MaxWords \in Nat

VARIABLES
  mapped,         \* the ranges that are mapped readable and writable
  open,           \* the pages that can be read just now
  word,           \* what is on each page
  pc,             \* Idle, Sweep, Done
  ranges,         \* the ranges listed when the scan began
  left,           \* those from range_index on
  offset,         \* pages read of the range at range_index
  pages,          \* of a chunk that failed as a whole: those still to try
  matches,        \* in the buffer, not validated yet
  found, rejected,
  anchor_ranges,  \* ranges a pointer to the anchor was seen in
  unreadable,     \* pages no read succeeded for (bytes_unreadable)
  lasting,        \* history: instances there ever since the scan began
  steady,         \* history: words unchanged and readable ever since
  stopped         \* the limit ended the scan

gameVars == <<mapped, open, word>>
readVars == <<ranges, left, offset, pages>>
resultVars == <<found, rejected, anchor_ranges, unreadable>>
vars == <<gameVars, pc, readVars, matches, resultVars, lasting, steady, stopped>>

\* An object the constructor has not given its event bus yet, like a word of
\* Mono's own metadata, reads as an instance and does not validate.
\* A pointer is a word that holds the anchor.
Word    == {"none", "half", "instance", "pointer"}

Instances == {p \in Page : word[p] = "instance"}

TypeOK ==
  /\ mapped \subseteq Range
  /\ open \subseteq UNION {PagesOf(r) : r \in mapped}
  /\ word \in [Page -> Word]
  /\ pc \in {"Idle", "Sweep", "Done"}
  /\ ranges \subseteq Range /\ left \subseteq ranges
  /\ offset \in Nat
  /\ {pages, matches} \subseteq SUBSET Page
  /\ {found, rejected, unreadable, lasting, steady} \subseteq SUBSET Page
  /\ anchor_ranges \subseteq Range
  /\ stopped \in BOOLEAN

Init ==
  /\ mapped \in SUBSET Range
  /\ open = UNION {PagesOf(r) : r \in mapped}
  /\ word = [p \in Page |-> "none"]
  /\ pc = "Idle"
  /\ ranges = {} /\ left = {} /\ offset = 0
  /\ pages = {} /\ matches = {}
  /\ found = {} /\ rejected = {} /\ anchor_ranges = {} /\ unreadable = {}
  /\ lasting = {} /\ steady = {} /\ stopped = FALSE

(***************************************************************************)
(* The game.                                                               *)
(***************************************************************************)
\* What the game does to `gone` is remembered.
Forget(gone, shut) ==
  /\ lasting' = lasting \ gone
  /\ steady' = steady \ (gone \cup shut)
  /\ UNCHANGED <<pc, readVars, matches, resultVars, stopped>>

Write(p, from, to) ==
  /\ p \in open /\ word[p] \in from
  /\ Cardinality({q \in Page : word[q] # "none"}) < MaxWords \/ from # {"none"}
  /\ word' = [word EXCEPT ![p] = to]
  /\ Forget({p}, {})
  /\ UNCHANGED <<mapped, open>>

Build(p)   == \E w \in {"half", "pointer"} : Write(p, {"none"}, w)
Inject(p)  == Write(p, {"half"}, "instance")
Collect(p) == Write(p, {"half", "instance", "pointer"}, "none")

\* A page cannot be read for a while, as during the teardown of a scene.
Shut(p) ==
  /\ p \in open
  /\ open' = open \ {p}
  /\ Forget({}, {p})
  /\ UNCHANGED <<mapped, word>>

Reopen(p) ==
  /\ p \notin open /\ \E r \in mapped : p \in PagesOf(r)
  /\ open' = open \cup {p}
  /\ Forget({}, {})
  /\ UNCHANGED <<mapped, word>>

Map(r) ==
  /\ r \notin mapped
  /\ mapped' = mapped \cup {r}
  /\ open' = open \cup PagesOf(r)
  /\ Forget({}, {})
  /\ UNCHANGED word

Unmap(r) ==
  /\ r \in mapped
  /\ mapped' = mapped \ {r}
  /\ open' = open \ PagesOf(r)
  /\ word' = [p \in Page |-> IF p \in PagesOf(r) THEN "none" ELSE word[p]]
  /\ Forget(PagesOf(r), {})

(***************************************************************************)
(* The scan.                                                               *)
(***************************************************************************)
\* The ranges are listed once; a dying process lists none.
New ==
  /\ pc = "Idle"
  /\ pc' = "Sweep"
  /\ ranges' \in {mapped, {}}
  /\ left' = ranges' /\ offset' = 0
  /\ pages' = {} /\ matches' = {}
  /\ found' = {} /\ rejected' = {} /\ anchor_ranges' = {} /\ unreadable' = {}
  /\ lasting' = Instances
  /\ steady' = {p \in open : word[p] # "none"}
  /\ stopped' = FALSE
  /\ UNCHANGED gameVars

\* The work goes up the addresses: the range, the page or the match is next.
IsNext(x, S) == x \in S /\ \A y \in S : x <= y

ReadyToRead == pc = "Sweep" /\ ~stopped /\ pages = {} /\ matches = {}

NextRange(r) ==
  /\ ReadyToRead
  /\ IsNext(r, left) /\ offset >= Size[r]
  /\ left' = left \ {r}
  /\ offset' = 0
  /\ UNCHANGED <<gameVars, pc, ranges, pages, matches, resultVars, lasting, steady, stopped>>

\* What is left of the range, up to a chunk.
Chunk(r) == {p \in PagesOf(r) : Base[r] + offset <= p /\ p < Base[r] + offset + CHUNK}

Holding(ps, words) == {p \in ps : word[p] \in words}

\* A buffer that was just read: the anchor is noticed in it first, and then its
\* matches are validated one by one.
Examine(r, ps) ==
  /\ matches' = Holding(ps, {"half", "instance"})
  /\ anchor_ranges' = IF Holding(ps, {"pointer"}) = {}
                        THEN anchor_ranges
                        ELSE anchor_ranges \cup {r}

\* Mutant of ReadChunk: the place is kept, to try the chunk again.
ReadChunk_Retries(r) ==
  /\ ReadyToRead
  /\ IsNext(r, left) /\ offset < Size[r]
  /\ IF Chunk(r) \subseteq open
       THEN Examine(r, Chunk(r)) /\ offset' = offset + CHUNK
       ELSE UNCHANGED <<matches, anchor_ranges, offset>>
  /\ UNCHANGED <<gameVars, pc, ranges, left, pages, found, rejected, unreadable, lasting,
                 steady, stopped>>

\* A chunk with one page that cannot be read fails as a whole, and is tried
\* again a page at a time.
ReadChunk(r) ==
  /\ ReadyToRead
  /\ IsNext(r, left) /\ offset < Size[r]
  /\ IF Chunk(r) \subseteq open
       THEN Examine(r, Chunk(r)) /\ UNCHANGED pages
       ELSE pages' = Chunk(r) /\ UNCHANGED <<matches, anchor_ranges>>
  /\ offset' = offset + CHUNK
  /\ UNCHANGED <<gameVars, pc, ranges, left, found, rejected, unreadable, lasting, steady,
                 stopped>>

\* Mutant of ReadPage: a page that failed is not counted.
ReadPage_Uncounted(r, p) ==
  /\ pc = "Sweep" /\ matches = {}
  /\ IsNext(r, left) /\ IsNext(p, pages)
  /\ pages' = pages \ {p}
  /\ IF p \in open THEN Examine(r, {p}) ELSE UNCHANGED <<matches, anchor_ranges>>
  /\ UNCHANGED <<gameVars, pc, ranges, left, offset, found, rejected, unreadable, lasting,
                 steady, stopped>>

\* Mutant of ReadPage: the first page that fails gives up the rest of the chunk.
ReadPage_GivesUp(r, p) ==
  /\ pc = "Sweep" /\ matches = {}
  /\ IsNext(r, left) /\ IsNext(p, pages)
  /\ IF p \in open
       THEN Examine(r, {p}) /\ pages' = pages \ {p} /\ UNCHANGED unreadable
       ELSE /\ unreadable' = unreadable \cup pages
            /\ pages' = {}
            /\ UNCHANGED <<matches, anchor_ranges>>
  /\ UNCHANGED <<gameVars, pc, ranges, left, offset, found, rejected, lasting, steady, stopped>>

ReadPage(r, p) ==
  /\ pc = "Sweep" /\ matches = {}
  /\ IsNext(r, left) /\ IsNext(p, pages)
  /\ pages' = pages \ {p}
  /\ IF p \in open
       THEN Examine(r, {p}) /\ UNCHANGED unreadable
       ELSE unreadable' = unreadable \cup {p} /\ UNCHANGED <<matches, anchor_ranges>>
  /\ UNCHANGED <<gameVars, pc, ranges, left, offset, found, rejected, lasting, steady, stopped>>

\* Validator::accepts, which reads the candidate now.
Accepts(p) == p \in open /\ word[p] = "instance"

\* The limit, when it is reached, ends the scan where it is.
Take(p) ==
  /\ pc = "Sweep"
  /\ IsNext(p, matches) /\ Accepts(p)
  /\ found' = found \cup {p}
  /\ stopped' = (Cardinality(found') >= Limit)
  /\ matches' = IF stopped' THEN {} ELSE matches \ {p}
  /\ pages' = IF stopped' THEN {} ELSE pages
  /\ UNCHANGED <<gameVars, pc, ranges, left, offset, rejected, anchor_ranges, unreadable,
                 lasting, steady>>

Reject(p) ==
  /\ pc = "Sweep"
  /\ IsNext(p, matches) /\ ~Accepts(p)
  /\ rejected' = rejected \cup {p}
  /\ matches' = matches \ {p}
  /\ UNCHANGED <<gameVars, pc, readVars, found, anchor_ranges, unreadable, lasting, steady,
                 stopped>>

Finish ==
  /\ pc = "Sweep"
  /\ stopped \/ (ReadyToRead /\ left = {})
  /\ pc' = "Done"
  /\ UNCHANGED <<gameVars, readVars, matches, resultVars, lasting, steady, stopped>>

\* Mutant of is_conclusive: an address space without ranges counts as read.
is_conclusive_Vacuous == unreadable = {}

is_conclusive == ranges # {} /\ unreadable = {}

GameNext ==
  \/ \E p \in Page : Build(p) \/ Inject(p) \/ Collect(p) \/ Shut(p) \/ Reopen(p)
  \/ \E r \in Range : Map(r) \/ Unmap(r)

Step ==
  \/ \E r \in left : NextRange(r) \/ ReadChunk(r) \/ \E p \in pages : ReadPage(r, p)
  \/ \E p \in matches : Take(p) \/ Reject(p)
  \/ Finish

\* One scan, over when it is done; the next one starts from nothing.
Next == (pc # "Done" /\ GameNext) \/ New \/ Step

Spec == Init /\ [][Next]_vars

\* The task is polled until the scan is done.
FairSpec == Spec /\ WF_vars(Step)

(***************************************************************************)
(* Properties.                                                             *)
(***************************************************************************)
\* What was readable and unchanged all along has been seen, whatever happened
\* around it: the instances are found, and the ranges that point at the anchor
\* are noticed, unless the limit ended the scan before it came to them.
SteadyIsFound ==
  pc = "Done" /\ ~stopped /\ ranges # {} =>
    \A p \in steady :
      /\ word[p] = "instance" => p \in found
      /\ word[p] = "pointer"  => \E r \in anchor_ranges : p \in PagesOf(r)

\* The scan keeps the promise of a search: above all, one that is called
\* conclusive and found nothing has met every instance that was there throughout,
\* and failed to validate it.
Promise == INSTANCE Search WITH
  Object     <- Page,
  there      <- Instances,
  visible    <- Instances \cap open,
  searching  <- pc = "Sweep",
  answer     <- found,
  refused    <- rejected,
  conclusive <- pc = "Done" /\ is_conclusive

KeepsPromise == Promise!Spec

\* However often the game interferes, the scan comes to its end.
SweepEnds == pc = "Sweep" ~> pc = "Done"
=============================================================================
