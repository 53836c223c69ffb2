------------------------------ MODULE Recorder ------------------------------
(***************************************************************************)
(* Recording a game: `take` of src/tb-record/src/linux.rs, `capture`,      *)
(* `Frozen` and its signal handler, and the store of captures with the     *)
(* reads it serves (capture.rs, freeze.rs and snapshot.rs of               *)
(* src/test-harness/src).                                                  *)
(*                                                                         *)
(* Every step stops the game, reads its memory, and keeps the chunks that  *)
(* differ from the step before.  A test later reads the step through the   *)
(* chain of what it was made against.                                      *)
(***************************************************************************)
EXTENDS Integers, Sequences, FiniteSets

CONSTANTS
  Size,        \* addresses of the game
  CHUNK,       \* size of a chunk
  Value,       \* what a word may hold
  NoValue,     \* a word that cannot be read
  Layouts,     \* mappings the game may have: sets of ranges
  MAX_STEPS,   \* steps in a recording
  MaxChanges   \* bound: what the game does to its memory

Addr == 1 .. Size
Area == [address : Addr, size : Addr]
PagesOf(r) == r.address .. r.address + r.size - 1

ASSUME RecorderAssumption ==
  /\ {Size, CHUNK, MAX_STEPS} \subseteq Nat \ {0} /\ MaxChanges \in Nat
  /\ Layouts \subseteq SUBSET Area /\ NoValue \notin Value
  /\ \A layout \in Layouts : \A r, s \in layout :
       PagesOf(r) \subseteq Addr /\ (r # s => PagesOf(r) \cap PagesOf(s) = {})

VARIABLES
  game,      \* running, posted (a stop was sent to it), stopped, gone
  layout, value,
  bad,       \* an address that cannot be read, 0 where there is none
  changes,
  FROZEN,    \* the pid is noted for the signal handler
  phase,     \* Idle, Listed, Sent, Posted, Reading, Read, Described, Dead
  mapped,    \* the mappings found before the game was stopped
  left,      \* those still to read
  stored, chunks,  \* Writer
  steps,     \* the recording so far
  moment,    \* history: the game's memory when it was reported as stopped
  stranded   \* history: the way out that left the game as it is, or none

gameVars   == <<game, layout, value, bad, changes>>
writerVars == <<mapped, left, stored, chunks>>
recorderVars == <<gameVars, FROZEN, phase, writerVars, steps, moment, stranded>>

\* The stop was reported too late, a signal came before the pid was noted, or a
\* kill that no handler sees (or a power cut) came between stop and resume.
WaysOut == {"late", "early", "killed"}

Stored == [address : Addr, size : Addr, readable : BOOLEAN]
ChunkAt(a, bytes) == [address |-> a, bytes |-> bytes]
Memory == [Addr -> Value \cup {NoValue}]

RecorderTypeOK ==
  /\ game \in {"running", "posted", "stopped", "gone"}
  /\ layout \in Layouts /\ value \in [Addr -> Value] /\ bad \in Addr \cup {0}
  /\ changes \in 0 .. MaxChanges
  /\ FROZEN \in BOOLEAN /\ stranded \in {"none"} \cup WaysOut
  /\ phase \in {"Idle", "Listed", "Sent", "Posted", "Reading", "Read", "Described", "Dead"}
  /\ left \subseteq mapped /\ mapped \subseteq Area
  /\ stored \subseteq Stored
  /\ \A c \in chunks : c.address \in Addr /\ c.bytes \in Seq(Value)
  \* What was written says of every range that was listed what became of it.
  /\ Cardinality(stored) = Cardinality(mapped \ left)
  /\ Len(steps) <= MAX_STEPS
  /\ \A i \in 1 .. Len(steps) : steps[i].stored \subseteq Stored /\ steps[i].indexed \in BOOLEAN
  /\ moment \in Memory

Readable(a) == a # bad /\ \E r \in layout : a \in PagesOf(r)

RecorderInit ==
  /\ game = "running" /\ layout \in Layouts /\ value \in {[a \in Addr |-> v] : v \in Value}
  /\ bad = 0 /\ changes = 0
  /\ FROZEN = FALSE /\ phase = "Idle"
  /\ mapped = {} /\ left = {} /\ stored = {} /\ chunks = {}
  /\ steps = <<>> /\ moment = [a \in Addr |-> NoValue] /\ stranded = "none"

(***************************************************************************)
(* The game and the kernel.                                                *)
(***************************************************************************)
recorderUnchanged == UNCHANGED <<FROZEN, phase, writerVars, steps, moment, stranded>>

\* A signal is only posted: until it has stopped, the game goes on.
Alter ==
  /\ game \in {"running", "posted"} /\ changes < MaxChanges /\ changes' = changes + 1
  /\ \/ \E a \in Addr, v \in Value :
          value' = [value EXCEPT ![a] = v] /\ UNCHANGED <<layout, bad>>
     \/ layout' \in Layouts /\ UNCHANGED <<value, bad>>
     \/ bad' \in Addr \cup {0} /\ UNCHANGED <<layout, value>>
  /\ UNCHANGED game /\ recorderUnchanged

Stopped ==
  /\ game = "posted" /\ game' = "stopped"
  /\ UNCHANGED <<layout, value, bad, changes>> /\ recorderUnchanged

Exit ==
  /\ game \in {"running", "posted"} /\ game' = "gone"
  /\ UNCHANGED <<layout, value, bad, changes>> /\ recorderUnchanged

Continued == IF game = "gone" THEN "gone" ELSE "running"

(***************************************************************************)
(* The store: what a step serves.                                          *)
(***************************************************************************)
\* An index that was not written reads as one without records.
Chunks(i) == IF steps[i].indexed THEN steps[i].chunks ELSE {}

Lowest(S)  == CHOOSE x \in S : \A y \in S : x <= y
Highest(S) == CHOOSE x \in S : \A y \in S : y <= x
Least(m, n) == IF m <= n THEN m ELSE n

chunk_at(i, a) ==
  {c \in Chunks(i) : c.address <= a /\ a < c.address + Len(c.bytes)}

\* Mutant of Boundary: the read goes on in the base to its end.
Boundary_Ignored(i, at, remaining) == remaining

\* How much of a read may fall through to the base: up to the next own chunk.
Boundary(i, at, remaining) ==
  LET after == {c.address : c \in {d \in Chunks(i) : d.address > at}}
  IN IF after = {} THEN remaining ELSE Least(Lowest(after) - at, remaining)

\* m words from address a on, of step j and of what it was made against.  A
\* read that fails is empty.
read[j \in 0 .. Len(steps)] ==
  [a \in Int |-> [m \in Nat |->
     IF m = 0 \/ j = 0 THEN <<>>
     ELSE LET own   == chunk_at(j, a)
              c     == CHOOSE c \in own : TRUE
              part  == IF own # {} THEN Least(c.address + Len(c.bytes) - a, m)
                       ELSE Boundary(j, a, m)
              first == IF own # {}
                         THEN SubSeq(c.bytes, a - c.address + 1, a - c.address + part)
                         ELSE read[j - 1][a][part]
              rest  == read[j][a + part][m - part]
          IN IF first = <<>> \/ (part < m /\ rest = <<>>) THEN <<>> ELSE first \o rest]]

read_through(i, a, n) == read[i][a][n]

\* A read that leaves the range it began in fails as a whole.
Contained(i, a, n) ==
  \E s \in steps[i].stored :
    s.address <= a /\ s.readable /\ a + n <= s.address + s.size

Served(i, a, n) == IF Contained(i, a, n) THEN read_through(i, a, n) ELSE <<>>

(***************************************************************************)
(* take and capture.                                                       *)
(***************************************************************************)
List ==
  /\ phase = "Idle" /\ game # "gone" /\ Len(steps) < MAX_STEPS
  /\ phase' = "Listed"
  /\ mapped' = layout /\ left' = layout /\ stored' = {} /\ chunks' = {}
  /\ UNCHANGED <<gameVars, FROZEN, steps, moment, stranded>>

SendStop ==
  /\ phase = "Listed"
  /\ IF game = "gone" THEN phase' = "Dead" /\ UNCHANGED game
                      ELSE phase' = "Sent" /\ game' = "posted"
  /\ UNCHANGED <<layout, value, bad, changes, FROZEN, writerVars, steps, moment, stranded>>

NotePid ==
  /\ phase = "Sent"
  /\ phase' = "Posted" /\ FROZEN' = TRUE
  /\ UNCHANGED <<gameVars, writerVars, steps, moment, stranded>>

Snapped == [a \in Addr |-> IF Readable(a) THEN value[a] ELSE NoValue]

\* Mutant of Reported: what was sent counts as done.
Reported_AtOnce ==
  /\ phase = "Posted" /\ game \in {"posted", "stopped"}
  /\ phase' = "Reading" /\ moment' = Snapped
  /\ UNCHANGED <<gameVars, FROZEN, writerVars, steps, stranded>>

\* The kernel says that it stopped.
Reported ==
  /\ phase = "Posted" /\ game = "stopped"
  /\ phase' = "Reading" /\ moment' = Snapped
  /\ UNCHANGED <<gameVars, FROZEN, writerVars, steps, stranded>>

Disappeared ==
  /\ phase = "Posted" /\ game = "gone"
  /\ phase' = "Dead" /\ FROZEN' = FALSE
  /\ UNCHANGED <<gameVars, writerVars, steps, moment, stranded>>

\* A second goes by.  There is no guard yet, so nothing resumes the game.
TimedOut ==
  /\ phase = "Posted" /\ game = "posted"
  /\ phase' = "Dead" /\ stranded' = "late"
  /\ UNCHANGED <<gameVars, FROZEN, writerVars, steps, moment>>

Bytes(r) == [k \in 1 .. r.size |-> value[r.address + k - 1]]

\* The chunks a range's bytes fall into, the last one shorter.
ChunksOf(r) ==
  {ChunkAt(r.address + at, SubSeq(Bytes(r), at + 1, Least(at + CHUNK, r.size))) :
     at \in {k \in 0 .. r.size - 1 : k % CHUNK = 0}}

\* A full capture keeps the range; a delta, the chunks its base does not serve.
Kept(r) ==
  IF steps = <<>> THEN {ChunkAt(r.address, Bytes(r))}
  ELSE {c \in ChunksOf(r) : Served(Len(steps), c.address, Len(c.bytes)) # c.bytes}

\* One word of it that cannot be read, and the range is recorded without bytes.
ReadRange(r) ==
  /\ phase = "Reading" /\ r \in left /\ left' = left \ {r}
  /\ LET whole == \A a \in PagesOf(r) : Readable(a)
     IN /\ stored' = stored \cup {[address |-> r.address, size |-> r.size, readable |-> whole]}
        /\ chunks' = IF whole THEN chunks \cup Kept(r) ELSE chunks
  /\ UNCHANGED <<gameVars, FROZEN, phase, mapped, steps, moment, stranded>>

\* The guard is dropped.
Resume(next) ==
  /\ phase' = next /\ FROZEN' = FALSE /\ game' = Continued
  /\ UNCHANGED <<layout, value, bad, changes, writerVars, steps, moment, stranded>>

\* Mutant of EndReading: the guard lives until the capture was written.
EndReading_Holds ==
  /\ phase = "Reading" /\ left = {}
  /\ phase' = "Read"
  /\ UNCHANGED <<gameVars, FROZEN, writerVars, steps, moment, stranded>>

EndReading == phase = "Reading" /\ left = {} /\ Resume("Read")

\* The disk is full: an error return drops the guard too.
WriteFails == phase = "Reading" /\ Resume("Dead")

\* The manifest makes the directory a capture; the index of its chunks follows.
Describe ==
  /\ phase = "Read"
  /\ steps' = Append(steps, [stored |-> stored, chunks |-> chunks, indexed |-> FALSE])
  /\ phase' = "Described"
  /\ UNCHANGED <<gameVars, FROZEN, writerVars, moment, stranded>>

Index ==
  /\ phase = "Described"
  /\ steps' = [steps EXCEPT ![Len(steps)].indexed = TRUE]
  /\ phase' = "Idle"
  /\ mapped' = {} /\ left' = {} /\ stored' = {} /\ chunks' = {}
  /\ UNCHANGED <<gameVars, FROZEN, moment, stranded>>

\* Mutant of Interrupt: a terminating signal has no handler.
Interrupt_Unhandled ==
  /\ phase # "Dead" /\ phase' = "Dead"
  /\ stranded' = IF phase = "Sent" THEN "early" ELSE "none"
  /\ UNCHANGED <<gameVars, FROZEN, writerVars, steps, moment>>

\* Ctrl-C, or the terminal goes: the handler resumes the pid that was noted,
\* which also takes back a stop that was only posted.
Interrupt ==
  /\ phase # "Dead" /\ phase' = "Dead"
  /\ game' = IF FROZEN THEN Continued ELSE game
  /\ FROZEN' = FALSE
  /\ stranded' = IF phase = "Sent" THEN "early" ELSE "none"
  /\ UNCHANGED <<layout, value, bad, changes, writerVars, steps, moment>>

\* An end that runs neither handler nor guard.
Kill ==
  /\ phase # "Dead" /\ phase' = "Dead"
  /\ stranded' = IF phase \in {"Sent", "Posted", "Reading"} THEN "killed" ELSE "none"
  /\ UNCHANGED <<gameVars, FROZEN, writerVars, steps, moment>>

GameNext == Alter \/ Stopped \/ Exit

take ==
  \/ List \/ SendStop \/ NotePid \/ Reported \/ Disappeared
  \/ \E r \in left : ReadRange(r)
  \/ EndReading \/ Describe \/ Index

RecorderNext == GameNext \/ take \/ TimedOut \/ WriteFails \/ Interrupt \/ Kill

RecorderSpec == RecorderInit /\ [][RecorderNext]_recorderVars

\* The recorder runs, and the kernel delivers the signal.
FairRecorderSpec == RecorderSpec /\ WF_recorderVars(take) /\ WF_recorderVars(Stopped)

(***************************************************************************)
(* Properties                                                              *)
(***************************************************************************)
\* A recorded step, read through however many steps it was made against, is the
\* game's memory at the one instant it was reported as stopped: every read is of
\* that memory or fails, and fails only where a range could not be read or was
\* not listed.  Checked as a step is completed; a manifest left without its
\* index is not a completed step.
InstantIsKept ==
  phase = "Idle" /\ steps # <<>> =>
    LET i == Len(steps) IN
    \A a \in Addr : \A n \in 1 .. Size + 1 - a :
      Served(i, a, n) =
        IF Contained(i, a, n) THEN [k \in 1 .. n |-> moment[a + k - 1]] ELSE <<>>

\* A recorder that ended has not left the game stopped, whatever ended it and
\* whenever, except by one of WaysOut: also a kill does not if it comes before
\* the stop is sent or once the memory is read, while the capture is written.
NotLeftStopped ==
  phase = "Dead" /\ stranded = "none" => game \in {"running", "gone"}

\* A stopped game runs again.
GameGoesOn == game = "stopped" ~> game # "stopped" \/ stranded # "none"
=============================================================================
