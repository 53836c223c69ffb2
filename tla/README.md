# TLA+ models of the Timberborn autosplitter

The autosplitter is a WebAssembly module a speedrun timer loads. It reads the
memory of a running Timberborn (a Unity/Mono game) from outside, and starts the
runner's timer, splits it and sets its game time from what it reads. Nothing in
the game tells it anything: every fact is a pointer chase through memory that
changes, is freed and is reused while it is read. That is where the program is
hard, and what these modules are about.

Paths are relative to the repository (`src/lib.rs` here is the splitter's
`lib.rs`; `PROJECT.json` names each definition's lines).

## The system

| Part | Code | State it keeps | Module |
|---|---|---|---|
| Main loop `run`, scene watcher `SceneLoad` | `src/lib.rs` | the loading flag as last read, what loaded, the instance and container to skip, counters of empty scans and table attempts | `Lifecycle`, `Containers` |
| Run-start watcher `RunStart` | `src/lib.rs` | one `GameInitializer`'s address, what the loader said of the game, `seen_before_ui`, `fired`, the last state read | `RunStart`, `Lifecycle` |
| One game: `watch` and its watchers | `src/lib.rs` | which services are resolved, what each has reported, `run_began`, the flags of the three ends | `Splits` |
| Building splits `Buildings` | `src/lib.rs` | how much of the entity list is inspected, its last count, watched addresses, finished slots | `Buildings` |
| Game clock and game time | `src/clock.rs` | the cached length of a day; the baseline, whether the host's clock is paused | `GameTime` |
| Container registry | `src/singletons.rs` | the container found, its singletons | `Containers` (which one), `Splits` (what it holds) |
| Reference table | `src/table.rs` | the table found, its extent, its misses | `Containers` (its life), `Find` (what is read from it) |
| Search by type | `src/service.rs` | nothing between calls | `Search` (its promise), `Find`; as a search that may miss in `Lifecycle`, `Containers` |
| Heap scan | `src/scan.rs` | page ranges left, the place in them, matches, readable and unreadable bytes | `Scan` |
| Signals of a game: wonder, bots, well-being | `src/lib.rs`, `src/collections.rs` | the count and the flags each watcher remembers | `Signals` (values), `Splits` (flags) |
| Attaching | `src/lib.rs` | the pids that were ruled out, passes waited, the tick rate | `Attach` |
| Captures and the recorder | `test-harness/src`, `tb-record/src` | a frozen pid; a chain of captures | `Recorder` |
| Settings, status line, probe | `src/*.rs` | a record of booleans; the last text; nothing | constants; part of `Attach`, `Lifecycle`; not modelled |
| Test harness, fixture tools, `devtools` | other crates | the script, a process's maps | not modelled |

How they interact. There is one cooperative task: `main` attaches and calls
`run` with the process, and drops it when the process closes; `run` waits a load
out, finds the game's container and
calls `watch`; `watch` polls everything once a tick and returns when the scene
is replaced. The task runs undisturbed from one `next_tick().await` to the
next, so the processes that interleave are **the task and the game**, at two
grains:

* a search, a sweep, the opening walk of the entities and the re-reading of a
  container await many ticks: the game moves arbitrarily far in between, and
  what the code read before the await it uses after it. Those operations are
  split into two (or more) actions in the models;
* even between two reads of one tick the game's own threads run. Where that
  matters (the clock's four fields, the entity count and the entries) each read
  is an action.

The runner is the third actor: he starts and resets the timer when he likes. So
is the operating system, where processes come, go and hand on their numbers.
The recorder is a program of its own: it stops the game, copies its memory and
writes what differs from the last copy, and tests read it back.

### What is hard, part by part, and what makes each part right

* **Scenes.** The loading flag rises before the parameters change; objects of
  the scene that was left still validate, and read as anything once their
  memory is reused. Right is: what the splitter takes for the scene is the one
  that is up (`LoadedIsCurrent`), and nothing is said on the menu
  (`QuietOnTheMenu`).
* **Run starts.** A watcher may be bound before, during or after the moment it
  waits for, to the right object, the last game's or memory that was freed.
  Right is `RunTimer`: started only for a new game, once, after its overlay
  (`StartsOnlyRuns`, which the code keeps but for what the container scan reads in
  a freed object); and no game is forgotten (`GamesAreFollowed`).
* **Game time.** A reading is put together from four reads of a clock that
  runs. Right is: never ahead, at most a tick behind, measured from the last
  run start and no earlier one, and correct again when disturbances end.
* **Buildings.** A list that grows at the end and shrinks in the middle is
  followed by a mark. Right is: nothing slips under the mark, no split is false
  or repeated, each one comes.
* **Splits of a game.** A save restores what was done in it, part way through
  its initialization; services appear late; objects are lost and found again.
  Right is: only news is split for, ends once, nothing is missed.
* **Containers and the table.** Games that were left leave containers behind;
  the table asked before a sweep may be one the runtime no longer uses. Right
  is: the container watched is this game's (the code skips one left container, and
  it is where that is the only one), and each game is bound in the end.
* **Searches.** The ranges, the table's extent, a chunk and a match are each old
  by the time the next step uses them. Right is: what stood still is found
  whatever moved around it, nothing is taken that is not there, and an empty
  answer called conclusive hides nothing that was there all along.
* **Signals.** A count is remembered before the set it counts is read; a read
  that fails looks like a thing not done. Right is: no unlock is slept through,
  what a save restored stays quiet, what happens is heard.
* **Attaching.** A name is any Unity title's, a module is mapped late, a number
  belongs to another process a second later. Right is: what is held is the game,
  and a game is found while candidates are ruled out and forgotten around it.
* **Recording.** Stopping is asynchronous, the mappings are listed before it, and
  a step is only what differs from another. Right is: a step reads back as the
  memory of one instant, and the game is running when the recorder is gone, in all
  but the three ways that are known.

`PROJECT.json` lists these hazards with their lines (`hazards`), those no
property covers with the reason.

## The modules

**`RunStart`** is the data: a watcher as a record and the pure functions of one
poll (`Polled`, `Announces`, `ArrivesLate`), of the bind (`Bound`) and of the
correction after the load (`ExpectNewGame`). The initialization state is an
`i32` from 0 to 5 the code compares with `ShowUI` and `Finished` only, so the
four values below are one, `Waiting`.

**`GameWorld`** is the game: the loader's flag and parameters, and a heap of
slots where `GameInitializer`s are built, injected, step on, are left behind,
rot and are reclaimed. It is external: each action says what the splitter's
code and comments show the game may do. `Lingering` lets an initializer outlive
its game, `Reuse` lets the next be built in its memory, `Garbage` is what a
freed state field may read as: in the runs, before the overlay or past it, and
again whenever the memory changes hands. While the header of one that was left
still validates, its state stays or comes to read as `Waiting` (the 0 of
`lib.rs:781`).

**`Lifecycle`** composes the two with `run` and the part of `watch` about
scenes and run starts. `pc` names the await the task is at. `WatchLoad` /
`BeginBindDuringLoad` / `BindDuringLoad` are the load loop, `LeaveLoad` the code
after it, `MenuDelay` the menu branch, `BindAfterLoad` the late bind,
`PollDuringScan` / `ScanFinds` / `ScanFindsNothing` the container scan and its
callback, `WatchEnds` / `WatchTick` / `BeginBindInWatch` / `BindInWatch` the
watch loop.

**`RunTimer`** is the abstract specification of the run start: five small
actions over the kinds of the scenes, the games whose overlay was shown, the
games the timer was started for, and the timer. `Lifecycle` implements it with
its variables of the same names (`Promise == INSTANCE RunTimer`, property
`StartsOnlyRuns`), but for `FalseStart`: the timer started by a poll of the
container scan on an initializer that is gone. The property admits that step and
no other.

**`GameTime`** counts time in parts of a tick. `ReadDay`, `ReadTicks`,
`ReadProgress` and `ReadFails` are `Clock::read`, `Begin` and `Push` the methods
of `GameTime`, `StartDuringScan`, `BeginWatch`, `Tick` and `NextScene` the task
around them, `Flow`, `FillLengths` and `Readability` the game.

**`Buildings`** has the entity list and a heap of `BlockObjectState`s;
`WalkChunk` and `EndWalk` are `Buildings::resolve`, `PollCount` and
`PollEntries` one poll in its two halves, `Place`, `Finish`, `Demolish` and
`Overwrite` the game. `spoiled` is the history of the slots a split may be false
for: an address watched for one of them became another building's, or it stood on
arrival and the list slid under the walk.

**`Splits`** is one call of `watch` below the run start. A watcher is a name
with one flag (its object says: done). `QuickTick` is a tick that resolves
nothing; one that does is `BeginRefresh`, `Refreshed` and, when the buildings
are due, `Walked`, with the game moving between them. It begins with a run under
way if the run start fired in the container scan (`lib.rs:973`), for a new game or
a save the loader said nothing of (`TakenForARun`). `torn` is the history of what
came to read as done in memory of the scene being left while one of its ticks was
suspended.

**`Containers`** is the loop of `run` with `Registry::resolve` and the table's
bookkeeping. A container is told apart by whose it is: this game's, the last
game's, or an older one's; any number of them stay around. `astray` is the history
of a game that came up with a left container that is not skipped: the skip had
been given up, or the container watched last is not the only one left.

**`Search`** is the abstract specification of a search for the objects of a class
(`Found` in `service.rs`): `Take`, `Refuse` and `Answer` while objects come, go
and cannot be read. It says of a conclusive answer that is empty that whatever
lasted through the search was refused.

**`Scan`** is the sweep that implements it (`KeepsPromise`, an `INSTANCE` with the
refinement mapping): `New` lists the ranges, `NextRange`, `ReadChunk` and
`ReadPage` go through them, `Take` and `Reject` validate the matches of a
buffer, `Finish` ends it. The game maps and unmaps ranges, closes pages, and
builds and collects objects between any two of these.

**`Find`** is `find_matching` over the table and the sweep behind it: `Begin` reads
how far the table extends, `ReadWindow` and `EndEntries` read it, `Look` visits
the objects, `EndTable` decides whether that settles it, `EndSweep` counts a
miss, `Pick` chooses. An object is wanted, or a leftover that validates and is
not acceptable.

**`Signals`** has the values `Splits` has one flag each for: the set of unlocked
names with its count, the countdown's day and flag, the bot flag, the average.
`Resolve` is what each watcher reads on arrival, `PollUnlock`, `Walk`,
`PollCompletion`, `PollBots` and `PollWellbeing` one tick in the code's order.
Any read may fail; `hurt` remembers of which signal, and `restored` what a save
came with. Here too a run may be under way from the start, or begin in a save.

**`Attach`** is `main` and `attach`: `AttachExact`, `ListAmbiguous`, `Skip`,
`AttachAmbiguous`, `RuleOut` and `NextPass` are one pass; `AttachModule` to
`ResolveClock` what `run` waits for, in its order; `LetGo` and `WaitOut` the end
of it. `waited` is kept modulo the ticks after which candidates are forgotten,
which the code's other modulus divides.

**`Recorder`** is `tb-record`'s `take` with the harness's `capture`, `Frozen`, its
signal handler and the snapshot store. `SendStop`, `NotePid` and `Reported` are
the three moments of stopping; `ReadRange` keeps a range or the chunks its base
does not serve; `Describe` and `Index` write the manifest and the index;
`Interrupt` is the handler, and `Kill` an end without it (`freeze.rs:17`). `read` is
`read_through`, the read through a chain of deltas, as a function of the step, the
address and the words that are left.

`Recorder` and `Containers` name their specifications and types after themselves
(`RecorderSpec`, `ContainersTypeOK`), so that a module of proofs can extend another
component as well.

`MC*` modules give the small values for TLC; the `*_proofs` modules hold the
theorems. `X_Word` operators defined before an `X` are
plausible mistakes in `X`: with each in `X`'s place its property fails.

## What the runs check

Each `.cfg` has the run's bounds. All counters are bounded in the guards, by
the constants marked *bound* where they are declared.

| Run | Asks | Bounds, and why they are enough |
|---|---|---|
| `lifecycle` | `TypeOK`, `LoadedIsCurrent`, `SamplesRestoredState`, `StartsOnlyRuns`, `QuietOnTheMenu` | three scenes (0, 1, 2) and two addresses: a game, the one after it and the one after that, with each initializer in fresh or reused memory, freed ones reading as waiting or finished; one search overlooks what is there. Two loads are what it takes for something of load *n* to be mistaken for load *n+1* after both skip rules changed hands. 1.6 M states, addresses symmetric |
| `lc_live` | `GamesAreFollowed` | two scenes, fair, no symmetry; an instance is lost and the new one is built where it was |
| `gametime` | `NeverAhead`, `AtMostATickBehind`, `MeasuredFromItsStart`, `CatchesUp` | a day of three ticks of two parts, a new game and one save, two scenes: readings cross a part, a tick and a day; the progress also reads as -3 |
| `gt_zero` | `NoZeroNoTime` | fails: see below |
| `buildings` | `SplitsAreReal`, `EachSplitsOnce`, `BelowTheMarkIsWatched`, `EverySplitComes` | a list of at most one at the walk, two more placed, in new memory or a demolished one's, chunks of one, one count that reads as nothing: every order of placing, finishing and demolishing around the mark; an address watched for one of the pair becomes the other's. 0.8 M states |
| `splits` | `SplitsAreNews`, `EndsSplitOnce`, `EverySplitComes` | the buildings (whose walk suspends a tick), one watcher that reports itself and one end, a save or a new game, a run start that fired before or not, one object lost at any moment |
| `containers` | `ContainersTypeOK`, `OwnContainer`, `EveryGameIsBound`, `WrongTableIsDropped` | three addresses for this game's container, the last one's and one more; the three limits are the code's own. 0.8 M states |
| `scan` | `SteadyIsFound`, `KeepsPromise`, `SweepEnds` | a range of two pages, which is one chunk, and one of a page, less than a chunk; two words of interest, a limit of two: a chunk that fails as a whole and page by page, a range gone under the sweep, the limit on the last match or not at all. 0.3 M states |
| `find` | `WantedIsFound`, `MissesAreEarned` | three objects, a table of one window that grows to two, a limit of two: the table knows some, all or none of them, leftovers use the limit up or do not. 6 M states |
| `signals` | `RestoredIsQuiet`, `UnlockIsNotSlept`, `NoFalseAlarm`, `EachIsHeard` | the wonder's two signals together, and the other two; one read fails, one watcher is lost |
| `attach` | `NeverAnother`, `FoundInTime`, `MenuIsEnough`, `GamesAreWatched` | two numbers, three processes of four kinds one after another, forgetting after three passes: a number goes from one title to another while it is listed or ruled out. 0.7 M states |
| `recorder` | `InstantIsKept`, `NotLeftStopped`, `GameGoesOn` | four addresses in three mappings whose chunks do not line up, three steps, three changes: a chunk read through two deltas, a range that was not there before; an interrupt or a kill at any moment. 1.4 M states |

The types of `Scan`, `Find`, `Signals`, `Attach` and `Recorder` are not checked by a
run: they are theorems.

### Where code and comment disagree

One run states what a comment says and is violated. `gt_zero`: the baseline
outlives a reset, so a timer started by hand is given game time from the run
before (`clock.rs:387`, against `clock.rs:319` and `README.md:213`).

Five passing properties hold of the code but for a case in which it does not do
what a comment says. Each names the case, by a step or a history variable, and
leaves it out by that name only; without the name it is violated.

* `FalseStart` in `StartsOnlyRuns`. `watch` validates its initializer before it reads
  the state, because a freed one "could look like a game starting" (`lib.rs:1000`).
  The container scan polls between its slices without validating (`lib.rs:625`): an
  initializer bound during the load and freed under the scan starts the timer when
  its memory reads as past the overlay.
* `TakenForARun` in `SplitsAreNews`, `run_began` in `RestoredIsQuiet`. What a save had
  done "must not read as a fresh unlock" (`lib.rs:1850`, and `lib.rs:2232` of the
  goal). `poll` sets `fired` before it decides what the crossing was (`lib.rs:2653`),
  and `watch` begins with `run_began` = `fired` (`lib.rs:973`): a save whose loader
  said nothing is taken for a run under way, nothing of it is quiet, and with a
  timer running what it restored is split for.
* `astray` in `OwnContainer`. Containers of left games "accumulate over a session",
  and one of them bound is the failure `singletons.rs:62` tells of. One is skipped
  (`singletons.rs:248`), the one watched last. The shortest way there: a game is left
  before its container was ever found, so there is none to skip, and the next game
  is given it.
* `spoiled` in `SplitsAreReal`. The vtable "makes a stale address unable to split"
  (`lib.rs:1696`). It says that the memory holds a `BlockObjectState`, not whose:
  another building built there is split for as the old one's slot. And what stood
  on arrival is split for if the list slid under the walk that looked for it
  (`lib.rs:1610` rewinds nothing).
* `stranded` in `NotLeftStopped`. `freeze.rs:68` says the guard is left in place when a
  stop is not reported in time, and the error returned there holds none: nothing
  resumes the game. The other two ways are a signal between the kill and the store
  of the pid, and the hole `freeze.rs:17` documents, a kill no handler sees.

Seen while modelling, and left out of the properties or put into an assumption:

* Reading the ticks before the progress does understate, and *that* makes game
  time step back by up to a tick when the reading before was right
  (`clock.rs:257`; the comment at `clock.rs:250` names a backwards timer as what
  the order prevents).
* The flag that ends a world is read once a tick, and a tick can be suspended for
  the length of the walk (`lib.rs:1101`): what the scene being left then reads as
  is taken for news (`torn`). The comment at `lib.rs:1130` speaks of such reads.
* `snapshot.rs:16` still says that nothing pauses the game during a capture and that
  the last range is seconds younger than the first. `tb-record` captures under
  `Frozen`, and `InstantIsKept` holds of what it writes.
* `tb-record/src/linux.rs:39` says that a recording stopped halfway is a shorter
  scenario and not a broken one. A manifest is written before the index of its
  chunks, and a capture without an index reads as one without chunks: a delta
  that was stopped between the two reads as its base.

### Fairness

The host polls the task for as long as it runs, so the task's steps are weakly
fair everywhere. In `Splits` the resolving tick is strongly fair: every 120th
tick is one, however the quick ones interleave. In `Containers` the sweep's
outcomes are strongly fair: memory that can be read is read in the end. In `Scan`
the task's step is fair as a whole: memory that keeps changing cannot keep the
sweep from its end. In `Signals` ticks are fair and each resolve strongly so, as
in `Splits`. In `Attach` the passes, the waits and `run` are fair, and so is the
end of a process that is on its way out. In `Recorder` the recorder's own steps
are, and the delivery of the stop. Of the
game, only what it does unasked is fair: a load completes, an initializer gets
its dependencies and steps on, lengths are filled in, services register, and
(for `GamesAreFollowed`) the memory of an initializer that was left is reused
some day. Placing, finishing, leaving, and the runner are never fair, and
`ScanFindsNothing` and overlooked objects are left to a bound.

### Assumptions the models make, as constants

| Constant | Meaning | Without it |
|---|---|---|
| `SlowLoads` | a load outlasts the search in progress when it begins | a load inside one search is not seen, `LoadedIsCurrent` fails |
| `Lingering`, `Reuse` of `GameWorld` | an initializer outlives its game; the next is built in its memory | TRUE in all runs: these add behaviour |
| `Garbage` | what the state of a freed initializer may read as: `Waiting` or `FINISHED` in all runs | the theorems hold for any set |
| `SaveNameResolves` | the static with the save's name reads when a crossing is decided | a save the loader said nothing of is timed as a new game |
| `Reuse` in `Buildings` | a removed building's state may be taken by another building. TRUE in the run | FALSE leaves behaviour out. An address stays watched for the slot it was first seen as, so what is built there again is not split for as its own: `EverySplitComes` speaks of buildings elsewhere (`Standing`) |
| `Removals` in `Buildings` | when buildings may go, besides between ticks: {} in the run, anything in the theorems but one | "walk" breaks `BelowTheMarkIsWatched`, as the code has no rewind for it; "growth" and "read" put entities below the mark unseen, which the comment in the code accepts. It is proved without them |
| `TogetherFilled` | the two length constants are seen filled in together | half a day's length is cached for the scene |
| `may_sweep` = TRUE in `Find` | the caller sweeps when the table does not settle it | with FALSE an object only the sweep can see is missed, and only the table's half of `WantedIsFound` says anything |
| the ticks in `Attach` | the wait after a game is no longer than the forgetting, and the retry divides it, as 5, 10 and 1 do | a game may be owed longer, and `waited` cannot be counted modulo one of them |

Some more are built in. A bulk read of a chunk is one read. The two reads of a
validation (`scan.rs:53`: the field, then the vtable behind it) are one. In `Find` an object
that cannot be read for a while is one that is not there. A scan has a
validator. A pid is not given away while it is held open. In `Signals` a step of
the poll has at most one failing read, and the countdown does not run out within
one tick.

`GameMoves` in `Lifecycle` adds the pace of the game: between two polls the
static with the save's name is not replaced, and a load does not end before one
pass of the loop sampled it, unless the task is in a search. `EndLoad` requires
the initializer to be injected: the code searches it at once after the load and
has no second look there other than `watch`'s own.

## What is proved

The theorems hold for every value of the constants that meets the modules'
named assumptions.

`Lifecycle_proofs`

* `TypeCorrect`: `Spec => []TypeOK`. It needs one strengthening, `LoadHasAKind`
  (the load in progress has a kind), since `SetParameters` copies that kind into
  the parameters. The lemmas go through the parts: what a poll, a bind and an
  absent watcher are, what a timer start records, what a game step keeps.
* `Invariance` and `SceneIsCurrent`, for `SlowLoads`: `LoadedIsCurrent` is not
  inductive, because nothing in it says why a load that ends was sampled. The
  invariant adds the chain: parameters flagged fresh are those of this load
  (`FreshIsTrue`); once they have been sampled, the loop's scene is this load's
  (`SampledIsTrue`), and it is only sampled in the load loop or the bind that
  interrupts it (`SampledInLoop`), so no later step can overwrite it; with
  `SlowLoads` a load ends only after it was sampled.
* `RestoredStateIsSampled`, for `SlowLoads`: `Spec => []SamplesRestoredState`. The
  property looks at a watcher's last reading and at the heap; the invariant
  `Settled` ties the two: an initializer that was read as finished still is,
  while it is in use (`FinishedIsSeen`), no watcher outlives the pass it was bound
  in (`Unpolled`) and past the menu branch the scene is not the menu (`NotMenu`).
  It rests on `World`, what the heap can look like whatever the splitter reads:
  an initializer was built for one load, of a game that began (`Owned`, `OneEach`),
  for none that is still to come (`NotYet`), and one that validates was built
  (`ValidIsBuilt`).
* `QuietMenu`, for `SlowLoads`: `Spec => QuietOnTheMenu`, from the same: the late
  warning comes from a watcher, and a watcher that is polled is not on the menu.
* `StartsRunsOnly`: `Spec => StartsOnlyRuns`, the refinement of `RunTimer` but for
  `FalseStart`, for `SlowLoads` and `SaveNameResolves` and whatever freed memory
  reads as. Each step of `Lifecycle` is a step of `RunTimer`, a false start or a
  stutter; a poll in `watch` is never a false start, because it validated. Only
  `AutoStart` asks for more than the step itself says. That the game is a new one, its overlay was
  shown and it was not started for is the invariant `RunInv`: a watcher is told
  what loaded, and if the instance it saw before the overlay is past it by now,
  then in the game that is followed and was not started for (`Knows`); an
  initializer is past the overlay only if that was shown (`ShownFirst`); a game
  that was started for is not a later one, and what is alive of it is past its
  overlay and cannot cross it again (`StartedPast`, `StartedIsUp`); and the scene
  a search was begun in is the one its result is taken for (`SceneOfCur`,
  `BoundForScene`). The hypotheses are those of the run.

`Splits_proofs`

* `SplitsTypeCorrect`: `Spec => []TypeOK`, including that a timed run is one
  that began.
* `EndsAreSplitOnce`: `Spec => []EndsSplitOnce`, with `Once`: an end that was
  split for is in `ended`, and `ended` only grows.
* `OnlyNewsIsSplit`: `Spec => []SplitsAreNews`, without hypotheses. The invariant
  `News` says why binding late is safe: a watcher is bound only when
  initialization has finished and nothing is restored any more
  (`BoundIsFinished`); in a new game whatever is done happened or is `torn`
  (`NewIsNews`); so what a bound watcher finds done is one of these or quiet
  (`OldIsQuiet`), unless a save was taken for a run, until the scene is `Over` and
  nothing of it is polled again.

`Scan_proofs`

* `ScanTypeCorrect`: `Spec => []TypeOK`.
* `ScanKeepsPromise`: `Spec => KeepsPromise`, the refinement of `Search`, for any
  layout of ranges, chunk and limit. The abstract answer speaks of what lasted,
  which the sweep does not know; the invariant ties them (`ScanInvariance`): an
  instance that lasted in a listed range is found, rejected, unreadable, among
  the matches or pages in hand, or still ahead of the place reached
  (`Accounted`); what lasted is in the ranges that were listed, unless none were
  (`Listed`); words are in mapped memory only (`Placed`); and a scan the limit
  stopped has found something (`StoppedWithSome`).
* `ScanFindsWhatIsSteady`: `Spec => []SteadyIsFound`, which is about every word and
  not only conclusive answers. `SteadyInv` is like `Accounted` without the ways
  out: what is readable and unchanged all along cannot have failed to be read,
  by the chunk or by the page, so it is taken, at hand or ahead
  (`SteadyAccounted`), and a pointer at the anchor marks the range it is in as the
  sweep passes it (`Noticed`).

`Attach_proofs`

* `AttachTypeCorrect`: `Spec => []TypeOK`, including that a process is held
  exactly while `run` is.
* `HeldIsTheGame`: `Spec => []NeverAnother`, with `MappedIsGame`.
* `GameIsFoundInTime`: `Spec => []FoundInTime`. The invariant counts the ticks a
  game was owed against the passes since the last forgetting (`Tally`), and says
  that the pass after it has the owed game on its list and has not ruled it out
  (`Owed`), so that pass cannot end without it.

and of `Recorder`, which shares nothing with `Attach`, neither state nor steps; the
module extends both, and each theorem names the specification it is about:

* `TheGameIsNotLeftStopped`: `RecorderSpec => []NotLeftStopped`, with `LetsGo`: a stop is
  only pending or in force while the recorder is at it, or it ended in one of the
  ways `stranded` names; and the pid is noted from the first moment the handler has
  to take one back. `stranded` is not "the game is stopped": a kill while the
  capture is being written, or before the stop is sent, is in none of the ways, and
  the theorem says that it leaves the game running.
* `TheInstantIsKept`: `RecorderSpec => []InstantIsKept`, without hypotheses. There are
  two halves.
  * What a read through the chain gives. `read` is recursive, over the steps and over
    the words that are left, and the library's induction cannot be used here; so
    its closed form, `Slice`, says word by word what the last step that covers an
    address holds there, and the two are equal because there is no least read on
    which they would differ: not a first step, and not a shortest read of it
    (`ReadIsSlice`, by `LeastExists`). It is first shown that the slices solve the
    recursion (`StarSolves`), without which nothing follows about `read`. What it
    asks of the store is that no two chunks of a step hold the same word (`Sound`):
    that is what makes the bisection in `chunk_at` find *the* chunk, and the code
    nowhere says why it is so.
  * Why the store says what the game held. The invariant `Faithful` follows a
    capture from its listing to its index. Chunks lie in ranges that were read, and
    ranges lie apart, so chunks do (`SoundCapture`); all is read while the game is
    stopped (`Phases`); and each word of a range that was read is in a chunk, as it
    was at the instant, or the base serves it so (`Told`). `Told` is said against
    the base because a chunk is left out on what the base *serves*, which is
    stitched from earlier steps; it stands because no step is written again
    (`StoreStands`). `Faithful` was checked by TLC on the run's instance before it
    was proved.
* `RecorderTypeCorrect`: `RecorderSpec => []RecorderTypeOK`, with `Room` (a step that was
  begun has a place in the recording) and `Accounted`: the entries written are as
  many as the ranges read, for two ranges of a layout never begin at one address.

`Find_proofs`

* `FindTypeCorrect`: `Spec => []TypeOK`.
* `TheWantedIsFound`: `Spec => []WantedIsFound`. The property speaks of the end of
  a search; the invariant `Seen` says at each stage where an object that was
  acceptable all along must be: its entry has been read or is still ahead
  (`EntriesSeen`), then it is still to look at or taken (`ObjectsSeen`,
  `SweepSeen`), then taken (`PickSeen`). A slot that held on
  to its object all along lies under the extent the table was read with, and what
  is called steady still is acceptable (`Remembered`).
* `MissesWereEarned`: `Spec => MissesAreEarned`, an action property, from the same
  invariant: the sweep only starts once the table had nothing of the kind.

`Signals_proofs`

* `SignalsTypeCorrect`: `Spec => []TypeOK`.
* `TheRestoredIsQuiet`, with `Quiet`: what was restored is still done, so every
  watcher that arrives, the first or one after a loss, finds it so and stays
  quiet, until a run begins for `watch`.
* `TheUnlockIsNotSlept` and `TheAlarmIsNotFalse`, with `Behind`: while a watcher
  waits, the count it remembers is from before the unlock, and behind the set's
  own once the wonder was activated. Hence the tick that polls the end has
  walked the set before it (`SeenBefore`): the order of the polls is what the
  warning rests on.

`GameTime_proofs`

The model counts in whole parts, so these are facts about quotients and rests: a
moment is a day, a tick and a part of it in one way only (`Fields`), all three
grow with it (`FieldsGrow`), and a reading puts them together again (`Assembled`).

* `GameTimeTypeCorrect`: `Spec => []TypeOK`. A reading is a number only because the
  length of the day is known by the time the progress is read (`TicksAreRead`).
* `LessThanATickIsLost`: `Spec => AtMostATickBehind`, without hypotheses, whatever
  length is cached and whatever the progress reads as. The invariant `InReading`
  follows a reading while the clock runs: what was read so far is no later than
  now, because the day is read before the ticks, and no earlier than the moment
  the reading began unless the day turned in between.
* `GameTimeNeverAhead`: `Spec => NeverAhead`, from the other half of `InReading`, where
  both lengths are filled in together and a progress that reads wrong reads as
  nothing elapsed (`NothingAhead`). Both are needed: half a day's length makes a
  reading too great, and so does a part that reads beyond the game's own.
* `TimeIsOfThisRun`: `Spec => MeasuredFromItsStart`, for the same. It needs the
  baseline to be no more than a tick before the start it was taken for, which
  `FromStart` says of both across resets, scenes and readings that fail.

and of `Containers`, the loop that finds the container the clock is in, with which
`GameTime` shares no state either:

* `ContainersTypeCorrect`: `ContainersSpec => []ContainersTypeOK`.
* `TheGamesOwnIsWatched`: `ContainersSpec => []OwnContainer`, without hypotheses.
  `OwnContainer` says nothing of how the skip is kept, and everything depends on it;
  the invariant `Skipping` does: the container watched last is skipped until the
  skip is given up; while a game is searched for, it is up (`SearchesAGame`) and has
  a container with a clock; and unless it came up `astray`, no other is around than
  its own and the skipped one, and once the skip was given up only its own, because
  the conclusive sweeps that gave it up would have found another (`HasItsOwn`).

`Buildings_proofs`

* `BuildingsTypeCorrect`: `Spec => []TypeOK`.
* `EachIsSplitOnce`: `Spec => []EachSplitsOnce`, with `Once`, whatever is demolished
  or used again.
* `OnlyTheRealSplit`: `Spec => []SplitsAreReal`, without hypotheses: memory is used
  again and buildings go at any moment. What is watched is what it was first seen
  as for as long as it validates, or its slot is `spoiled` (`WatchedIsKnown`);
  unless the list slid under it, every building that stood finished is ahead of the
  walk or watched (`WalkMeetsAll`), so it is known by the time the walk ends
  (`BeforeIsKnown`); and what was split for was seen finished and not on arrival
  (`FiredIsFinished`).
* `NothingSlipsUnderTheMark`, where nothing is removed in the middle of a walk or of
  a poll, nor between two polls the list also grows between (`Removals` = {}; memory
  may be used again): `Spec => []BelowTheMarkIsWatched`. `Slides` says why the
  rewind a poll makes is far enough: since the last one the list only grew or only
  shrank, so its length says which (`Paced`), and whatever lies below the mark as it
  will be set is watched (`CaughtUp`).

Model-checked only: liveness under fairness (`GamesAreFollowed`, `CatchesUp`,
`EverySplitComes`, `EveryGameIsBound`, `WrongTableIsDropped`, `SweepEnds`,
`EachIsHeard`, `MenuIsEnough`, `GamesAreWatched`, `GameGoesOn`), which is out of the
prover's reach. Every invariant and every action property of the passing runs is a
theorem. The hypotheses that are left are `SlowLoads` (four theorems of
`Lifecycle_proofs`), `SaveNameResolves` (`StartsRunsOnly`), `NothingAhead`
(`GameTimeNeverAhead`, `TimeIsOfThisRun`) and `Removals` = {}
(`NothingSlipsUnderTheMark`). Each is how the run's `.cfg` is set, and the table of
assumptions says what happens without it.

Proving also found three definitions whose value TLA+ leaves open, for a `CASE` of
theirs had arms that overlap (`LeaveLoad` of `Lifecycle` and of `Containers`,
`ThisStart` of `GameTime`): TLC takes the first arm that fits, as was meant. They
say now what was meant.

## What is left out

* How a class's vtable and validator are resolved, how the table is told from
  other memory by its words, the layout of collections: chains of reads that end
  in an address or in nothing. The models start from that outcome.
* The loading flag failing to read; entities that do not read one by one.
* Settings (constants of the models), logging, the probe.
* The scripted host of the tests, the store's directories and its search for
  captures by requirement, and the fixture and metadata tools: batch programs
  that run once over files. The host's runtime library is not in the repository.
* Reading the singletons out of one container.

## Plan

1. *Done*: `RunStart`, `GameWorld`, `Lifecycle`, `RunTimer`; `GameTime`;
   `Buildings`; `Splits`; `Containers`; the theorems above.
2. *Done*: `Search` and `Scan`, `Find`; `Attach`; `Signals`; `Recorder`; their
   theorems and those of `Buildings`.
3. *Done*: the proofs of `GameTime` and `Containers`, of what `Lifecycle` promises
   with its refinement of `RunTimer`, of `SteadyIsFound` and
   `BelowTheMarkIsWatched`, and of `Recorder`.
4. The loading flag that fails to read, in `Lifecycle`; entities that fail to
   read, in `Buildings`.
5. `Find` as an implementation of `Search`, with its two passes; the candidates
   the table is identified among.
