# A specification of the Synapse state compressor

`synapse_compress_state` and `synapse_auto_compressor` rewrite the tables in
which Synapse, a Matrix homeserver, stores the state of its rooms, so that they
take up fewer rows. They do so in the live database of a running server, a
chunk at a time, and remember between runs how far they got. This directory
specifies them in TLA+, checks the specification with TLC on small databases,
and proves its main safety properties with TLAPS for databases of any size.

Source paths below are relative to the root of the repository.

## 1. The system

### Data

Synapse gives every *state* of a room a number, its *state group*. A state maps
a (type, state key) pair to an event. A group is stored as a delta from another
group, its predecessor (`state_group_edges`, `state_groups_state`), or in full;
`state_groups` lists the groups of each room. The state of a group is what the
deltas along its chain of predecessors add up to, the latest taking precedence.
A delta adds or overwrites keys, it never removes one.

The compressor picks other predecessors and computes the deltas they require.

### Components

| component | source | state it keeps | operations |
|---|---|---|---|
| state groups and deltas | `src/lib.rs` | none | `collapse_state_maps`, `check_that_maps_match` |
| compression algorithm | `src/compressor.rs` | levels, new map, statistics | `compress`, `compress_from_save`, `create_new_tree`, `get_delta` |
| database access | `src/database.rs` | Synapse's tables | `get_data_from_db`, `reload_data_from_db`, `send_changes_to_db` |
| chunk of a room | `src/lib.rs` | none | `continue_run` |
| saved state | `synapse_auto_compressor/src/state_saving.rs` | three tables of its own | `create_tables_if_needed`, `read_room_compressor_state`, `write_room_compressor_state`, `get_next_room_to_compress` |
| automatic tool | `synapse_auto_compressor/src/manager.rs` | chunks left to do | `compress_chunks_of_database`, `run_compressor_on_room_chunk` |
| manual tool | `src/lib.rs`, `src/main.rs` | its output file | `run`, `output_sql`, `generate_sql` |
| command lines, Python modules | `main.rs`, `lib.rs` of both crates | none | argument parsing, logging |
| graphs | `src/graphing.rs` | none | two CSV files |

They interact by calls within one process and, more interestingly, through the
database: a run of the automatic tool picks the room with the lowest group that
is not compressed, reads the levels an earlier run saved for it, loads the next
chunk of groups with their predecessors and the heads of the levels, compresses
them in memory, sends the rows that changed in one transaction per group, and
saves the levels and how far it got in another. A run of the manual tool takes
one room and a range of its groups, starts from empty levels, and sends the rows,
writes them to a file of SQL for `psql`, or both. Synapse goes on reading all
groups and storing new ones.

### What is hard about it

* **Nothing is atomic but single transactions.** The process can die between
  any two of them: with part of a chunk written, with a chunk written and not
  recorded, with a room picked and not started. What it left is read by Synapse
  at once and by the next run later.
* **Synapse writes at the same time**, between any two queries.
* **An output file waits.** It may be applied after the rows it was computed from
  have been rewritten, in part, twice, or while the tool runs again; without `-t`
  not even the SQL of one group is a transaction.
* **State outlives the run that made it.** Saved levels refer to groups by id
  and describe chains that later runs rewrite; the next run may come with other
  level sizes.
* **Estimates.** A level's length is an estimate of a chain that `get_delta`
  may have continued elsewhere; the bound on chains the tools promise depends on
  it.
* **Fenceposts.** Start of a chunk, last compressed group, lowest uncompressed
  group and limits of the queries are inclusive here and exclusive there.

### What makes the components correct

* algorithm: every group keeps its state; any mix of old and new rows is good;
  chains stay within the bound the level sizes give; levels can be saved and
  continued; it terminates and never looks up what is not there;
* database access: the map it loads has all predecessors and heads; a transaction
  replaces a group's row as a whole;
* saved state: what is written can be read back and is true of the database;
* automatic tool: no group passed over, none done twice, every group reached;
* manual tool: nothing outside of the range is rewritten; its file can be applied at
  any time and again; it ends;
* all together: Synapse sees an append-only store of states.

`PROJECT.json` lists each hazard at the line where it bites, with the properties
that would catch it, or the reason why none does.

## 2. The modules

| module | what it is |
|---|---|
| `StateGroups` | state maps, deltas, rows, `Collapse`; no state |
| `Levels` | `Level` and the scan over the levels; no state |
| `Compressor` | the algorithm, one step per group and per base tried |
| `CompressorReference` | what the algorithm computes, as a relation between maps and as arithmetic |
| `StateStore` | abstract: what Synapse relies on |
| `AutoCompressor` | the automatic tool, its tables, Synapse's tables and Synapse; composes `Compressor` |
| `ManualCompressor` | the manual tool, its output file, psql, Synapse's tables and Synapse; composes `Compressor` |
| `StateGroupsProofs` | lemmas about maps, states and chains |
| `CompressorProofs`, `ChainProofs` | theorems about the algorithm: states, counts and steps; chains and levels |
| `ReferenceProofs` | the algorithm computes what `CompressorReference` says |
| `AutoCompressorProofs`, `AutoProgressProofs`, `AutoChainProofs` | theorems about the automatic tool, which cite those about the algorithm for the compressor of a chunk: states and lookups; progress; chains |
| `ManualCompressorProofs` | theorems about the manual tool, likewise |
| `MCCompressor`, `MCAutoCompressor`, `MCManualCompressor` | instances for TLC |

### StateGroups

A state map is a total function from `Keys` to events, `NoEvent` where the code
has no entry. A `BTreeMap<i64, StateGroupEntry>` is a function from a set of ids to
records `in_range`, `prev`, `delta`. `Collapse(map)` is `collapse_state_maps` for
all groups at once, `Fits` and `DeltaFrom` are the test and the result of
`get_delta`. Recursion is written with recursive functions so that the module can
be proved about.

### Compressor

| code | model |
|---|---|
| `original_state_map`, `levels`, `new_state_group_map`, `stats` | `orig`, `levels`, `newMap`, `stats` |
| `prev_sg` in the loop of `get_delta` | `base` (`NoGroup` outside of the loop) |
| a failed lookup (`panic!`) | `panicked` |
| loop of `create_new_tree`: position | `Current`, the least group not in `newMap` |
| group not in range | `CopyOutOfRange` |
| `entry.prev_state_group == prev_state_group` | `KeepEntry` |
| `get_delta(None, ..)` | `StoreFull` |
| `get_delta(Some(..), ..)`, then its loop | `StartDelta`, then `WalkUp`, `UseBase`, `ForcedReset`, `MissingBase` |

The scan over the levels is part of the action for the group (`Place`,
`Candidate`). The assertion that a copied entry equals the original and the panic
of `Level::update` on a full level cannot fail and are left out, the latter because
the only caller asks `has_space` first.

`Calls` are the arguments. `CallsAssumption` says what the algorithm needs of them:
predecessors are in the map and older, and the heads are older than the groups in
range. `AutoCompressor` checks that the automatic tool calls it so (`CallIsLegal`).

### CompressorReference

Two independent readings of what `create_new_tree` and `get_delta` come to:

* `IsCompression(new, map)` relates a map and its compression from empty levels: a group
  gets as predecessor the newest group that fits on the chain its level asks for. Where the
  code changes its levels group by group, `LevelsAt` is a function from groups to levels;
  where `get_delta` walks up, `Bases` is the set of groups it could end at.
  `RunningAgainRepeats` says that the result is the compression of the original map *and*
  of every mix of old and new rows a run may leave behind when it dies, so doing it
  again computes the same rows;
* `StepBack(n, sizes)` is plain arithmetic on the position of a group: how far back its
  predecessor is when every older group fits. `StructureIsCorrect` compares the compressor
  with it, for all level sizes and segments of the instance; the repository's tests have
  one case, fourteen groups on levels 3,3
  (`compressed_3_3_from_0_to_13_with_state` of `compressor_integration_tests/src/map_builder.rs`).

### AutoCompressor

The variables are Synapse's tables (`db` holds edges and rows, `roomOf` is
`state_groups`, which may lack groups that are in the edges table), the tables of
the tool (`saved`, `progress`, `lowest`), and the process. `pc` names the query or
transaction that comes next:

    idle -> pick -> save_lowest -> read -> find -> heads -> initial -> missing (repeated)
         -> compress (the steps of Compressor) -> send (a step per group) -> save -> pick or idle
                                               \-> skip -> pick or idle

A process that ends of its own accord, done or with an error, leaves `idle`; `Crash`
leaves `crashed`. Both lose everything in memory, and `Start` does not tell them apart.

| action | code |
|---|---|
| `Start` | `compress_chunks_of_database` with some arguments |
| `PickRoom`, `NoRoomLeft`, `SaveLowest` | `get_next_room_to_compress`: its query, its update |
| `ReadState`, `CannotReadState` | `read_room_compressor_state` and the defaults of `run_compressor_on_room_chunk` |
| `FindMaxGroup`, `NothingFound` | `find_max_group` |
| `LoadLevelHeads`, `GetInitialData`, `GetMissing`, `AllLoaded` | `load_level_heads`, `load_map_from_db` |
| `Compress`, `Panic` | `compress_from_save` |
| `Abort`, `Accept` | the ratio in `continue_run`; `check_that_maps_match`, whose panic would be a `Crash` |
| `SendGroup`, `AllSent` | `send_changes_to_db` |
| `SaveState`, `SkipChunk` | `write_room_compressor_state` after a commit, or after an abort |
| `Crash` | the process dies, or the database returns an error, at any point |
| `StoreGroup` | Synapse stores a group |

Compared by `num_rows`, the code aborts if `new / old > 1.0` in floating point; with
no old rows and no new ones that is NaN and it goes on, as `NumRows(newMap) >
NumRows(orig)` does.

`chunk_size` is a natural number: Postgres refuses a negative LIMIT, which is a
crash. A saved row's checks for gaps and doubles in the level numbers and for
missing progress are left out: `write_room_compressor_state` writes levels 1 to n
and the progress in one transaction.

### ManualCompressor

`pc` names the query, write or transaction that comes next:

    idle -> find -> initial -> missing (repeated) -> compress (the steps of Compressor)
         -> output (a step per group of the file) -> send (a step per group) -> idle

| action | code |
|---|---|
| `Start` | `run_compression` with some arguments; `-o` creates the file, or empties it |
| `FindMaxGroup`, `NothingFound` | `find_max_group` and the warning of `run` |
| `GetInitialData`, `GetMissing`, `AllLoaded` | `load_map_from_db` with its queries and its loop |
| `Compress` | `compress` |
| `Skip` | more rows than before, or fewer saved than `-m` asks for |
| `Accept` | `check_that_maps_match` unless `-N`; a map that did not match would panic |
| `OutputGroup`, `AllOutput` | `output_sql` |
| `SendGroup`, `AllSent` | `send_changes_to_db`, if `-c` was given |
| `Crash` | the process dies, or a query or a write fails |
| `ApplyFile`, `ApplyTransaction`, `ApplyStatement`, `BreakOff` | not in the repository: `psql < out.sql`, as its README tells the user |
| `StoreGroup` | Synapse stores a group |

`file` is the SQL as a sequence of groups with their new rows. With `-t` psql runs a
group at a time; without, the four statements `generate_sql` writes for a group (DELETE and
INSERT of the edge, DELETE and INSERT of the rows, `Executed`) are a step each, between
which Synapse stores groups and psql may break off. `half` remembers the groups that are
in between. Three more variables are history: `stored` is the state each group was stored
with, and `spoiled` whether a run has read a group of `half`.

`StatesAreKept` is the promise of the README, "The SQL generated is safe to apply against
the database with Synapse running": every group has the state it was stored with, save
those on whose chain a group is half-written. Such a group has a wrong state until the file
is applied again to its end, which leaves each of its groups with the file's row and none
half-written (`ApplyingAgainRepairs`), unless a run of a compressor
reads it first (`spoiled`) and writes what it saw to the groups below.

### StateStore and the refinement

`StateStore` has one variable, the state of each group, and one action: a new
group gets a state. `AutoCompressor` implements it with
`Store == INSTANCE StateStore WITH state <- Collapse(db)`: the property
`StatesAreKept` says that every step of the tool, crashes included, is a stutter
for Synapse, and a step of Synapse adds a group and nothing else.

### Definitions named "Mutant"

Some operators carry a comment "Mutant": they are plausible wrong versions of the
definition that follows them and are used by nothing. Each property is checked to
fail when a definition is replaced by one of them, as listed in `PROJECT.json`.

## 3. What TLC checks

| run | instance | what it asks |
|---|---|---|
| `compressor_fresh` | all maps of 3 groups, any in range, 2 keys of which one has two values; four level lists | `StatesMatch`, `PartialWriteSafe`, `RunningAgainRepeats` |
| `compressor_deep` | all maps of 5 groups in range, one key per delta; levels 2,2 and 1,3 and 2; and lines of 14 groups, whole or in segments of 3, on levels 3,3 and 2,1,2 and 1,2,2 and 4 | `LengthsBoundChains`, `ChainsBounded`, `StructureIsCorrect`, `Terminates` |
| `compressor_restored` | 2 old groups that saved levels refer to, 2 new ones; all heads loaded or group 2 missing | `LevelsRestorable`, `CountCoversChanges`, `BaseIsStored` |
| `auto_states` | one room of 3 groups and one that Synapse adds, chunks of 2, levels 2 or 1,1, crashes anywhere | `StatesAreKept`, `CallIsLegal`, `HeadsAreLoaded`, `SavedLengthsBoundChains`, `SentChainsBounded`, `SavedIsReadable`, `DoneStaysDone` |
| `auto_progress` | two rooms with interleaved groups, the first of which may have no state, so that a chunk has no rows; chunks of 1 and 2, one or two chunks per run; fairness | `NoGroupIsPassed`, `ChunkIsWhole`, `AlwaysFindsWork`, `ProgressGrows`, `EventuallyCompressed` |
| `auto_odd` | groups only in the edges table, ids committed out of order, a lost head, chunk size 0, level size 0 | `StatesAreKept`, `CallIsLegal`, `SavedLengthsBoundChains`, `SentChainsBounded` |
| `manual_states` | one room of 3 groups, one of which may be in the edges table only, and one that Synapse adds; five sets of arguments, run again and again: files with and without transactions, commits, both; ranges, with a minimum alone, a number of groups, a maximum; crashes and psql breaking off anywhere; fairness | `StatesAreKept`, `ApplyingAgainRepairs`, `EdgesLeadBack`, `RewritesStayInRange`, `RunEnds` |
| `compressor_count` | (fails) the maps of `compressor_deep` | `CountIsChanges` |
| `auto_lost_head` | (fails) | `HeadsAreLoaded` |
| `auto_zero_size` | (fails) | `SavedIsReadable` |
| `auto_stale_level` | (fails) | `SkipResetsLevels` |
| `manual_max` | (fails) the instance of `manual_states` | `RewritesStayBelowMax` |

`TypeOK` is checked in `compressor_fresh`, `auto_states` and `manual_states`.

**Bounds.** Three groups are the fewest where a base can fail, its predecessor can
fit, and both can have changed; five fill two levels of size 2 and restart both.
One key with two values tells an overwrite from an addition, a second key tells a
base that fits from one that does not. The automatic tool needs a chunk to be
finished, one to be interrupted, and a group that appears late: three groups, chunks
of one and two, one new group (two in `auto_progress`). `auto_odd` uses a hand-made room of seven groups
because a lost head needs a second level whose head is an unlisted group that no
later group follows from. Fourteen groups in a line go once round levels of 3,3 and show
the third level of 2,1,2 and 1,2,2 restart. `manual_states` has no bound on the number of
runs: with three groups a run splits the chains, the next joins them, and the file of a
third is still waiting; its databases include groups that restate their predecessor, so
that a row can shrink, grow or move. `NewGroups` bounds what Synapse stores, `MaxGroup` the
ids; nothing else grows without bound, since levels have sizes and chunks are
counted down.

**Deadlock** is not checked for the compressor alone, which stops when it is
done. The automatic tool can always be started, or crash; so can the manual one,
unless psql applies a file without transactions, and then psql moves.

**Fairness.** `Compressor` is a sequential loop: `WF(Next)`. The automatic tool is a
sequential process, so it takes its next step (`WF(Step)`; errors and kills are
`Crash`, on which there is no fairness), and it is started again and again
(`WF(Start)`), as by the cron job that the repository's README suggests.
`EventuallyCompressed` assumes that crashes cease: a tool killed in each chunk gets
nowhere. The manual tool takes its next step (`WF(Step)`), and so does psql (`WF(Psql)`);
neither is ever started for certain. `RunEnds` excepts one case the code really has
(`Stuck`): `get_missing_from_db` finds a group by the edges that lead to it, so when another
writer moves them after they were read, the loop of `load_map_from_db` asks for ever.

**What the properties except.** Some of what can go wrong does, and nothing in the code
prevents it; the properties that come near say so in a condition of their own, and the
hazards in `PROJECT.json` name none for it:

* a group that becomes visible below an end of a chunk that was already used is never
  compressed: `NoGroupIsPassed` and `ChunkIsWhole` assume that ids become visible in order
  (`InOrder`); `StatesAreKept` is checked without that, too (`auto_odd`);
* with `chunk_size` 0 the tool finds nothing to do: `AlwaysFindsWork` speaks of positive sizes;
* without `-t` Synapse may read a half-written group, and a run of the tool may copy what it
  reads of it: `StatesAreKept` of `ManualCompressor` excepts both (`half`, `spoiled`);
* the loop of `load_map_from_db` may never end: `RunEnds` excepts it (`Stuck`).

### Disagreements between the code and what is said of it

* `compressor_count`: `state_groups_changed` is documented as the number of groups
  that changed; it counts attempts, some of which end with the row as it was.
  `CountCoversChanges` is what holds.
* `auto_lost_head`: the heads of the levels are documented to be loaded. One that is
  only in the edges table is not, and the run panics if a level asks for it.
* `auto_zero_size`: a level size of 0 is accepted; after the first chunk the room's
  saved levels are refused, and since it remains the room with the lowest
  uncompressed group, no later run gets anywhere.
* `auto_stale_level`: skipping a chunk is said to reset the levels, but only as many
  rows are written as there are default levels.
* `manual_max`: only groups below `max_state_group` are said to be compressed; the group
  itself is, too. `RewritesStayInRange` is what holds.

None of them changes the state of a group; `auto_odd` has those of the automatic tool.

## 4. What is proved

`CompressorProofs`, for every finite set of keys, all events, all bounds on the ids and
every call that satisfies `CallsAssumption`:

* `TypeCorrect`: `TypeOK`;
* `CompressionKeepsStates`: `StatesMatch`;
* `PartialWritesKeepStates`: `PartialWriteSafe`;
* `BasesAreStored`: `BaseIsStored`;
* `LoadedHeadsSuffice`: `NoPanic`, if the heads of each call are in its map;
* `LevelsStayRestorable`: `LevelsRestorable`, if the levels of each call are of positive
  size and could be restored themselves;
* `CountsCoverChanges`: `CountCoversChanges`;
* `StepsRunOut`: every step makes a natural number smaller, so that compressing ends; this
  is what a proof can say of `Terminates`.

`ReferenceProofs`, for calls with empty levels:

* `RepeatsFromAnyMix`: `RunningAgainRepeats`;
* `StructureFollowsSizes`: `StructureIsCorrect`, for levels of positive sizes and maps of
  consecutive groups that are all in range, of any length.

`ChainProofs`, for the calls whose levels are true of their map, that is, whose lengths
bound the chains of their heads (`CallsBoundChains`; empty levels are):

* `LengthsAreBounds`: `LengthsBoundChains`;
* `SizesBoundChains`: `ChainsBounded`.

`AutoCompressorProofs`, for all rooms, databases, command lines and groups Synapse may
store that satisfy the assumptions of `AutoCompressor`:

* `CompressorIsNotSeen`: `StatesAreKept`, that is, the tool implements `StateStore`;
* `CallsAreLegal`: `CallIsLegal`, which is `CallsAssumption` for each chunk;
* `SavedStaysReadable`: `SavedIsReadable`, if the level sizes are positive
  (`auto_zero_size` shows that they must be);
* `LevelHeadsAreLoaded`: `HeadsAreLoaded`, and `ToolNeverPanics`: no lookup of the compressor
  fails, if every group that is in the edges table at first is in `state_groups`, too
  (`EverythingListed`; `auto_lost_head` shows that it must be);
* `TypeCorrect`: `TypeOK`.

`AutoProgressProofs` and `AutoChainProofs`, under the same assumptions and those in
brackets:

* `ProgressNeverGoesBack`: `ProgressGrows` (at least one default level: without any, the
  progress of a room is saved with no levels to find it by, and read as none);
* `WorkIsFound`: `AlwaysFindsWork` (chunks of at least one group);
* `NoneIsPassed`: `NoGroupIsPassed` (at least one default level; `InOrder`: a new group is
  newer than all that are visible);
* `ChunksAreWhole`: `ChunkIsWhole` (`InOrder`);
* `DoneRowsStay`: `DoneStaysDone` (at least one default level; edges stay in their rooms);
* `SavedLengthsAreBounds`: `SavedLengthsBoundChains` (edges stay in their rooms);
* `SizesBoundSentChains`: `SentChainsBounded` (edges stay in their rooms).

That edges stay in their rooms (`EdgesStayInRooms`) is Synapse's doing: it says of the
database the tool is first run on that its groups, those that are only in the edges table,
too, can be given rooms such that no edge leads to another room. `SavedLengthsBoundChains`
and the two theorems next to it would be false without it, as a chunk of one room could
rewrite the chains of another.

`ManualCompressorProofs`, for all databases, arguments and groups Synapse may store that
satisfy the assumptions of `ManualCompressor`:

* `StatesStayKept`: `StatesAreKept`;
* `EdgesAlwaysLeadBack`: `EdgesLeadBack`;
* `RangeIsRespected`: `RewritesStayInRange`;
* `FileMayBeAppliedAgain`: `ApplyingAgainRepairs`;
* `TransactionsAreNotSeen`: the tool and psql implement `StateStore`, as the automatic tool
  does, if files are written with `-t` (`OnlyTransactions`): the README of the tool says of
  `-t` that it "should be done if you wish to apply the changes while synapse is still running";
* `TypeCorrect`: `TypeOK`.

**The compressor.** `StatesMatch` is not inductive: it speaks of whole chains, and a
chain may run through any group placed before. The invariant `Inv` says instead of
every single row of the new map that it leads from the *original* state of its
predecessor to the original state of its group (`Solves(Original, newMap)`). A step
adds one row, which is right because the delta from a base that fits restores the
state (`DeltaRestores`); the other rows are untouched. On a well-formed map, one
whose predecessors are in the map and older, this equation has only one solution
(`SolutionsAgree`), which is `Collapse(newMap)` (`CollapseSolves`). Hence
`StatesMatch`. And since the equation holds row by row, it holds of any mix of old
and new rows, which is `PartialWriteSafe`.

The remaining parts of `Inv` keep the new map well formed: it consists of the oldest
groups (`Prefix`), and heads and bases are older than what is still to be placed
(`HeadsBelow`), so a base is always in the new map unless it was never loaded
(`BasesLoaded` excludes that).

`CountCoversChanges` needs to know of the change that is counted and not yet made while
`get_delta` runs (`ChangesCounted`). The number that falls (`Rank`) is the groups that are
left, times one more than a group can take steps, plus the base that is being tried.

**What the compressor computes.** `RefInv` says of a state in the middle of a run that the
levels are those the reference gives for the current group, that every group in the new map
has the row the reference gives it, and that the bases `get_delta` has still to try are the
only ones that can fit. When all groups are placed, that is `IsCompression(newMap, orig)`.
A mix of old and new rows has the states of the original map (`PartialWriteSafe`) and the same
groups, so the reference asks for the same heads, and for the same bases on the chains of the
new map; where the mix has a group's new row already and that has the predecessor that is
asked for, the row is kept, and is the one that would be computed (`MixIsLikeOriginal`).

For the structure, the groups a level is offered are counted (`Counted`): if level i has been
offered `c[i]` groups and holds `len`, then `c[i] = c[i+1] * max + len`, as it passes a group on
each time it restarts, that is, a division with remainder (`DivMod`). `p[i]`, the number of the
next group level i is offered, is a distance after its head; the levels the scan gets to have
it at the current group (`VisitedOffered`), and the one it stops at has the head that
`StepBack` asks for (`CandidateIsBack`). `Offered` and `Distances` are recursive
functions over the levels; that they satisfy their equations is `SequenceRecursion`.

**Chains.** `AllowedLength` and `MaxChain` are sums over the levels, written as a recursive
function, `Reach`, so that they can be reasoned about: a sum over more or larger numbers is
larger (`ReachGrows`), a sum from a later level smaller (`ReachFalls`). Placing a group lets
the levels it becomes the head of allow one more than the level of its candidate, and leaves
what the others allow alone (`PlaceAllows`). `ChainInv` adds to the two properties what they
need in between: a head that is loaded but not placed yet is older than all groups in range, so its chain
will be copied as it was (`HeadsToCome`), and while `get_delta` walks up, the group would fit on
whatever base it is at (`BaseBound`): a walk only ever shortens the chain. A level of size 0
gets length 1 and is harmless here, because the first group of a level does not add to the
sum (`Excess`).

**The automatic tool.** A chunk's compressor is a copy of `Compressor`, so what is proved
there may be cited (`ChunkStarts`, `ChunkSteps`, `ChunkFacts`), provided the chunk is
called as it should be. The invariant follows what that needs from query to query:
the heads a room has saved are at or below its progress (`StoredInv`); the levels in
memory are at or below the start of the chunk, the chunk ends above it (`JobInv`); what is
loaded has the rows of the tables, and is in range only between start and end
(`MapInv`). Once all predecessors are loaded, the states in the map are those in the
tables (`PartCollapse`), and stay so (`ChunkInv`), although rows are replaced one by one:
a new row asks for the state its group has, so replacing it changes no state
(`ReplaceCollapse`), and a group stored meanwhile only adds one (`InsertCollapse`).

`ProgressInv`, `WorkInv` and `WholeInv` say what each query relies on of those before it:
that a room with progress has levels to find it by, that the room picked has a group after
the start of the chunk, and that the groups up to the end of the chunk are the ones that are
loaded, as a group stored later is newer than that end. `PassedInv` says that all groups below
the lowest one are behind the progress of their rooms. `RoomInv` gives every group a
room, `CopyInv` says that only groups in range are ever pending, and in range means after
the start of the chunk, where nothing is done yet: hence `DoneStaysDone`. The same two keep
the chains of saved heads out of reach of `send_changes_to_db` (`SendGroupChains`): they are
those of other rooms, or end before the start. `ChainsInv` ties the chains in memory to those
in the tables, from the loaded map (`AllLoadedChainsInv`) to the sent one (`SentChains`), and
covers heads that were never loaded (`LostBounded`) and the levels of an earlier command
line that a shorter one leaves behind (`WrittenAllows`).

`LoadedInv` follows the heads: what is saved for a room are groups of the database, whose
rows are loaded with the heads of the levels, and stay in the map while the predecessors are
added. `state_groups` keeps up with the edges because Synapse stores a group in both.

**The manual tool.** Here rows outlive what they were computed from: those in memory and in
the file are as old as one likes, and other runs have rewritten the tables since. So the
invariant cannot compare them with the tables. It compares every row, wherever it is, with
the states the groups were *stored* with, which never change: a row is `Good` if it leads
from the state of its predecessor to that of its group. The rows of the tables are good
except the half-written ones (`TablesInv`), so are those a run has loaded (`MapInv`), those
it computes from them (`NewRowGood`, from the theorems about the compressor and because
`stored` solves the equations of the map that was loaded), and those in the file (`FileInv`).
A good row may replace another whatever that was (`RewriteInv`). In any set of fully written
groups that has the predecessors of its groups, good rows add up to `stored`
(`InvKeepsStates`). For `RewritesStayInRange` the proofs of the compressor gained `CopiesKept`:
a group out of range keeps its row. For `ApplyingAgainRepairs` the groups of the file are in
order (`OrderInv`), so no statement touches a group that psql is through with
(`PassedIsWritten`), and at the end of the file that is all of them. With `-t`
no group is ever half-written (`WholeInv`), so the tables hold exactly `stored`
(`TablesHoldStates`), which only Synapse adds to (`PromisesAreStore`).

`ManualCompressor` and `CompressorProofs` each bring a copy of the definitions of
`Compressor`; the first lemmas (`SameActions`, `SameWords`, `SameTypes`) show that the copies
agree, so that theorems can be carried over.

**Assumptions.** Those the modules declare: `Keys` is finite, the sentinels are
distinct from ordinary values, `MaxGroup` is a natural number; `CallsAssumption`; there is
a room; the database holds well-formed maps, and rooms for some of their groups; a
command line gives empty levels and at least one chunk; the manual tool's arguments are a
`Config`; new groups and deltas are groups
and state maps. TLC evaluates them in every run.

**Recursion.** `Collapse`, `ChainLength`, `LevelsAt` and `Ancestry` are recursive functions on a
map, `Reach`, `Offered` and `Distances` on a sequence. That such functions exist at all is
proved once for maps (`RecursionExists`, `MapRecursion`) and once for sequences
(`SequenceRecursion`; `ReachExists` for `Reach`, which starts at the end), from the least-number principle, since the induction theorems of the
library are out of the provers' reach.

**Only model-checked**: liveness (`Terminates`, `EventuallyCompressed`, `RunEnds`), which TLAPS
does not support. Every invariant and every other action property of a passing run is also a
theorem, some under the conditions named above.

## 5. What is not modelled

* Transactions that overlap on one group. The tools use the isolation level Postgres gives
  them, READ COMMITTED, at which the DELETE of one would not see rows the other is inserting;
  the model takes transactions that rewrite the same group to follow each other. Nothing in
  the code keeps two compressors, or one and psql, from such a collision.
* A file without transactions applied *while* the tool runs, and a file replaced while psql
  reads it. Files applied between runs, and files with transactions during a run, are modelled.
* A file cut off inside the SQL of a group. It ends after some group, which psql then treats
  as the whole file.
* A manual run between two runs of the automatic tool. The states are safe, as the rows either
  leaves are good for the other; but chains may outgrow the lengths saved for the automatic
  tool.
* Parsing and printing: command lines, the Python modules that call them, SQL text,
  `PGEscape`, graphs (`-g`), progress bars, logs. The SQL of a group is modelled by its effect.
* The integration tests, except for the structure their fixtures expect.
* Widths of integers: ids are `i64` from a sequence, sizes and lengths are stored as
  `i32`; reaching a limit is out of the question for ids, and for level sizes would
  take a chain of that length.
* Synapse itself, except that it reads the state of groups and stores new ones in the
  room of their predecessor. Deleting (purging) groups is left out.

## 6. Plan

Done:

1. `StateGroups`, `Levels`, `Compressor` and their runs.
2. `StateStore`, `AutoCompressor` and their runs.
3. `StateGroupsProofs`, `CompressorProofs`: states are kept.
4. The disagreements above.
5. `AutoCompressorProofs`: `StatesAreKept` for every database, from the theorems about
   the compressor.
6. `CompressorReference`: what the algorithm computes, and that doing it over gives the
   same rows.
7. `ManualCompressor`: `run`, with its bounds, thresholds and both outputs, psql, and more
   than one writer.
8. `ManualCompressorProofs`: its safety properties for every database.
9. `ChainProofs`, `AutoChainProofs`: the bounds on chains and saved lengths.
10. `AutoProgressProofs`: how progress is kept.
11. `ReferenceProofs`: what the algorithm computes, for all maps and levels; the counts, the
    steps, the lookups and the refinement of `StateStore` by the manual tool.

Left:

12. Both tools on one database: first one after the other, for the chains (section 5), then
    at the isolation level they get.
13. What `RunningAgainRepeats` says, for chunks that start from saved levels.
