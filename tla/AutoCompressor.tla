--------------------------- MODULE AutoCompressor ---------------------------
(***************************************************************************)
(* synapse_auto_compressor at work on Synapse's database (manager.rs and   *)
(* state_saving.rs; continue_run in src/lib.rs; src/database.rs).  Every   *)
(* query and every transaction is a step of its own; between two of them   *)
(* Synapse may store new state groups, and the compressor may crash.  The  *)
(* compression of a chunk, in the middle, is the module Compressor.        *)
(*                                                                         *)
(* One compressor runs at a time.  Synapse stores new groups and leaves    *)
(* stored ones alone.                                                      *)
(***************************************************************************)
EXTENDS Levels, FiniteSetsExt

CONSTANTS
  Rooms,
  Databases,  \* what the database may hold when the compressor is first run
  Arguments,  \* the command lines it is run with
  NewGroups,  \* the ids of the groups Synapse stores meanwhile
  NewDeltas,  \* their deltas
  InOrder     \* whether new groups become visible in the order of their ids

VARIABLES
  \* Synapse's tables.
  db,         \* group -> row: state_group_edges and state_groups_state
  roomOf,     \* group -> room: state_groups, which may lack groups of db
  \* The compressor's tables.
  saved,      \* room -> levels: state_compressor_state
  progress,   \* room -> last_compressed or NoGroup: state_compressor_progress
  lowest,     \* lowest_uncompressed_group: state_compressor_total_progress
  \* The process.
  pc,         \* the query or transaction that is next
  args,       \* the command line
  chunks,     \* number_of_chunks - chunks_processed
  job,        \* the room, start and max_group_found of the chunk
  pending,    \* the groups whose new rows are still to be sent
  \* The compressor of the chunk; orig is also where the map is loaded.
  orig, levels, newMap, base, stats, panicked

tables     == <<db, roomOf, saved, progress, lowest>>
process    == <<pc, args, chunks, job, pending>>
compressor == <<orig, levels, newMap, base, stats, panicked>>
vars       == <<tables, process, compressor>>

C == INSTANCE Compressor WITH Calls <- {}

ASSUME RoomsAssumption == Rooms # {}

ASSUME DatabasesAssumption ==
  \A d \in Databases :
    /\ DOMAIN d.db \subseteq Groups
    /\ d.db \in [DOMAIN d.db -> Row]
    /\ WellFormed(d.db)
    /\ DOMAIN d.roomOf \subseteq DOMAIN d.db
    /\ d.roomOf \in [DOMAIN d.roomOf -> Rooms]

ASSUME ArgumentsAssumption ==
  \A a \in Arguments :
    /\ a.chunk_size \in Nat
    /\ a.number_of_chunks \in Nat \ {0}
    /\ a.default_levels \in Seq(Level)
    /\ Heads(a.default_levels) = {}
    /\ \A i \in DOMAIN a.default_levels : a.default_levels[i].len = 0

ASSUME NewGroupsAssumption ==
  NewGroups \subseteq Groups /\ NewDeltas \subseteq StateMaps

NoArgs == [chunk_size |-> 0, default_levels |-> <<>>, number_of_chunks |-> 0]
NoJob  == [room |-> CHOOSE r \in Rooms : TRUE, start |-> NoGroup, max |-> NoGroup]

Listed(room) == {g \in DOMAIN roomOf : roomOf[g] = room}

\* The types of the variables; what is still to be sent is in the loaded map.
TypeOK ==
  /\ DOMAIN db \subseteq Groups
  /\ db \in [DOMAIN db -> Row]
  /\ DOMAIN roomOf \subseteq DOMAIN db
  /\ roomOf \in [DOMAIN roomOf -> Rooms]
  /\ saved \in [Rooms -> Seq(Level)]
  /\ progress \in [Rooms -> OptGroup]
  /\ lowest \in Groups \cup {0}
  /\ pc \in {"idle", "crashed", "pick", "save_lowest", "read", "find", "heads", "initial",
             "missing", "compress", "send", "save", "skip"}
  /\ args \in Arguments \cup {NoArgs}
  /\ chunks \in Nat
  /\ job \in [room : Rooms, start : OptGroup, max : OptGroup]
  /\ pending \subseteq DOMAIN orig
  /\ C!TypeOK

Init ==
  /\ \E d \in Databases : db = d.db /\ roomOf = d.roomOf
  /\ saved = [r \in Rooms |-> <<>>]
  /\ progress = [r \in Rooms |-> NoGroup]
  /\ lowest = 0
  /\ pc = "idle"
  /\ args = NoArgs
  /\ chunks = 0
  /\ job = NoJob
  /\ pending = {}
  /\ orig = <<>>
  /\ levels = <<>>
  /\ newMap = <<>>
  /\ base = NoGroup
  /\ stats = C!NoStats
  /\ panicked = FALSE

-----------------------------------------------------------------------------
\* compress_chunks_of_database, up to its loop.
Start ==
  /\ pc \in {"idle", "crashed"}
  /\ args' \in Arguments
  /\ chunks' = args'.number_of_chunks
  /\ pc' = "pick"
  /\ UNCHANGED <<tables, job, pending, compressor>>

\* Nothing is left in memory of the chunk.
Clear ==
  /\ job' = NoJob
  /\ pending' = {}
  /\ orig' = <<>>
  /\ levels' = <<>>
  /\ newMap' = <<>>
  /\ base' = NoGroup
  /\ stats' = C!NoStats
  /\ panicked' = FALSE

\* The process ends.
End ==
  /\ args' = NoArgs
  /\ chunks' = 0
  /\ Clear

\* ... by itself: done, an error of its own, or a panic.
Stop == pc' = "idle" /\ End

\* The groups get_next_room_to_compress looks for.
Uncompressed(g) ==
  progress[roomOf[g]] = NoGroup \/ g > progress[roomOf[g]]

\* Mutant: the last group of a chunk counts as uncompressed.
CandidatesInclusive ==
  {g \in DOMAIN roomOf :
     g >= lowest /\ (progress[roomOf[g]] = NoGroup \/ g >= progress[roomOf[g]])}

Candidates == {g \in DOMAIN roomOf : g >= lowest /\ Uncompressed(g)}

\* The query of get_next_room_to_compress; it leaves the id it found in max
\* until the next query needs it.
PickRoom ==
  /\ pc = "pick"
  /\ Candidates # {}
  /\ LET g == Min(Candidates)
     IN  job' = [room |-> roomOf[g], start |-> NoGroup, max |-> g]
  /\ pc' = "save_lowest"
  /\ UNCHANGED <<tables, args, chunks, pending, compressor>>

NoRoomLeft ==
  /\ pc = "pick"
  /\ Candidates = {}
  /\ Stop
  /\ UNCHANGED tables

\* Mutant: the group that was found is taken as done.
SaveLowestPast ==
  /\ pc = "save_lowest"
  /\ lowest' = job.max + 1
  /\ job' = [job EXCEPT !.max = NoGroup]
  /\ pc' = "read"
  /\ UNCHANGED <<db, roomOf, saved, progress, args, chunks, pending, compressor>>

\* Mutant: the start, which is not known yet, is saved.
SaveStart ==
  /\ pc = "save_lowest"
  /\ lowest' = job.start
  /\ job' = [job EXCEPT !.max = NoGroup]
  /\ pc' = "read"
  /\ UNCHANGED <<db, roomOf, saved, progress, args, chunks, pending, compressor>>

SaveLowest ==
  /\ pc = "save_lowest"
  /\ lowest' = job.max
  /\ job' = [job EXCEPT !.max = NoGroup]
  /\ pc' = "read"
  /\ UNCHANGED <<db, roomOf, saved, progress, args, chunks, pending, compressor>>

\* What read_room_compressor_state asks of each row.  It also refuses levels
\* that are missing or double and rows without progress, which no write of
\* write_room_compressor_state leaves behind.
Readable(level) ==
  /\ level.head = NoGroup => level.len = 0
  /\ level.len =< level.max

\* Mutant: the lengths of the levels are not restored.
ReadStateEmpty ==
  /\ pc = "read"
  /\ IF saved[job.room] = <<>>
     THEN levels' = args.default_levels /\ job' = job
     ELSE /\ levels' = [i \in DOMAIN saved[job.room] |-> [saved[job.room][i] EXCEPT !.len = 0]]
          /\ job' = [job EXCEPT !.start = progress[job.room]]
  /\ pc' = "find"
  /\ UNCHANGED <<tables, args, chunks, pending, orig, newMap, base, stats, panicked>>

ReadState ==
  /\ pc = "read"
  /\ \A i \in DOMAIN saved[job.room] : Readable(saved[job.room][i])
  /\ IF saved[job.room] = <<>>
     THEN levels' = args.default_levels /\ job' = job
     ELSE levels' = saved[job.room] /\ job' = [job EXCEPT !.start = progress[job.room]]
  /\ pc' = "find"
  /\ UNCHANGED <<tables, args, chunks, pending, orig, newMap, base, stats, panicked>>

CannotReadState ==
  /\ pc = "read"
  /\ \E i \in DOMAIN saved[job.room] : ~ Readable(saved[job.room][i])
  /\ Stop
  /\ UNCHANGED tables

-----------------------------------------------------------------------------
\* reload_data_from_db.

\* Mutant: the last group of the previous chunk is compressed again.
FromStart(g) == job.start = NoGroup \/ g >= job.start

AfterStart(g) == job.start = NoGroup \/ g > job.start

\* Mutant: the groups are counted from the beginning of the room.
ChunkFromBeginning ==
  {g \in Listed(job.room) :
     Cardinality({h \in Listed(job.room) : h =< g}) =< args.chunk_size}

\* The first chunk_size groups of the room after start.
Chunk ==
  LET after == {g \in Listed(job.room) : AfterStart(g)}
  IN  {g \in after : Cardinality({h \in after : h =< g}) =< args.chunk_size}

\* Mutant: the progress is saved before the chunk is sent.
FindMaxGroupEarly ==
  /\ pc = "find"
  /\ Chunk # {}
  /\ job' = [job EXCEPT !.max = Max(Chunk)]
  /\ progress' = [progress EXCEPT ![job.room] = Max(Chunk)]
  /\ pc' = "heads"
  /\ UNCHANGED <<db, roomOf, saved, lowest, args, chunks, pending, compressor>>

FindMaxGroup ==
  /\ pc = "find"
  /\ Chunk # {}
  /\ job' = [job EXCEPT !.max = Max(Chunk)]
  /\ pc' = "heads"
  /\ UNCHANGED <<tables, args, chunks, pending, compressor>>

\* "Ran the compressor on a room that had no more work to do!"
NothingFound ==
  /\ pc = "find"
  /\ Chunk = {}
  /\ Stop
  /\ UNCHANGED tables

Load(g, in_range) ==
  [in_range |-> in_range, prev |-> db[g].prev, delta |-> db[g].delta]

\* Mutant: the heads are not loaded.
LoadNoHeads ==
  /\ pc = "heads"
  /\ pc' = "initial"
  /\ UNCHANGED <<tables, args, chunks, job, pending, compressor>>

LoadLevelHeads ==
  /\ pc = "heads"
  /\ orig' = [g \in Heads(levels) \cap DOMAIN roomOf |-> Load(g, FALSE)]
  /\ pc' = "initial"
  /\ UNCHANGED <<tables, args, chunks, job, pending, levels, newMap, base, stats, panicked>>

\* Mutant: the last group of the chunk is not loaded.
GetInitialDataExclusive ==
  /\ pc = "initial"
  /\ LET initial == {g \in Listed(job.room) : AfterStart(g) /\ g < job.max}
     IN  orig' = [g \in DOMAIN orig \cup initial |->
                    IF g \in initial THEN Load(g, TRUE) ELSE orig[g]]
  /\ pc' = "missing"
  /\ UNCHANGED <<tables, args, chunks, job, pending, levels, newMap, base, stats, panicked>>

\* BTreeMap::append lets the new rows replace those of the heads.
GetInitialData ==
  /\ pc = "initial"
  /\ LET initial == {g \in Listed(job.room) : AfterStart(g) /\ g =< job.max}
     IN  orig' = [g \in DOMAIN orig \cup initial |->
                    IF g \in initial THEN Load(g, TRUE) ELSE orig[g]]
  /\ pc' = "missing"
  /\ UNCHANGED <<tables, args, chunks, job, pending, levels, newMap, base, stats, panicked>>

Missing == {orig[g].prev : g \in DOMAIN orig} \ (DOMAIN orig \cup {NoGroup})

\* One round of the loop of load_map_from_db.  A group that is only in the
\* edges table counts as in range when the chunk has a start.
GetMissing ==
  /\ pc = "missing"
  /\ Missing # {}
  /\ orig' = [g \in DOMAIN orig \cup Missing |->
                IF g \in Missing
                THEN Load(g, job.start # NoGroup /\ job.start < g /\ g =< job.max)
                ELSE orig[g]]
  /\ UNCHANGED <<tables, process, levels, newMap, base, stats, panicked>>

AllLoaded ==
  /\ pc = "missing"
  /\ Missing = {}
  /\ pc' = "compress"
  /\ UNCHANGED <<tables, args, chunks, job, pending, compressor>>

-----------------------------------------------------------------------------
\* continue_run, once the map is loaded.

Compress ==
  /\ pc = "compress"
  /\ C!Next
  /\ UNCHANGED <<tables, process>>

\* collapse_state_maps panics, and the process with it.
Panic ==
  /\ pc = "compress"
  /\ panicked
  /\ Stop
  /\ UNCHANGED tables

NumRows(map) ==
  SumFunctionOnSet([g \in DOMAIN map |-> Size(map[g].delta)], DOMAIN map)

\* The chunk would grow: ratio > 1.0.
Abort ==
  /\ pc = "compress"
  /\ C!Done
  /\ NumRows(newMap) > NumRows(orig)
  /\ pc' = "skip"
  /\ UNCHANGED <<tables, args, chunks, job, pending, compressor>>

\* The groups generate_sql writes SQL for.
ChangedGroups == {g \in DOMAIN orig : newMap[g] # orig[g]}

\* check_that_maps_match lets a wrong map not pass: the process panics.
Accept ==
  /\ pc = "compress"
  /\ C!Done
  /\ NumRows(newMap) =< NumRows(orig)
  /\ C!StatesMatch
  /\ pending' = ChangedGroups
  /\ pc' = "send"
  /\ UNCHANGED <<tables, args, chunks, job, compressor>>

\* Mutant: the edge and the rows of a group are changed one after the other.
SendEdgeFirst ==
  /\ pc = "send"
  /\ pending # {}
  /\ LET g == Min(pending)
     IN  IF db[g].prev # newMap[g].prev
         THEN db' = [db EXCEPT ![g].prev = newMap[g].prev] /\ pending' = pending
         ELSE db' = [db EXCEPT ![g].delta = newMap[g].delta] /\ pending' = pending \ {g}
  /\ UNCHANGED <<roomOf, saved, progress, lowest, pc, args, chunks, job, compressor>>

\* send_changes_to_db, a transaction for each group that changes.
SendGroup ==
  /\ pc = "send"
  /\ pending # {}
  /\ LET g == Min(pending)
     IN  /\ db' = [db EXCEPT ![g] = [prev |-> newMap[g].prev, delta |-> newMap[g].delta]]
         /\ pending' = pending \ {g}
  /\ UNCHANGED <<roomOf, saved, progress, lowest, pc, args, chunks, job, compressor>>

AllSent ==
  /\ pc = "send"
  /\ pending = {}
  /\ pc' = "save"
  /\ UNCHANGED <<tables, args, chunks, job, pending, compressor>>

\* write_room_compressor_state: rows are inserted or updated, never deleted.
WriteState(info) ==
  /\ saved' = [saved EXCEPT ![job.room] =
                 info \o SubSeq(@, Len(info) + 1, Len(@))]
  /\ progress' = [progress EXCEPT ![job.room] = job.max]
  /\ UNCHANGED <<db, roomOf, lowest>>

\* On to the next chunk, if any.
ChunkDone ==
  IF chunks > 1
  THEN pc' = "pick" /\ chunks' = chunks - 1 /\ args' = args /\ Clear
  ELSE Stop

SaveState ==
  /\ pc = "save"
  /\ WriteState(levels)
  /\ ChunkDone

\* Mutant: the levels are saved as if the chunk had been sent.
SkipAsSent ==
  /\ pc = "skip"
  /\ WriteState(levels)
  /\ ChunkDone

\* Mutant: the levels are saved but not how far the room was compressed.
SkipInPlace ==
  /\ pc = "skip"
  /\ saved' = [saved EXCEPT ![job.room] =
                 args.default_levels \o SubSeq(@, Len(args.default_levels) + 1, Len(@))]
  /\ UNCHANGED <<db, roomOf, progress, lowest>>
  /\ ChunkDone

SkipChunk ==
  /\ pc = "skip"
  /\ WriteState(args.default_levels)
  /\ ChunkDone

-----------------------------------------------------------------------------
\* The process is killed, or a query fails.
Crash ==
  /\ pc \notin {"idle", "crashed"}
  /\ pc' = "crashed"
  /\ End
  /\ UNCHANGED tables

\* Synapse stores a new group of a room: a delta from an older group of the
\* room, or a full state.
StoreGroup ==
  \E g \in NewGroups \ DOMAIN db, room \in Rooms, delta \in NewDeltas :
    \E prev \in {h \in Listed(room) : h < g} \cup {NoGroup} :
      /\ InOrder => \A h \in DOMAIN db : h < g
      /\ db' = Insert(db, g, [prev |-> prev, delta |-> delta])
      /\ roomOf' = Insert(roomOf, g, room)
      /\ UNCHANGED <<saved, progress, lowest, process, compressor>>

Step ==
  \/ PickRoom \/ NoRoomLeft \/ SaveLowest \/ ReadState \/ CannotReadState
  \/ FindMaxGroup \/ NothingFound \/ LoadLevelHeads \/ GetInitialData
  \/ GetMissing \/ AllLoaded \/ Compress \/ Panic \/ Abort \/ Accept
  \/ SendGroup \/ AllSent \/ SaveState \/ SkipChunk

Next == Start \/ Step \/ Crash \/ StoreGroup

Spec == Init /\ [][Next]_vars

\* A process that has been started takes its next step, and it is started
\* again and again, as by a cron job.
FairSpec == Spec /\ WF_vars(Step) /\ WF_vars(Start)

-----------------------------------------------------------------------------
\* The states Synapse finds in its tables.
Store == INSTANCE StateStore WITH state <- Collapse(db)

\* Synapse never sees the compressor: at every moment, between any two
\* transactions and after any crash, each group has the state it was stored
\* with (README.md: the compressor can run while Synapse does).
StatesAreKept == Store!Spec

\* The map and the levels a chunk is compressed with are what the compressor
\* is made for (CallsAssumption of Compressor): the predecessors have been
\* loaded, and the heads are older than all the groups in range.
CallIsLegal ==
  pc = "compress" =>
    /\ IsGroupMap(orig)
    /\ WellFormed(orig)
    /\ newMap = <<>> /\ base = NoGroup =>
         \A head \in Heads(levels), g \in DOMAIN orig :
           orig[g].in_range => head < g

\* "It also loads in the state groups from the heads of each of the levels"
\* (src/database.rs): the compressor finds all the groups it may build upon.
HeadsAreLoaded ==
  pc = "compress" /\ newMap = <<>> => Heads(levels) \subseteq DOMAIN orig

\* The saved levels can always be read back: a room never gets stuck.
SavedIsReadable ==
  \A r \in Rooms : \A i \in DOMAIN saved[r] : Readable(saved[r][i])

\* The lengths that are saved bound the real chains of the saved heads, also
\* after crashes, redone chunks and skipped ones.
SavedLengthsBoundChains ==
  \A r \in Rooms : \A i \in DOMAIN saved[r] :
    saved[r][i].head # NoGroup =>
      ChainLength(db)[saved[r][i].head] =< AllowedLength(saved[r], i)

\* When a chunk has been sent, the chains of its groups in the database are as
\* short as the level sizes promise.
SentChainsBounded ==
  pc = "save" =>
    \A g \in DOMAIN orig :
      orig[g].in_range => ChainLength(db)[g] =< MaxChain(levels)

\* Once a chunk is done with, its rows stay as they are.
DoneStaysDone ==
  [][\A g \in DOMAIN roomOf : ~ Uncompressed(g) => db'[g] = db[g]]_vars

\* "Skip over the failed chunk and set the level info to the default (empty)
\* state" (manager.rs).
SkipResetsLevels ==
  [][SkipChunk => saved'[job.room] = args.default_levels]_vars

\* lowest_uncompressed_group and last_compressed never pass a group that is
\* still uncompressed.
NoGroupIsPassed ==
  \A g \in DOMAIN roomOf : g < lowest => ~ Uncompressed(g)

\* What is about to be recorded as done has been compressed, or given up, as a
\* whole: the chunk whose end one query found is the chunk another one loaded,
\* although Synapse stores groups between them and afterwards.
ChunkIsWhole ==
  pc \in {"save", "skip"} =>
    \A g \in Listed(job.room) :
      AfterStart(g) /\ g =< job.max => g \in DOMAIN orig /\ orig[g].in_range

\* Neither last_compressed nor lowest_uncompressed_group ever goes back.
ProgressGrows ==
  [][/\ lowest' >= lowest
     /\ \A r \in Rooms :
          progress[r] # NoGroup => progress'[r] # NoGroup /\ progress'[r] >= progress[r]]_vars

\* The compressor is only run on rooms with work to do ("Ran the compressor on
\* a room that had no more work to do!").
AlwaysFindsWork == pc = "find" => Chunk # {}

AllCompressed == \A g \in DOMAIN roomOf : ~ Uncompressed(g)

\* If crashes cease, every group gets compressed or skipped: the runs of the
\* automatic tool never go round in circles (compress_chunks_of_database).
EventuallyCompressed == <>[](pc # "crashed") => <>[]AllCompressed
=============================================================================
