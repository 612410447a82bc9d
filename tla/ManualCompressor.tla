-------------------------- MODULE ManualCompressor --------------------------
(***************************************************************************)
(* synapse_compress_state at work on one room (run, output_sql and         *)
(* generate_sql in src/lib.rs; get_data_from_db and send_changes_to_db in  *)
(* src/database.rs), and psql applying the file it wrote, at once or long  *)
(* after: when Synapse has stored new groups and later runs of the tool    *)
(* have rewritten the rows the file was computed from.  Every query, every *)
(* transaction and, outside of transactions, every statement is a step.    *)
(*                                                                         *)
(* A transaction is one step: two that rewrite the same group are taken to *)
(* follow each other.  A file without transactions is not applied while    *)
(* the tool runs, and no file is replaced while psql reads it.  Synapse     *)
(* stores new groups and leaves stored ones alone.                         *)
(***************************************************************************)
EXTENDS Levels, FiniteSetsExt

CONSTANTS
  Rooms,
  Databases,  \* what the database may hold when the tool is first run
  Configs,    \* the arguments it is run with
  NewGroups,  \* the ids of the groups Synapse stores meanwhile
  NewDeltas   \* their deltas

VARIABLES
  \* Synapse's tables.
  db,         \* group -> row: state_group_edges and state_groups_state
  roomOf,     \* group -> room: state_groups, which may lack groups of db
  \* The process.
  pc,         \* the query, write or transaction that is next
  config,     \* its arguments
  max_group_found,
  pending,    \* the groups whose new rows are still to be written or sent
  \* The compressor; orig is also where the map is loaded.
  orig, levels, newMap, base, stats, panicked,
  \* The output file, and psql.
  file,       \* the groups whose SQL is in the file, with their new rows
  at,         \* the group of the file psql is at, 0 if it does not run
  statement,  \* its next statement of that group
  \* What has been promised.
  stored,     \* group -> the state it was stored with
  half,       \* the groups some but not all of whose statements have run
  spoiled     \* whether a run has read the rows of such a group

tables     == <<db, roomOf>>
process    == <<pc, config, max_group_found, pending>>
compressor == <<orig, levels, newMap, base, stats, panicked>>
psql       == <<at, statement>>
promises   == <<stored, half, spoiled>>
vars       == <<tables, process, compressor, file, psql, promises>>

C == INSTANCE Compressor WITH Calls <- {}

ASSUME RoomsAssumption == Rooms # {}

ASSUME DatabasesAssumption ==
  \A d \in Databases :
    /\ DOMAIN d.db \subseteq Groups
    /\ d.db \in [DOMAIN d.db -> Row]
    /\ WellFormed(d.db)
    /\ DOMAIN d.roomOf \subseteq DOMAIN d.db
    /\ d.roomOf \in [DOMAIN d.roomOf -> Rooms]

\* NoGroup also stands for an option that is not given.
OptInt == Int \cup {NoGroup}

Config ==
  [room_id            : Rooms,
   min_state_group    : OptInt,
   groups_to_compress : Nat \cup {NoGroup},
   min_saved_rows     : OptInt,
   max_state_group    : OptInt,
   level_sizes        : Seq(Nat),
   output_file        : BOOLEAN,
   transactions       : BOOLEAN,
   commit_changes     : BOOLEAN,
   verify             : BOOLEAN]

ASSUME ConfigsAssumption == Configs \subseteq Config

ASSUME NewGroupsAssumption ==
  NewGroups \subseteq Groups /\ NewDeltas \subseteq StateMaps

Write == [group : Groups, row : Row]
File  == [transactions : BOOLEAN, sql : Seq(Write)]

EmptyFile(transactions) == [transactions |-> transactions, sql |-> <<>>]

NoConfig ==
  [room_id            |-> CHOOSE r \in Rooms : TRUE,
   min_state_group    |-> NoGroup,
   groups_to_compress |-> NoGroup,
   min_saved_rows     |-> NoGroup,
   max_state_group    |-> NoGroup,
   level_sizes        |-> <<>>,
   output_file        |-> FALSE,
   transactions       |-> FALSE,
   commit_changes     |-> FALSE,
   verify             |-> FALSE]

\* The types of the variables; what is still to be written is in the map.
TypeOK ==
  /\ DOMAIN db \subseteq Groups
  /\ db \in [DOMAIN db -> Row]
  /\ DOMAIN roomOf \subseteq DOMAIN db
  /\ roomOf \in [DOMAIN roomOf -> Rooms]
  /\ pc \in {"idle", "find", "initial", "missing", "compress", "output", "send"}
  /\ config \in Configs \cup {NoConfig}
  /\ max_group_found \in OptGroup
  /\ pending \subseteq DOMAIN orig
  /\ C!TypeOK
  /\ file \in File
  /\ at \in Nat
  /\ at # 0 => at \in DOMAIN file.sql
  /\ statement \in 1 .. 4
  /\ DOMAIN stored = DOMAIN db
  /\ stored \in [DOMAIN stored -> StateMaps]
  /\ half \subseteq DOMAIN db
  /\ spoiled \in BOOLEAN

Init ==
  /\ \E d \in Databases : db = d.db /\ roomOf = d.roomOf
  /\ pc = "idle"
  /\ config = NoConfig
  /\ max_group_found = NoGroup
  /\ pending = {}
  /\ orig = <<>>
  /\ levels = <<>>
  /\ newMap = <<>>
  /\ base = NoGroup
  /\ stats = C!NoStats
  /\ panicked = FALSE
  /\ file = EmptyFile(FALSE)
  /\ at = 0
  /\ statement = 1
  /\ stored = Collapse(db)
  /\ half = {}
  /\ spoiled = FALSE

-----------------------------------------------------------------------------
\* main and run_compression: the arguments become a Config, for which the
\* output file is created, or emptied.
Start ==
  /\ pc = "idle"
  /\ at # 0 => file.transactions
  /\ config' \in Configs
  /\ IF config'.output_file
     THEN at = 0 /\ file' = EmptyFile(config'.transactions)
     ELSE file' = file
  /\ pc' = "find"
  /\ UNCHANGED <<tables, max_group_found, pending, compressor, psql, promises>>

\* run returns or panics, or the process is killed.
Stop ==
  /\ pc' = "idle"
  /\ config' = NoConfig
  /\ max_group_found' = NoGroup
  /\ pending' = {}
  /\ orig' = <<>>
  /\ levels' = <<>>
  /\ newMap' = <<>>
  /\ base' = NoGroup
  /\ stats' = C!NoStats
  /\ panicked' = FALSE

\* find_max_group: "a min state group is only used if groups_to_compress also
\* is".
Listed == {g \in DOMAIN roomOf : roomOf[g] = config.room_id}

\* Mutant: the group to start from is compressed, too.
FromMin(g) == config.min_state_group = NoGroup \/ g >= config.min_state_group

AboveMin(g) == config.min_state_group = NoGroup \/ g > config.min_state_group
UpToMax(g)  == config.max_state_group = NoGroup \/ g =< config.max_state_group

ChunkOfIds ==
  LET upToMax == {g \in Listed : UpToMax(g)}
      after   == {g \in upToMax : AboveMin(g)}
  IN  IF config.groups_to_compress = NoGroup
      THEN upToMax
      ELSE {g \in after :
              Cardinality({h \in after : h =< g}) =< config.groups_to_compress}

\* Mutant: the largest of no groups is 0, and the run goes on.
FindMaxGroupOrZero ==
  /\ pc = "find"
  /\ max_group_found' = IF ChunkOfIds = {} THEN 0 ELSE Max(ChunkOfIds)
  /\ pc' = "initial"
  /\ UNCHANGED <<tables, config, pending, compressor, file, psql, promises>>

FindMaxGroup ==
  /\ pc = "find"
  /\ ChunkOfIds # {}
  /\ max_group_found' = Max(ChunkOfIds)
  /\ pc' = "initial"
  /\ UNCHANGED <<tables, config, pending, compressor, file, psql, promises>>

\* "No state groups found within this range".
NothingFound ==
  /\ pc = "find"
  /\ ChunkOfIds = {}
  /\ Stop
  /\ UNCHANGED <<tables, file, psql, promises>>

Load(g, in_range) ==
  [in_range |-> in_range, prev |-> db[g].prev, delta |-> db[g].delta]

\* A query that reads the rows of some groups.
Read(groups) ==
  /\ spoiled' = (spoiled \/ groups \cap half # {})
  /\ UNCHANGED <<stored, half>>

InitialGroups == {g \in Listed : AboveMin(g) /\ g =< max_group_found}

GetInitialData ==
  /\ pc = "initial"
  /\ orig' = [g \in InitialGroups |-> Load(g, TRUE)]
  /\ Read(InitialGroups)
  /\ pc' = "missing"
  /\ UNCHANGED <<tables, config, max_group_found, pending, levels, newMap, base,
                 stats, panicked, file, psql>>

Missing == {orig[g].prev : g \in DOMAIN orig} \ (DOMAIN orig \cup {NoGroup})

\* get_missing_from_db asks the edges that lead to a group for it.
Found == {m \in Missing : \E g \in DOMAIN db : db[g].prev = m}

\* Mutant: a predecessor is asked of state_groups.
GetMissingListed ==
  /\ pc = "missing"
  /\ Found \cap DOMAIN roomOf # {}
  /\ orig' = [g \in DOMAIN orig \cup (Found \cap DOMAIN roomOf) |->
                IF g \in DOMAIN orig THEN orig[g] ELSE Load(g, FALSE)]
  /\ Read(Found \cap DOMAIN roomOf)
  /\ UNCHANGED <<tables, process, levels, newMap, base, stats, panicked, file, psql>>

\* Mutant: "this does NOT find their deltas", as the doc of the function says.
GetMissingEdges ==
  /\ pc = "missing"
  /\ Found # {}
  /\ orig' = [g \in DOMAIN orig \cup Found |->
                IF g \in Found
                THEN [Load(g, FALSE) EXCEPT !.delta = [k \in Keys |-> NoEvent]]
                ELSE orig[g]]
  /\ Read(Found)
  /\ UNCHANGED <<tables, process, levels, newMap, base, stats, panicked, file, psql>>

\* A round of the loop of load_map_from_db that finds a group.  When no round
\* does, because the edges have been moved since they were read, the loop goes
\* on for ever.
GetMissing ==
  /\ pc = "missing"
  /\ Found # {}
  /\ orig' = [g \in DOMAIN orig \cup Found |->
                IF g \in Found
                THEN Load(g, /\ config.min_state_group # NoGroup
                             /\ config.min_state_group < g
                             /\ g =< max_group_found)
                ELSE orig[g]]
  /\ Read(Found)
  /\ UNCHANGED <<tables, process, levels, newMap, base, stats, panicked, file, psql>>

\* Everything is loaded: the compressor is called with empty levels.
AllLoaded ==
  /\ pc = "missing"
  /\ Missing = {}
  /\ levels' = [i \in DOMAIN config.level_sizes |-> NewLevel(config.level_sizes[i])]
  /\ pc' = "compress"
  /\ UNCHANGED <<tables, config, max_group_found, pending, orig, newMap, base,
                 stats, panicked, file, psql, promises>>

-----------------------------------------------------------------------------
\* run, once the map is loaded.

Compress ==
  /\ pc = "compress"
  /\ C!Next
  /\ UNCHANGED <<tables, process, file, psql, promises>>

NumRows(map) ==
  SumFunctionOnSet([g \in DOMAIN map |-> Size(map[g].delta)], DOMAIN map)

\* saturating_sub.
Saving ==
  IF NumRows(newMap) > NumRows(orig) THEN 0 ELSE NumRows(orig) - NumRows(newMap)

\* A negative minimum does not convert to a usize and counts as 0.
TooFewSaved ==
  /\ config.min_saved_rows # NoGroup
  /\ Saving < config.min_saved_rows

\* "This compression would not remove any rows", or "Only {} rows would be
\* saved".
Skip ==
  /\ pc = "compress"
  /\ C!Done
  /\ NumRows(newMap) > NumRows(orig) \/ TooFewSaved
  /\ Stop
  /\ UNCHANGED <<tables, file, psql, promises>>

\* The groups generate_sql produces SQL for.
ChangedGroups == {g \in DOMAIN orig : newMap[g] # orig[g]}

\* check_that_maps_match lets a wrong map not pass: the process panics.
Accept ==
  /\ pc = "compress"
  /\ C!Done
  /\ NumRows(newMap) =< NumRows(orig)
  /\ ~ TooFewSaved
  /\ config.verify => C!StatesMatch
  /\ pending' = IF config.output_file THEN ChangedGroups ELSE {}
  /\ pc' = "output"
  /\ UNCHANGED <<tables, config, max_group_found, compressor, file, psql, promises>>

NewRow(g) == [prev |-> newMap[g].prev, delta |-> newMap[g].delta]

\* output_sql, for one group.
OutputGroup ==
  /\ pc = "output"
  /\ pending # {}
  /\ LET g == Min(pending)
     IN  /\ file' = [file EXCEPT !.sql = Append(@, [group |-> g, row |-> NewRow(g)])]
         /\ pending' = pending \ {g}
  /\ UNCHANGED <<tables, pc, config, max_group_found, compressor, psql, promises>>

AllOutput ==
  /\ pc = "output"
  /\ pending = {}
  /\ IF config.commit_changes
     THEN /\ pending' = ChangedGroups
          /\ pc' = "send"
          /\ UNCHANGED <<config, max_group_found, compressor>>
     ELSE Stop
  /\ UNCHANGED <<tables, file, psql, promises>>

\* All statements of a group in one transaction.
Rewrite(g, row) ==
  /\ db' = [db EXCEPT ![g] = row]
  /\ half' = half \ {g}
  /\ UNCHANGED <<roomOf, stored, spoiled>>

\* send_changes_to_db, for one group.
SendGroup ==
  /\ pc = "send"
  /\ pending # {}
  /\ Rewrite(Min(pending), NewRow(Min(pending)))
  /\ pending' = pending \ {Min(pending)}
  /\ UNCHANGED <<pc, config, max_group_found, compressor, file, psql>>

AllSent ==
  /\ pc = "send"
  /\ pending = {}
  /\ Stop
  /\ UNCHANGED <<tables, file, psql, promises>>

\* The process is killed, or a query or a write fails.
Crash ==
  /\ pc # "idle"
  /\ Stop
  /\ UNCHANGED <<tables, file, psql, promises>>

-----------------------------------------------------------------------------
\* psql < out.sql, as often as one likes, also of a file that was cut short.

ApplyFile ==
  /\ at = 0
  /\ file.sql # <<>>
  /\ pc # "output"
  /\ ~ file.transactions => pc = "idle"
  /\ at' = 1
  /\ statement' = 1
  /\ UNCHANGED <<tables, process, compressor, file, promises>>

NextWrite ==
  /\ at' = IF at < Len(file.sql) THEN at + 1 ELSE 0
  /\ statement' = 1

\* BEGIN; ... COMMIT;
ApplyTransaction ==
  /\ at # 0
  /\ file.transactions
  /\ Rewrite(file.sql[at].group, file.sql[at].row)
  /\ NextWrite
  /\ UNCHANGED <<process, compressor, file>>

\* Mutant: the DELETE of the rows of the state is missing.
ExecutedOnTop(n, old, new) ==
  CASE n = 1 -> [old EXCEPT !.prev = NoGroup]
    [] n = 2 -> [old EXCEPT !.prev = new.prev]
    [] n = 3 -> old
    [] n = 4 -> [old EXCEPT !.delta = Extend(@, new.delta)]

\* The row of a group after the n-th of the statements that are to replace it:
\* DELETE and INSERT of the edge, DELETE and INSERT of the rows of the state.
\* An INSERT of nothing is left out of the SQL.
Executed(n, old, new) ==
  CASE n = 1 -> [old EXCEPT !.prev = NoGroup]
    [] n = 2 -> [old EXCEPT !.prev = new.prev]
    [] n = 3 -> [old EXCEPT !.delta = [k \in Keys |-> NoEvent]]
    [] n = 4 -> [old EXCEPT !.delta = new.delta]

ApplyStatement ==
  /\ at # 0
  /\ ~ file.transactions
  /\ LET g == file.sql[at].group
     IN  /\ db' = [db EXCEPT ![g] = Executed(statement, @, file.sql[at].row)]
         /\ half' = IF statement = 4 THEN half \ {g} ELSE half \cup {g}
  /\ IF statement = 4 THEN NextWrite ELSE at' = at /\ statement' = statement + 1
  /\ UNCHANGED <<roomOf, process, compressor, file, stored, spoiled>>

\* psql is interrupted, or loses its connection.
BreakOff ==
  /\ at # 0
  /\ at' = 0
  /\ statement' = 1
  /\ UNCHANGED <<tables, process, compressor, file, promises>>

\* Synapse stores a new group of the room: a delta from an older group, or a
\* full state.
StoreGroup ==
  \E g \in NewGroups \ DOMAIN db, room \in Rooms, delta \in NewDeltas :
    \E prev \in {h \in DOMAIN roomOf : roomOf[h] = room /\ h < g} \cup {NoGroup} :
      /\ db' = Insert(db, g, [prev |-> prev, delta |-> delta])
      /\ roomOf' = Insert(roomOf, g, room)
      /\ stored' = Insert(stored, g,
                          IF prev = NoGroup THEN delta ELSE Extend(stored[prev], delta))
      /\ UNCHANGED <<process, compressor, file, psql, half, spoiled>>

Step ==
  \/ FindMaxGroup \/ NothingFound \/ GetInitialData \/ GetMissing \/ AllLoaded
  \/ Compress \/ Skip \/ Accept \/ OutputGroup \/ AllOutput \/ SendGroup \/ AllSent

Psql == ApplyTransaction \/ ApplyStatement

Next == Start \/ Step \/ Crash \/ ApplyFile \/ Psql \/ BreakOff \/ StoreGroup

Spec == Init /\ [][Next]_vars

\* A process that has been started takes its next step, and so does psql.
FairSpec == Spec /\ WF_vars(Step) /\ WF_vars(Psql)

-----------------------------------------------------------------------------
\* The groups that neither are half-written nor depend on one that is.
Clean ==
  UNION {closed \in SUBSET (DOMAIN db \ half) :
           \A g \in closed : db[g].prev \in closed \cup {NoGroup}}

\* "The SQL generated is safe to apply against the database with Synapse
\* running" (README.md) at any later time: whatever has been stored, rewritten
\* or broken off meanwhile, every group has the state it was stored with, save
\* those that hang off a group psql has half-written without a transaction.
\* Only a run that reads such a group can make the damage last.
StatesAreKept ==
  ~ spoiled => \A g \in Clean : Collapse(db)[g] = stored[g]

\* While psql applies a file without transactions, the groups it has passed
\* have the rows the file has for them, all of them.
PassedIsWritten ==
  ~ file.transactions =>
    \A i \in 1 .. at - 1 :
      /\ db[file.sql[i].group] = file.sql[i].row
      /\ file.sql[i].group \notin half

\* A file without transactions may be applied again, or for the first time
\* after a later one, whichever statements had run when psql broke off: once it
\* has been applied to its end, each of its groups has the row the file has for
\* it, and none is half-written.
ApplyingAgainRepairs ==
  [][ApplyStatement /\ at' = 0 =>
       \A i \in DOMAIN file.sql :
         /\ db'[file.sql[i].group] = file.sql[i].row
         /\ file.sql[i].group \notin half']_vars

\* Rows computed from different generations of the tables never make the edges
\* run in a circle, on which Synapse would follow the predecessors for ever.
EdgesLeadBack == WellFormed(db)

\* Only groups above min_state_group ("this state itself is not compressed")
\* and up to max_state_group are rewritten: the predecessors that were loaded
\* with them stay as they are.
RewritesStayInRange ==
  \A g \in pending :
    /\ config.min_state_group # NoGroup => g > config.min_state_group
    /\ config.max_state_group # NoGroup => g =< config.max_state_group

\* "Only state groups with id's lower than this number are able to be
\* compressed" (Config and the help of -s in src/lib.rs, README.md).
RewritesStayBelowMax ==
  config.max_state_group # NoGroup => \A g \in pending : g < config.max_state_group

\* The loop of load_map_from_db has a group missing that no edge leads to any
\* more.
Stuck == pc = "missing" /\ Missing # {} /\ Found = {}

\* A run returns: it never waits for a lookup of the compressor that fails,
\* and the loop that loads the predecessors ends, unless their edges were
\* moved after they had been read.
RunEnds == pc # "idle" ~> pc = "idle" \/ Stuck
=============================================================================
