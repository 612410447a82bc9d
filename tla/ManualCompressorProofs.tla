----------------------- MODULE ManualCompressorProofs -----------------------
(***************************************************************************)
(* synapse_compress_state keeps the state of every group, for every        *)
(* database, all arguments, and files that are applied at any time.        *)
(*                                                                         *)
(* The invariant speaks of single rows, wherever they are: in the tables,  *)
(* in the map a run has loaded, in the new map, in the output file.  Each  *)
(* leads from the state its predecessor was stored with to the state its   *)
(* own group was stored with (Good).  So any of them may take the place of *)
(* any other, however old it is, and CompressorProofs says that good rows  *)
(* are compressed to good rows.                                            *)
(***************************************************************************)
EXTENDS ManualCompressor, StateGroupsProofs

\* The proofs about the compressor of a run.
CP == INSTANCE CompressorProofs WITH Calls <- {}

LEMMA KeysFinite == CP!IsFiniteSet(Keys)
BY KeysAssumption DEF CP!IsFiniteSet, IsFiniteSet

-----------------------------------------------------------------------------
\* ManualCompressor and CompressorProofs each have a copy of the definitions of
\* Compressor; the lemmas up to RunFacts carry facts from one to the other.

\* The compressor of a run takes the steps that the proofs are about.
LEMMA SameActions == C!Next <=> CP!Next
<1> USE DEF C!AtGroup, CP!AtGroup, C!InRange, CP!InRange, C!AtBase, CP!AtBase,
            C!Finish, CP!Finish, C!Todo, CP!Todo, C!Current, CP!Current, C!Min, CP!Min,
            C!Original, CP!Original, C!Collapse, CP!Collapse, C!Entry, CP!Entry,
            C!Insert, CP!Insert, C!Extend, CP!Extend
<1>1. C!CopyOutOfRange <=> CP!CopyOutOfRange
  BY DEF C!CopyOutOfRange, CP!CopyOutOfRange
<1>2. C!Candidate(levels) = CP!Candidate(levels)
  BY DEF C!Candidate, CP!Candidate, C!Chosen, CP!Chosen, C!HasSpace, CP!HasSpace,
         C!Visited, CP!Visited
<1>3. \A g : C!Place(levels, g) = CP!Place(levels, g)
  BY DEF C!Place, CP!Place, C!HasSpace, CP!HasSpace, C!Visited, CP!Visited,
         C!Update, CP!Update
<1>4. C!KeepEntry <=> CP!KeepEntry
  BY <1>2, <1>3 DEF C!KeepEntry, CP!KeepEntry
<1>5. C!StoreFull <=> CP!StoreFull
  BY <1>2, <1>3 DEF C!StoreFull, CP!StoreFull
<1>6. C!StartDelta <=> CP!StartDelta
  BY <1>2, <1>3 DEF C!StartDelta, CP!StartDelta
<1>7. C!BaseFits <=> CP!BaseFits
  BY DEF C!BaseFits, CP!BaseFits, C!Fits, CP!Fits
<1>8. C!UseBase <=> CP!UseBase
  BY <1>7 DEF C!UseBase, CP!UseBase, C!DeltaFrom, CP!DeltaFrom
<1>9. C!WalkUp <=> CP!WalkUp
  BY <1>7 DEF C!WalkUp, CP!WalkUp
<1>10. C!ForcedReset <=> CP!ForcedReset
  BY <1>7 DEF C!ForcedReset, CP!ForcedReset, C!Size, CP!Size,
              C!Cardinality, CP!Cardinality
<1>11. C!MissingBase <=> CP!MissingBase
  BY DEF C!MissingBase, CP!MissingBase
<1>12. QED
  BY <1>1, <1>4, <1>5, <1>6, <1>8, <1>9, <1>10, <1>11 DEF C!Next, CP!Next

\* The words of StateGroups and Levels mean the same in both.
LEMMA SameWords ==
  /\ \A map : HasRows(map) <=> CP!HasRows(map)
  /\ \A map : IsGroupMap(map) <=> CP!IsGroupMap(map)
  /\ \A map : WellFormed(map) <=> CP!WellFormed(map)
  /\ \A map : Collapse(map) = CP!Collapse(map)
  /\ \A full, map : Solves(full, map) <=> CP!Solves(full, map)
  /\ \A ls : Heads(ls) = CP!Heads(ls)
  /\ Level = CP!Level
<1> USE DEF OptGroup, CP!OptGroup, Groups, CP!Groups, StateMaps, CP!StateMaps,
            Extend, CP!Extend
<1>1. \A map : HasRows(map) <=> CP!HasRows(map)
  BY DEF HasRows, CP!HasRows
<1>2. \A map : IsGroupMap(map) <=> CP!IsGroupMap(map)
  BY DEF IsGroupMap, CP!IsGroupMap, Entries, CP!Entries
<1>3. \A map : WellFormed(map) <=> CP!WellFormed(map)
  BY DEF WellFormed, CP!WellFormed
<1>4. \A map : Collapse(map) = CP!Collapse(map)
  BY DEF Collapse, CP!Collapse
<1>5. \A full, map : Solves(full, map) <=> CP!Solves(full, map)
  BY DEF Solves, CP!Solves
<1>6. \A ls : Heads(ls) = CP!Heads(ls)
  BY DEF Heads, CP!Heads
<1>7. Level = CP!Level
  BY DEF Level, CP!Level
<1>8. QED BY <1>1, <1>2, <1>3, <1>4, <1>5, <1>6, <1>7

\* The types of the compressor's variables, in the words of this module.
RunTypes ==
  /\ IsGroupMap(orig)
  /\ levels \in Seq(Level)
  /\ IsGroupMap(newMap)
  /\ base \in OptGroup
  /\ stats \in [resets : Nat, resetsSize : Nat, changed : Nat]
  /\ panicked \in BOOLEAN

\* They are those of Compressor, now and in the next state.
LEMMA SameTypes == (C!TypeOK <=> RunTypes) /\ (C!TypeOK' <=> RunTypes')
BY DEF C!TypeOK, RunTypes, C!IsGroupMap, IsGroupMap, C!Entries, Entries,
       C!OptGroup, OptGroup, C!Groups, Groups, C!StateMaps, StateMaps, C!Level, Level

\* A run that has loaded its map.
RunFresh ==
  /\ IsGroupMap(orig)
  /\ WellFormed(orig)
  /\ levels \in Seq(Level)
  /\ Heads(levels) = {}
  /\ newMap = <<>> /\ base = NoGroup /\ stats = C!NoStats /\ panicked = FALSE

\* The invariant of its compressor.
Running == CP!Inv /\ CP!CopiesKept

\* What that says of the new map.
Compressed ==
  /\ C!TypeOK
  /\ IsGroupMap(newMap)
  /\ WellFormed(newMap)
  /\ DOMAIN newMap \subseteq DOMAIN orig
  /\ WellFormed(orig)
  /\ Solves(Collapse(orig), newMap)
  /\ \A g \in DOMAIN newMap : orig[g].in_range \/ newMap[g] = orig[g]

\* The invariant holds when the compressor starts.
LEMMA RunStarts == RunFresh => Running
<1> SUFFICES ASSUME RunFresh PROVE Running
  OBVIOUS
<1>1. stats = CP!NoStats
  BY DEF RunFresh, C!NoStats, CP!NoStats
<1>2. /\ CP!IsGroupMap(orig)
      /\ CP!WellFormed(orig)
      /\ levels \in Seq(CP!Level)
      /\ CP!Heads(levels) = {}
  BY SameWords DEF RunFresh
<1>3. newMap = <<>> /\ base = NoGroup /\ panicked = FALSE
  BY DEF RunFresh
<1>4. CP!Inv
  BY <1>1, <1>2, <1>3, CP!CallInv, KeysFinite, KeysAssumption, NoEventAssumption,
     MaxGroupAssumption, NoGroupAssumption
<1>5. DOMAIN newMap = {}
  BY <1>3
<1>6. CP!CopiesKept
  BY <1>3, <1>5 DEF CP!CopiesKept
<1>7. QED BY <1>4, <1>6 DEF Running

\* The steps of the compressor keep it, and the map that was loaded.
LEMMA RunSteps == Running /\ C!Next => Running' /\ orig' = orig
<1> SUFFICES ASSUME Running, C!Next PROVE Running' /\ orig' = orig
  OBVIOUS
<1>1. CP!Next /\ CP!Inv /\ CP!CopiesKept
  BY SameActions DEF Running
<1>2. CP!Inv'
  BY <1>1, CP!NextInv, KeysFinite, KeysAssumption, NoEventAssumption,
     MaxGroupAssumption, NoGroupAssumption
<1>3. CP!CopiesKept'
  BY <1>1, CP!NextCopies, KeysFinite, KeysAssumption, NoEventAssumption,
     MaxGroupAssumption, NoGroupAssumption
<1>4. orig' = orig
  BY <1>1, CP!NextKeeps, KeysFinite, KeysAssumption, NoEventAssumption,
     MaxGroupAssumption, NoGroupAssumption
<1>5. QED BY <1>2, <1>3, <1>4 DEF Running

\* It stays while the compressor rests.
LEMMA RunRests == Running /\ UNCHANGED compressor => Running'
<1> SUFFICES ASSUME Running, UNCHANGED compressor PROVE Running'
  OBVIOUS
<1>1. UNCHANGED CP!vars
  BY DEF compressor, CP!vars
<1>2. CP!Inv'
  BY <1>1, CP!NextInv, KeysFinite, KeysAssumption, NoEventAssumption,
     MaxGroupAssumption, NoGroupAssumption DEF Running
<1>3. CP!CopiesKept'
  BY DEF Running, compressor, CP!CopiesKept, CP!Current, CP!Todo
<1>4. QED BY <1>2, <1>3 DEF Running

\* The new map is one of good rows, and copies what is out of range.
LEMMA RunFacts == Running => Compressed
<1> SUFFICES ASSUME Running PROVE Compressed
  OBVIOUS
<1>1. CP!TypeOK /\ CP!WellFormed(orig) /\ CP!WellFormed(newMap)
  BY DEF Running, CP!Inv
<1>2. DOMAIN newMap \subseteq DOMAIN orig
  BY DEF Running, CP!Inv, CP!Prefix
<1>3. CP!Solves(CP!Original, newMap)
  BY DEF Running, CP!Inv
<1>4. CP!Original = Collapse(orig)
  BY SameWords DEF CP!Original
<1>5. CP!IsGroupMap(orig) /\ CP!IsGroupMap(newMap)
  BY <1>1 DEF CP!TypeOK
<1>6. C!TypeOK
  BY <1>1, <1>5, SameWords, SameTypes
     DEF CP!TypeOK, RunTypes, OptGroup, CP!OptGroup, Groups, CP!Groups
<1>7. \A g \in DOMAIN newMap : orig[g].in_range \/ newMap[g] = orig[g]
  BY DEF Running, CP!CopiesKept
<1>8. QED
  BY <1>1, <1>2, <1>3, <1>4, <1>5, <1>6, <1>7, SameWords DEF Compressed

-----------------------------------------------------------------------------
\* If sure, the row leads from the state its predecessor has in full to the one
\* that g has.
Good(full, sure, g, row) ==
  /\ g \in DOMAIN full
  /\ row.prev # NoGroup => row.prev \in DOMAIN full /\ row.prev < g
  /\ sure => full[g] = IF row.prev = NoGroup
                       THEN row.delta
                       ELSE Extend(full[row.prev], row.delta)

\* The rows in the tables are good where psql is not at work.
TablesInv ==
  /\ WellFormed(db)
  /\ ~ spoiled => \A g \in DOMAIN db \ half : Good(stored, ~ spoiled, g, db[g])

\* So are those in the file; without transactions, nobody else writes.
FileInv ==
  /\ \A i \in DOMAIN file.sql :
       Good(stored, ~ spoiled, file.sql[i].group, file.sql[i].row)
  /\ at # 0 /\ ~ file.transactions =>
       /\ pc = "idle"
       /\ statement > 2 => db[file.sql[at].group].prev = file.sql[at].row.prev

\* Once the groups are found; once they are compressed.
Loading == {"initial", "missing", "compress", "output", "send"}
Working == {"compress", "output", "send"}

\* So are those a run has loaded, and only groups in the range are in range.
MapInv ==
  /\ pc \notin Loading \ {"initial"} => orig = <<>>
  /\ pc \notin Working =>
       newMap = <<>> /\ base = NoGroup /\ stats = C!NoStats /\ panicked = FALSE
  /\ \A g \in DOMAIN orig :
       /\ Good(stored, ~ spoiled, g, orig[g])
       /\ orig[g].in_range => AboveMin(g) /\ g =< max_group_found
  /\ pc \in Loading => max_group_found \in Groups /\ UpToMax(max_group_found)

\* What has been computed from them.
RunInv ==
  /\ pc \in Working => Running
  /\ pc \in {"output", "send"} => DOMAIN newMap = DOMAIN orig
  /\ pending # {} => pc \in {"output", "send"}
  /\ pending \subseteq ChangedGroups

\* The groups of the file are in order, and those that are still to be written
\* to it come after them.
OrderInv ==
  /\ \A i, j \in DOMAIN file.sql : i < j => file.sql[i].group < file.sql[j].group
  /\ pc \in {"find", "initial", "missing", "compress"} /\ config.output_file =>
       file.sql = <<>>
  /\ pc = "output" =>
       \A i \in DOMAIN file.sql, g \in pending : file.sql[i].group < g
  /\ PassedIsWritten

Inv ==
  /\ TypeOK
  /\ TablesInv
  /\ FileInv
  /\ MapInv
  /\ RunInv
  /\ OrderInv

-----------------------------------------------------------------------------
\* A good row stays good when groups are added, or doubts.
LEMMA GoodStays ==
  ASSUME NEW full, NEW more, NEW sure \in BOOLEAN, NEW still \in BOOLEAN,
         NEW g, NEW row, Good(full, sure, g, row),
         DOMAIN full \subseteq DOMAIN more, \A h \in DOMAIN full : more[h] = full[h],
         still => sure
  PROVE  Good(more, still, g, row)
BY DEF Good

\* The groups are numbers.
LEMMA GroupsAreNat == Groups \subseteq Nat /\ NoGroup \notin Groups
BY MaxGroupAssumption, NoGroupAssumption DEF Groups

\* The tables as a map of rows.
LEMMA TablesAreRows == TypeOK => HasRows(db)
BY DEF TypeOK, HasRows, Row

\* The empty map.
LEMMA EmptyMap ==
  IsGroupMap(<<>>) /\ DOMAIN <<>> = {} /\ <<>> \in Seq(Level)
<1>1. DOMAIN <<>> = {}
  OBVIOUS
<1>2. QED BY <1>1 DEF IsGroupMap

\* The variables of the compressor while there is none.
LEMMA EmptyRun ==
  ASSUME orig = <<>>, levels = <<>>, newMap = <<>>, base = NoGroup,
         stats = C!NoStats, panicked = FALSE
  PROVE  RunTypes
BY EmptyMap DEF RunTypes, OptGroup, C!NoStats

\* An empty file.
LEMMA EmptyFileType ==
  ASSUME NEW transactions \in BOOLEAN
  PROVE  /\ EmptyFile(transactions) \in File
         /\ EmptyFile(transactions).sql = <<>>
         /\ DOMAIN EmptyFile(transactions).sql = {}
BY DEF EmptyFile, File

\* No arguments are arguments, too.
LEMMA ConfigType ==
  ASSUME TypeOK
  PROVE  config \in Config
<1>1. NoConfig \in Config
  BY RoomsAssumption DEF NoConfig, Config, OptInt
<1>2. QED BY <1>1, ConfigsAssumption DEF TypeOK

\* The tables are what Synapse has stored.
LEMMA InitInv == Init => Inv
<1> SUFFICES ASSUME Init PROVE Inv
  OBVIOUS
<1>1. PICK d \in Databases : db = d.db /\ roomOf = d.roomOf
  BY DEF Init
<1>2. /\ DOMAIN db \subseteq Groups
      /\ db \in [DOMAIN db -> Row]
      /\ WellFormed(db)
      /\ DOMAIN roomOf \subseteq DOMAIN db
      /\ roomOf \in [DOMAIN roomOf -> Rooms]
  BY <1>1, DatabasesAssumption
<1>3. HasRows(db)
  BY <1>2 DEF HasRows, Row
<1>4. /\ Solves(stored, db)
      /\ stored = [g \in DOMAIN db |-> stored[g]]
      /\ DOMAIN stored = DOMAIN db
      /\ \A g \in DOMAIN db : stored[g] \in StateMaps
  BY <1>2, <1>3, CollapseSolves, CollapseType DEF Init
<1>5. stored \in [DOMAIN stored -> StateMaps]
  BY <1>4
<1>6. C!TypeOK
  BY EmptyRun, SameTypes DEF Init
<1>7. file \in File /\ DOMAIN file.sql = {}
  BY EmptyFileType DEF Init
<1>8. /\ config \in Configs \cup {NoConfig}
      /\ max_group_found \in OptGroup
      /\ pending \subseteq DOMAIN orig
      /\ half \subseteq DOMAIN db
      /\ at = 0
      /\ spoiled = FALSE
  BY DEF Init, OptGroup
<1>9. at \in Nat /\ (at # 0 => at \in DOMAIN file.sql) /\ statement \in 1 .. 4
  BY DEF Init
<1>10. pc \in {"idle", "find", "initial", "missing", "compress", "output", "send"}
  BY DEF Init
<1>11. TypeOK
  BY <1>2, <1>4, <1>5, <1>6, <1>7, <1>8, <1>9, <1>10 DEF TypeOK
<1>12. TablesInv
  BY <1>2, <1>4 DEF TablesInv, Good, Solves, WellFormed
<1>13. FileInv
  BY <1>7 DEF Init, FileInv
<1>14. MapInv /\ RunInv
  BY EmptyMap DEF Init, MapInv, RunInv, Loading, Working
<1>15. 1 .. at - 1 = {}
  BY <1>8
<1>16. OrderInv
  BY <1>7, <1>15 DEF Init, OrderInv, PassedIsWritten
<1>17. QED BY <1>11, <1>12, <1>13, <1>14, <1>16 DEF Inv

-----------------------------------------------------------------------------
\* Frames: what a step leaves alone stays in the invariant.

\* The tables, while nobody writes to them; a run may read what is half-written.
LEMMA TablesStay ==
  ASSUME Inv, UNCHANGED <<tables, stored, half>>, spoiled' \in BOOLEAN, spoiled => spoiled'
  PROVE  /\ TablesInv'
         /\ \A g, row : Good(stored, ~ spoiled, g, row) => Good(stored', ~ spoiled', g, row)
<1>1. \A g, row : Good(stored, ~ spoiled, g, row) => Good(stored', ~ spoiled', g, row)
  BY DEF Good
<1>2. WellFormed(db)' /\ db' = db /\ half' = half
  BY DEF Inv, TablesInv, tables
<1>3. ~ spoiled' => \A g \in DOMAIN db' \ half' : Good(stored', ~ spoiled', g, db'[g])
  BY <1>1, <1>2 DEF Inv, TablesInv
<1>4. QED BY <1>1, <1>2, <1>3 DEF TablesInv

\* The file, while the tables stay and psql does.
LEMMA FileStays ==
  ASSUME Inv, UNCHANGED <<tables, file, psql>>, half' = half,
         at # 0 /\ ~ file.transactions => pc' = "idle",
         \A g, row : Good(stored, ~ spoiled, g, row) => Good(stored', ~ spoiled', g, row)
  PROVE  FileInv' /\ PassedIsWritten'
<1>1. db' = db /\ file' = file /\ at' = at /\ statement' = statement
  BY DEF tables, psql
<1>2. FileInv'
  BY <1>1 DEF Inv, FileInv
<1>3. PassedIsWritten'
  BY <1>1 DEF Inv, OrderInv, PassedIsWritten
<1>4. QED BY <1>2, <1>3

\* The process, while psql or Synapse is at work.
LEMMA ProcessStays ==
  ASSUME Inv, UNCHANGED <<process, compressor>>,
         \A g, row : Good(stored, ~ spoiled, g, row) => Good(stored', ~ spoiled', g, row)
  PROVE  MapInv' /\ RunInv' /\ C!TypeOK'
<1>1. UNCHANGED <<pc, config, max_group_found, pending>>
  BY DEF process
<1>2. UNCHANGED <<orig, levels, newMap, base, stats, panicked>>
  BY DEF compressor
<1>3. MapInv'
  BY <1>1, <1>2 DEF Inv, MapInv, AboveMin, UpToMax
<1>4. Running => Running'
  BY RunRests
<1>5. RunInv'
  BY <1>1, <1>2, <1>4 DEF Inv, RunInv, ChangedGroups
<1>6. RunTypes'
  BY <1>2, SameTypes DEF Inv, TypeOK, RunTypes
<1>7. QED BY <1>3, <1>5, <1>6, SameTypes

\* Nobody waits for psql without transactions while a process runs.
LEMMA PsqlRests ==
  ASSUME Inv, pc # "idle"
  PROVE  at # 0 => file.transactions
BY DEF Inv, FileInv

-----------------------------------------------------------------------------
\* The arguments become a Config, for which the output file is emptied.
LEMMA StartInv ==
  ASSUME Inv, Start
  PROVE  Inv'
<1>1. /\ pc = "idle" /\ pc' = "find" /\ config' \in Configs
      /\ at # 0 => file.transactions
      /\ UNCHANGED <<tables, max_group_found, pending, compressor, psql, promises>>
  BY DEF Start
<1>2. UNCHANGED <<stored, half, spoiled>>
  BY <1>1 DEF promises
<1>3. /\ TablesInv'
      /\ \A g, row : Good(stored, ~ spoiled, g, row) => Good(stored', ~ spoiled', g, row)
  BY <1>1, <1>2, TablesStay DEF Inv, TypeOK
<1>4. UNCHANGED <<db, roomOf, orig, levels, newMap, base, stats, panicked, at, statement>>
  BY <1>1 DEF tables, compressor, psql
<1>5. /\ orig = <<>> /\ newMap = <<>> /\ base = NoGroup /\ stats = C!NoStats
      /\ panicked = FALSE /\ pending = {}
  BY <1>1 DEF Inv, MapInv, RunInv, Loading, Working
<1>6. MapInv' /\ RunInv'
  BY <1>1, <1>4, <1>5 DEF MapInv, RunInv, Loading, Working
<1>7. C!TypeOK'
  BY <1>4, SameTypes DEF Inv, TypeOK, RunTypes
<1>8. CASE config'.output_file
  <2>1. at = 0 /\ file' = EmptyFile(config'.transactions)
    BY <1>8 DEF Start
  <2>2. config'.transactions \in BOOLEAN
    BY <1>1, ConfigsAssumption DEF Config
  <2>3. file' \in File /\ file'.sql = <<>> /\ DOMAIN file'.sql = {}
    BY <2>1, <2>2, EmptyFileType
  <2>4. at' = 0 /\ 1 .. at' - 1 = {}
    BY <2>1, <1>4
  <2>5. TypeOK'
    BY <1>1, <1>2, <1>4, <1>5, <1>7, <2>3, <2>4 DEF Inv, TypeOK
  <2>6. FileInv'
    BY <2>3, <2>4 DEF FileInv
  <2>7. OrderInv'
    BY <1>1, <2>3, <2>4 DEF OrderInv, PassedIsWritten
  <2>8. QED BY <1>3, <1>6, <2>5, <2>6, <2>7 DEF Inv
<1>9. CASE ~ config'.output_file
  <2>1. file' = file
    BY <1>9 DEF Start
  <2>2. TypeOK'
    BY <1>1, <1>2, <1>4, <1>5, <1>7, <2>1 DEF Inv, TypeOK
  <2>3. FileInv' /\ PassedIsWritten'
    BY <1>1, <1>3, <2>1, FileStays DEF promises
  <2>4. OrderInv'
    BY <1>1, <1>9, <2>1, <2>3 DEF Inv, OrderInv
  <2>5. QED BY <1>3, <1>6, <2>2, <2>3, <2>4 DEF Inv
<1>10. QED BY <1>8, <1>9

\* The process is gone, and what it has computed with it.
LEMMA StopInv ==
  ASSUME Inv, pc # "idle", Stop, UNCHANGED <<tables, file, psql, promises>>
  PROVE  Inv'
<1>1. /\ pc' = "idle" /\ config' = NoConfig /\ max_group_found' = NoGroup
      /\ pending' = {} /\ orig' = <<>> /\ levels' = <<>> /\ newMap' = <<>>
      /\ base' = NoGroup /\ stats' = C!NoStats /\ panicked' = FALSE
  BY DEF Stop
<1>2. UNCHANGED <<stored, half, spoiled, db, roomOf, at, statement, file>>
  BY DEF promises, tables, psql
<1>3. /\ TablesInv'
      /\ \A g, row : Good(stored, ~ spoiled, g, row) => Good(stored', ~ spoiled', g, row)
  BY <1>2, TablesStay DEF Inv, TypeOK
<1>4. FileInv' /\ PassedIsWritten'
  BY <1>1, <1>3, FileStays DEF promises
<1>5. C!TypeOK'
  <2>1. RunTypes'
    BY <1>1, EmptyMap DEF RunTypes, OptGroup, C!NoStats
  <2>2. QED BY <2>1, SameTypes
<1>6. TypeOK'
  BY <1>1, <1>2, <1>5 DEF Inv, TypeOK, OptGroup
<1>7. MapInv' /\ RunInv'
  BY <1>1, EmptyMap DEF MapInv, RunInv, Loading, Working
<1>8. OrderInv'
  BY <1>1, <1>2, <1>4 DEF Inv, OrderInv
<1>9. QED BY <1>3, <1>4, <1>6, <1>7, <1>8 DEF Inv

\* The greatest group found is one, and not above the maximum.
LEMMA FindMaxGroupInv ==
  ASSUME Inv, FindMaxGroup
  PROVE  Inv'
<1>1. /\ pc = "find" /\ pc' = "initial" /\ ChunkOfIds # {}
      /\ max_group_found' = Max(ChunkOfIds)
      /\ UNCHANGED <<tables, config, pending, compressor, file, psql, promises>>
  BY DEF FindMaxGroup
<1>2. UNCHANGED <<stored, half, spoiled, db, roomOf, at, statement, file,
                  orig, levels, newMap, base, stats, panicked>>
  BY <1>1 DEF promises, tables, psql, compressor
<1>3. /\ TablesInv'
      /\ \A g, row : Good(stored, ~ spoiled, g, row) => Good(stored', ~ spoiled', g, row)
  BY <1>2, TablesStay DEF Inv, TypeOK, tables
<1>4. ChunkOfIds \in SUBSET Groups /\ \A g \in ChunkOfIds : UpToMax(g)
  BY DEF Inv, TypeOK, ChunkOfIds, Listed
<1>5. max_group_found' \in Groups /\ UpToMax(max_group_found')
  BY <1>1, <1>4, MaxGreatest
<1>6. UpToMax(max_group_found)'
  BY <1>1, <1>5 DEF UpToMax
<1>7. FileInv' /\ PassedIsWritten'
  BY <1>1, <1>3, PsqlRests, FileStays DEF promises
<1>8. C!TypeOK'
  BY <1>2, SameTypes DEF Inv, TypeOK, RunTypes
<1>9. /\ orig = <<>> /\ newMap = <<>> /\ base = NoGroup /\ stats = C!NoStats
      /\ panicked = FALSE /\ pending = {}
  BY <1>1 DEF Inv, MapInv, RunInv, Loading, Working
<1>10. TypeOK'
  BY <1>1, <1>2, <1>5, <1>8 DEF Inv, TypeOK, OptGroup
<1>11. MapInv' /\ RunInv'
  BY <1>1, <1>2, <1>5, <1>6, <1>9, EmptyMap DEF MapInv, RunInv, Loading, Working
<1>12. OrderInv'
  BY <1>1, <1>2, <1>7 DEF Inv, OrderInv
<1>13. QED BY <1>3, <1>7, <1>10, <1>11, <1>12 DEF Inv

\* The rows a query reads are good, or the run is spoiled.
LEMMA LoadInv ==
  ASSUME Inv, pc \in {"initial", "missing"}, pc' = "missing",
         NEW groups \in SUBSET DOMAIN db, NEW in_range \in [groups -> BOOLEAN],
         \A g \in groups : in_range[g] => AboveMin(g) /\ g =< max_group_found,
         orig' = [g \in DOMAIN orig \cup groups |->
                    IF g \in groups THEN Load(g, in_range[g]) ELSE orig[g]],
         Read(groups),
         UNCHANGED <<tables, config, max_group_found, pending, levels, newMap, base,
                     stats, panicked, file, psql>>
  PROVE  Inv'
<1>1. UNCHANGED <<stored, half, db, roomOf, at, statement, file>>
  BY DEF Read, tables, psql
<1>2. spoiled' \in BOOLEAN /\ (spoiled => spoiled') /\ (~ spoiled' => groups \cap half = {})
  BY DEF Read, Inv, TypeOK
<1>3. /\ TablesInv'
      /\ \A g, row : Good(stored, ~ spoiled, g, row) => Good(stored', ~ spoiled', g, row)
  BY <1>1, <1>2, TablesStay
<1>4. FileInv' /\ PassedIsWritten'
  BY <1>1, <1>3, PsqlRests, FileStays
<1>5. /\ newMap = <<>> /\ base = NoGroup /\ stats = C!NoStats
      /\ panicked = FALSE /\ pending = {} /\ pc # "output"
  BY DEF Inv, MapInv, RunInv, Loading, Working
<1>6. \A g \in groups : Load(g, in_range[g]) \in Entries
  BY DEF Inv, TypeOK, Load, Row, Entries
<1>7. IsGroupMap(orig)
  BY SameTypes DEF Inv, TypeOK, RunTypes
<1>8. DOMAIN orig' = DOMAIN orig \cup groups
  OBVIOUS
<1>9. IsGroupMap(orig')
  <2>1. DOMAIN orig' \subseteq Groups
    BY <1>7, <1>8 DEF IsGroupMap, Inv, TypeOK
  <2>2. \A g \in DOMAIN orig' : orig'[g] \in Entries
    BY <1>6, <1>7 DEF IsGroupMap
  <2>3. orig' \in [DOMAIN orig' -> Entries]
    BY <2>2
  <2>4. QED BY <2>1, <2>3 DEF IsGroupMap
<1>10. C!TypeOK'
  BY <1>9, SameTypes DEF Inv, TypeOK, RunTypes
<1>11. TypeOK'
  BY <1>1, <1>2, <1>5, <1>10 DEF Inv, TypeOK
<1>12. \A g \in groups : Good(stored', ~ spoiled', g, Load(g, in_range[g]))
  <2>1. SUFFICES ASSUME NEW g \in groups
                 PROVE  Good(stored', ~ spoiled', g, Load(g, in_range[g]))
    OBVIOUS
  <2>2. /\ Load(g, in_range[g]).prev = db[g].prev
        /\ Load(g, in_range[g]).delta = db[g].delta
    BY DEF Load
  <2>3. g \in DOMAIN stored /\ DOMAIN stored = DOMAIN db
    BY DEF Inv, TypeOK
  <2>4. db[g].prev # NoGroup => db[g].prev \in DOMAIN stored /\ db[g].prev < g
    BY <2>3 DEF Inv, TablesInv, WellFormed
  <2>5. ~ spoiled' => Good(stored, TRUE, g, db[g])
    BY <1>2 DEF Inv, TablesInv, Good
  <2>6. QED BY <1>1, <2>2, <2>3, <2>4, <2>5 DEF Good
<1>13. \A g \in DOMAIN orig' :
         /\ Good(stored', ~ spoiled', g, orig'[g])
         /\ orig'[g].in_range => AboveMin(g) /\ g =< max_group_found
  <2>1. SUFFICES ASSUME NEW g \in DOMAIN orig'
                 PROVE  /\ Good(stored', ~ spoiled', g, orig'[g])
                        /\ orig'[g].in_range => AboveMin(g) /\ g =< max_group_found
    OBVIOUS
  <2>2. CASE g \in groups
    <3>1. orig'[g] = Load(g, in_range[g]) /\ Load(g, in_range[g]).in_range = in_range[g]
      BY <2>2 DEF Load
    <3>2. QED BY <1>12, <2>2, <3>1
  <2>3. CASE g \notin groups
    <3>1. g \in DOMAIN orig /\ orig'[g] = orig[g]
      BY <2>3
    <3>2. QED BY <1>3, <3>1 DEF Inv, MapInv
  <2>4. QED BY <2>2, <2>3
<1>14. MapInv'
  BY <1>5, <1>13 DEF Inv, MapInv, Loading, Working, AboveMin, UpToMax
<1>15. RunInv'
  BY <1>5 DEF RunInv, Working
<1>16. OrderInv'
  BY <1>1, <1>4 DEF Inv, OrderInv
<1>17. QED BY <1>3, <1>4, <1>11, <1>14, <1>15, <1>16 DEF Inv

\* The groups of the range.
LEMMA GetInitialDataInv ==
  ASSUME Inv, GetInitialData
  PROVE  Inv'
<1>1. /\ pc = "initial" /\ pc' = "missing"
      /\ orig' = [g \in InitialGroups |-> Load(g, TRUE)]
      /\ Read(InitialGroups)
      /\ UNCHANGED <<tables, config, max_group_found, pending, levels, newMap, base,
                     stats, panicked, file, psql>>
  BY DEF GetInitialData
<1>2. InitialGroups \in SUBSET DOMAIN db
  BY DEF InitialGroups, Listed, Inv, TypeOK
<1>3. \A g \in InitialGroups : AboveMin(g) /\ g =< max_group_found
  BY DEF InitialGroups
<1>4. DOMAIN orig = {}
  BY <1>1 DEF Inv, MapInv, Loading
<1> DEFINE yes == [g \in InitialGroups |-> TRUE]
<1>5. yes \in [InitialGroups -> BOOLEAN] /\ \A g \in InitialGroups : yes[g] = TRUE
  OBVIOUS
<1>6. orig' = [g \in DOMAIN orig \cup InitialGroups |->
                 IF g \in InitialGroups THEN Load(g, yes[g]) ELSE orig[g]]
  BY <1>1, <1>4, <1>5
<1> HIDE DEF yes
<1>7. QED BY <1>1, <1>2, <1>3, <1>5, <1>6, LoadInv

\* The predecessors that are missing: those in the range are compressed.
LEMMA GetMissingInv ==
  ASSUME Inv, GetMissing
  PROVE  Inv'
<1> DEFINE range == [g \in Found |-> /\ config.min_state_group # NoGroup
                                     /\ config.min_state_group < g
                                     /\ g =< max_group_found]
<1>1. /\ pc = "missing" /\ pc' = "missing"
      /\ Read(Found)
      /\ UNCHANGED <<tables, config, max_group_found, pending, levels, newMap, base,
                     stats, panicked, file, psql>>
  BY DEF GetMissing, process
<1>2. Found \in SUBSET DOMAIN db
  BY DEF Inv, TablesInv, WellFormed, Found, Missing
<1>3. range \in [Found -> BOOLEAN]
  OBVIOUS
<1>4. config \in Config
  BY ConfigType DEF Inv
<1>5. config.min_state_group \in OptInt
  BY <1>4 DEF Config
<1>6. \A g \in Found : g \in Int
  BY <1>2, GroupsAreNat DEF Inv, TypeOK
<1>7. \A g \in Found : range[g] => AboveMin(g) /\ g =< max_group_found
  BY <1>5, <1>6 DEF AboveMin, OptInt
<1>8. orig' = [g \in DOMAIN orig \cup Found |->
                 IF g \in Found THEN Load(g, range[g]) ELSE orig[g]]
  BY DEF GetMissing
<1> HIDE DEF range
<1>9. QED BY <1>1, <1>2, <1>3, <1>7, <1>8, LoadInv

-----------------------------------------------------------------------------
\* A run at the map it has loaded.  The step leaves the tables, the file and
\* psql alone.
Computing ==
  /\ pc \in {"missing", "compress", "output"}
  /\ UNCHANGED <<tables, config, max_group_found, orig, file, psql, promises>>

\* What such a step leaves as it was.
LEMMA ComputingStays ==
  ASSUME Inv, Computing
  PROVE  /\ UNCHANGED <<stored, half, spoiled, db, roomOf, at, statement, file, orig,
                        config, max_group_found>>
         /\ TablesInv' /\ FileInv' /\ PassedIsWritten'
         /\ \A g \in DOMAIN orig' :
              /\ Good(stored', ~ spoiled', g, orig'[g])
              /\ orig'[g].in_range => AboveMin(g)' /\ g =< max_group_found'
         /\ max_group_found' \in Groups /\ UpToMax(max_group_found)'
<1>1. UNCHANGED <<stored, half, spoiled, db, roomOf, at, statement, file, orig,
                  config, max_group_found, tables, psql>>
  BY DEF Computing, promises, tables, psql
<1>2. /\ TablesInv'
      /\ \A g, row : Good(stored, ~ spoiled, g, row) => Good(stored', ~ spoiled', g, row)
  BY <1>1, TablesStay DEF Inv, TypeOK
<1>3. pc # "idle"
  BY DEF Computing
<1>4. FileInv' /\ PassedIsWritten'
  BY <1>1, <1>2, <1>3, PsqlRests, FileStays
<1>5. max_group_found \in Groups /\ UpToMax(max_group_found)
  BY DEF Inv, MapInv, Computing, Loading
<1>6. QED BY <1>1, <1>2, <1>4, <1>5 DEF Inv, MapInv, AboveMin, UpToMax

\* Every predecessor is loaded: the compressor starts in its invariant.
LEMMA AllLoadedInv ==
  ASSUME Inv, AllLoaded
  PROVE  Inv'
<1>1. /\ pc = "missing" /\ pc' = "compress" /\ Missing = {}
      /\ levels' = [i \in DOMAIN config.level_sizes |-> NewLevel(config.level_sizes[i])]
      /\ UNCHANGED <<pending, newMap, base, stats, panicked>>
  BY DEF AllLoaded
<1>2. Computing
  BY DEF AllLoaded, Computing
<1>3. /\ orig' = orig
      /\ newMap = <<>> /\ base = NoGroup /\ stats = C!NoStats
      /\ panicked = FALSE /\ pending = {}
  BY <1>1, <1>2 DEF Computing, Inv, MapInv, RunInv, Loading, Working
<1>4. levels' \in Seq(Level) /\ Heads(levels') = {}
  <2>1. config.level_sizes \in Seq(Nat)
    BY ConfigType DEF Inv, Config
  <2>2. \A n \in Nat : NewLevel(n) \in Level /\ NewLevel(n).head = NoGroup
    BY DEF NewLevel, Level, OptGroup
  <2>3. levels' \in Seq(Level)
    BY <1>1, <2>1, <2>2
  <2>4. \A i \in DOMAIN levels' : levels'[i].head = NoGroup
    BY <1>1, <2>1, <2>2
  <2>5. QED BY <2>3, <2>4 DEF Heads
<1>5. IsGroupMap(orig)
  BY SameTypes DEF Inv, TypeOK, RunTypes
<1>6. WellFormed(orig)
  <2>1. SUFFICES ASSUME NEW g \in DOMAIN orig, orig[g].prev # NoGroup
                 PROVE  orig[g].prev \in DOMAIN orig /\ orig[g].prev < g
    BY DEF WellFormed
  <2>2. orig[g].prev \in DOMAIN orig
    BY <1>1, <2>1 DEF Missing
  <2>3. orig[g].prev < g
    BY <2>1 DEF Inv, MapInv, Good
  <2>4. QED BY <2>2, <2>3
<1>7. RunFresh'
  BY <1>1, <1>3, <1>4, <1>5, <1>6 DEF RunFresh, C!NoStats
<1>8. Running' /\ C!TypeOK'
  BY <1>7, RunStarts, RunFacts, PTL DEF Compressed
<1>9. /\ UNCHANGED <<stored, half, spoiled, db, roomOf, at, statement, file, orig,
                     config, max_group_found>>
      /\ TablesInv' /\ FileInv' /\ PassedIsWritten'
      /\ \A g \in DOMAIN orig' :
           /\ Good(stored', ~ spoiled', g, orig'[g])
           /\ orig'[g].in_range => AboveMin(g)' /\ g =< max_group_found'
      /\ max_group_found' \in Groups /\ UpToMax(max_group_found)'
  BY <1>2, ComputingStays
<1>10. TypeOK'
  BY <1>1, <1>3, <1>8, <1>9 DEF Inv, TypeOK
<1>11. MapInv'
  BY <1>1, <1>9 DEF MapInv, Loading, Working
<1>12. RunInv'
  BY <1>1, <1>3, <1>8 DEF RunInv, Working
<1>13. OrderInv'
  BY <1>1, <1>9 DEF Inv, OrderInv
<1>14. QED BY <1>9, <1>10, <1>11, <1>12, <1>13 DEF Inv

\* The compressor takes a step.
LEMMA CompressInv ==
  ASSUME Inv, Compress
  PROVE  Inv'
<1>1. pc = "compress" /\ pc' = "compress" /\ pending' = pending /\ C!Next
  BY DEF Compress, process
<1>2. Running
  BY <1>1 DEF Inv, RunInv, Working
<1>3. Running' /\ orig' = orig
  BY <1>1, <1>2, RunSteps
<1>4. Computing
  BY <1>1, <1>3 DEF Compress, Computing, process
<1>5. C!TypeOK'
  <2>1. Compressed'
    BY <1>3, RunFacts, PTL
  <2>2. QED BY <2>1 DEF Compressed
<1>6. pending = {}
  BY <1>1 DEF Inv, RunInv
<1>7. /\ UNCHANGED <<stored, half, spoiled, db, roomOf, at, statement, file, orig,
                     config, max_group_found>>
      /\ TablesInv' /\ FileInv' /\ PassedIsWritten'
      /\ \A g \in DOMAIN orig' :
           /\ Good(stored', ~ spoiled', g, orig'[g])
           /\ orig'[g].in_range => AboveMin(g)' /\ g =< max_group_found'
      /\ max_group_found' \in Groups /\ UpToMax(max_group_found)'
  BY <1>4, ComputingStays
<1>8. TypeOK'
  BY <1>1, <1>5, <1>6, <1>7 DEF Inv, TypeOK
<1>9. MapInv'
  BY <1>1, <1>7 DEF MapInv, Loading, Working
<1>10. RunInv'
  BY <1>1, <1>3, <1>6 DEF RunInv, Working
<1>11. OrderInv'
  BY <1>1, <1>7 DEF Inv, OrderInv
<1>12. QED BY <1>7, <1>8, <1>9, <1>10, <1>11 DEF Inv

\* A run with its new map: nothing but what is pending and pc changes.
Writing ==
  /\ pc \in {"compress", "output"} /\ pc' \in {"output", "send"}
  /\ UNCHANGED <<tables, config, max_group_found, compressor, psql, promises>>
  /\ pending' \subseteq ChangedGroups
  /\ DOMAIN newMap = DOMAIN orig

\* What such a step leaves as it was.
LEMMA WritingStays ==
  ASSUME Inv, Writing
  PROVE  /\ UNCHANGED <<stored, half, spoiled, db, roomOf, at, statement, orig, newMap,
                        config, max_group_found>>
         /\ C!TypeOK' /\ pending' \subseteq DOMAIN orig'
         /\ MapInv' /\ RunInv'
<1>1. UNCHANGED <<stored, half, spoiled, db, roomOf, at, statement,
                  config, max_group_found>>
  BY DEF Writing, promises, tables, psql
<1>2. UNCHANGED <<orig, levels, newMap, base, stats, panicked, compressor>>
  BY DEF Writing, compressor
<1>3. C!TypeOK'
  BY <1>2, SameTypes DEF Inv, TypeOK, RunTypes
<1>4. pending' \subseteq DOMAIN orig'
  BY <1>2 DEF Writing, ChangedGroups
<1>5. max_group_found \in Groups /\ UpToMax(max_group_found)
  BY DEF Inv, MapInv, Writing, Loading
<1>6. MapInv'
  BY <1>1, <1>2, <1>5 DEF Inv, MapInv, Writing, Loading, Working, AboveMin, UpToMax
<1>7. Running
  BY DEF Inv, RunInv, Writing, Working
<1>8. Running'
  BY <1>2, <1>7, RunRests
<1>9. RunInv'
  BY <1>2, <1>8 DEF RunInv, Writing, Working, ChangedGroups
<1>10. QED BY <1>1, <1>2, <1>3, <1>4, <1>6, <1>9

\* The compressor is done: its map has every group, and is written next.
LEMMA AcceptInv ==
  ASSUME Inv, Accept
  PROVE  Inv'
<1>1. /\ pc = "compress" /\ pc' = "output" /\ C!Done /\ file' = file
      /\ pending' = IF config.output_file THEN ChangedGroups ELSE {}
      /\ UNCHANGED <<tables, config, max_group_found, compressor, psql, promises>>
  BY DEF Accept
<1>2. Running
  BY <1>1 DEF Inv, RunInv, Working
<1>3. DOMAIN newMap = DOMAIN orig
  <2>1. DOMAIN newMap \subseteq DOMAIN orig
    BY <1>2, RunFacts DEF Compressed
  <2>2. QED BY <1>1, <2>1 DEF C!Done, C!Todo
<1>4. Writing
  BY <1>1, <1>3 DEF Writing
<1>5. /\ UNCHANGED <<stored, half, spoiled, db, roomOf, at, statement, orig, newMap,
                     config, max_group_found>>
      /\ C!TypeOK' /\ pending' \subseteq DOMAIN orig'
      /\ MapInv' /\ RunInv'
  BY <1>4, WritingStays
<1>6. TypeOK'
  BY <1>1, <1>5 DEF Inv, TypeOK
<1>7. /\ TablesInv'
      /\ \A g, row : Good(stored, ~ spoiled, g, row) => Good(stored', ~ spoiled', g, row)
  BY <1>5, TablesStay DEF Inv, TypeOK, tables
<1>8. FileInv' /\ PassedIsWritten'
  BY <1>1, <1>7, PsqlRests, FileStays DEF promises
<1>9. OrderInv'
  <2>1. config.output_file => file'.sql = <<>> /\ DOMAIN file'.sql = {}
    BY <1>1 DEF Inv, OrderInv
  <2>2. ~ config.output_file => pending' = {}
    BY <1>1
  <2>3. \A i \in DOMAIN file'.sql, g \in pending' : file'.sql[i].group < g
    BY <2>1, <2>2
  <2>4. QED BY <1>1, <1>8, <2>3 DEF Inv, OrderInv
<1>10. QED BY <1>5, <1>6, <1>7, <1>8, <1>9 DEF Inv

\* The rows of the new map are good: compression keeps the states of the groups
\* that were loaded, and those are the states the groups were stored with.
LEMMA NewRowGood ==
  ASSUME Inv, pc \in Working, NEW g \in DOMAIN newMap
  PROVE  Good(stored, ~ spoiled, g, NewRow(g)) /\ NewRow(g) \in Row /\ g \in DOMAIN db
<1>1. /\ IsGroupMap(orig) /\ IsGroupMap(newMap)
      /\ WellFormed(orig) /\ WellFormed(newMap)
      /\ DOMAIN newMap \subseteq DOMAIN orig
      /\ Solves(Collapse(orig), newMap)
  BY SameTypes, RunFacts DEF Inv, TypeOK, RunInv, RunTypes, Compressed
<1>2. NewRow(g) \in Row
  BY <1>1 DEF NewRow, IsGroupMap, Entries, Row
<1>3. \A h \in DOMAIN orig : h \in DOMAIN stored /\ Good(stored, ~ spoiled, h, orig[h])
  BY DEF Inv, MapInv, Good
<1>4. g \in DOMAIN stored /\ DOMAIN stored = DOMAIN db
  BY <1>1, <1>3 DEF Inv, TypeOK
<1>5. newMap[g].prev # NoGroup => newMap[g].prev \in DOMAIN newMap /\ newMap[g].prev < g
  BY <1>1 DEF WellFormed
<1>6. ASSUME ~ spoiled
      PROVE  \A h \in DOMAIN orig : Collapse(orig)[h] = stored[h]
  <2>1. HasRows(orig)
    BY <1>1, EntriesAreRows
  <2>2. Solves(Collapse(orig), orig)
    BY <1>1, <2>1, CollapseSolves
  <2>3. Solves(stored, orig)
    BY <1>3, <1>6 DEF Solves, Good
  <2>4. QED BY <1>1, <2>1, <2>2, <2>3, SolutionsAgree
<1>7. ASSUME ~ spoiled
      PROVE  stored[g] = IF newMap[g].prev = NoGroup
                         THEN newMap[g].delta
                         ELSE Extend(stored[newMap[g].prev], newMap[g].delta)
  <2>1. Collapse(orig)[g] = IF newMap[g].prev = NoGroup
                            THEN newMap[g].delta
                            ELSE Extend(Collapse(orig)[newMap[g].prev], newMap[g].delta)
    BY <1>1 DEF Solves
  <2>2. QED BY <1>1, <1>5, <1>6, <1>7, <2>1
<1>8. newMap[g].prev # NoGroup => newMap[g].prev \in DOMAIN stored
  BY <1>1, <1>3, <1>5
<1>9. NewRow(g).prev = newMap[g].prev /\ NewRow(g).delta = newMap[g].delta
  BY DEF NewRow
<1>10. QED BY <1>2, <1>4, <1>5, <1>7, <1>8, <1>9 DEF Good

\* A changed group is one of the new map.
LEMMA PendingChanged ==
  ASSUME Inv, pending # {}
  PROVE  /\ Min(pending) \in pending
         /\ \A h \in pending : Min(pending) =< h
         /\ Min(pending) \in DOMAIN newMap
         /\ pc \in {"output", "send"} /\ pc \in Working
         /\ Min(pending) \in Nat
<1>1. pending \in SUBSET DOMAIN orig
  BY DEF Inv, TypeOK
<1>2. DOMAIN orig \in SUBSET Nat
  BY SameTypes, GroupsAreNat DEF Inv, TypeOK, RunTypes, IsGroupMap
<1>3. Min(pending) \in pending /\ \A h \in pending : Min(pending) =< h
  BY <1>1, <1>2, MinLeast
<1>4. pc \in {"output", "send"} /\ DOMAIN newMap = DOMAIN orig
  BY DEF Inv, RunInv
<1>5. QED BY <1>1, <1>2, <1>3, <1>4 DEF Working

\* The oldest of the pending groups is written after all older ones.
LEMMA OutputGroupInv ==
  ASSUME Inv, OutputGroup
  PROVE  Inv'
<1> DEFINE g == Min(pending)
           write == [group |-> g, row |-> NewRow(g)]
<1>1. /\ pc = "output" /\ pc' = "output" /\ pending # {}
      /\ file' = [file EXCEPT !.sql = Append(@, write)]
      /\ pending' = pending \ {g}
      /\ UNCHANGED <<tables, config, max_group_found, compressor, psql, promises>>
  BY DEF OutputGroup
<1>2. /\ g \in pending /\ (\A h \in pending : g =< h) /\ g \in DOMAIN newMap
      /\ pc \in Working /\ g \in Nat
  BY <1>1, PendingChanged
<1>3. Good(stored, ~ spoiled, g, NewRow(g)) /\ NewRow(g) \in Row /\ g \in DOMAIN db
  BY <1>2, NewRowGood
<1> HIDE DEF g
<1>4. Writing
  BY <1>1 DEF Writing, Inv, RunInv
<1>5. /\ UNCHANGED <<stored, half, spoiled, db, roomOf, at, statement, orig, newMap,
                     config, max_group_found>>
      /\ C!TypeOK' /\ pending' \subseteq DOMAIN orig'
      /\ MapInv' /\ RunInv'
  BY <1>4, WritingStays
<1>6. file \in File /\ write \in Write
  BY <1>3 DEF Inv, TypeOK, Write
<1>7. /\ file' \in File
      /\ DOMAIN file'.sql = 1 .. Len(file.sql) + 1
      /\ DOMAIN file.sql = 1 .. Len(file.sql) /\ Len(file.sql) \in Nat
      /\ file'.sql[Len(file.sql) + 1] = write
      /\ \A i \in DOMAIN file.sql : file'.sql[i] = file.sql[i]
      /\ file'.transactions = file.transactions
  <2>1. file'.sql = Append(file.sql, write) /\ file'.transactions = file.transactions
    BY <1>1, <1>6 DEF File
  <2>2. file.sql \in Seq(Write) /\ file.transactions \in BOOLEAN
    BY <1>6 DEF File
  <2>3. file' \in [transactions : BOOLEAN, sql : Seq(Write)]
    <3>1. file' = [transactions |-> file'.transactions, sql |-> file'.sql]
      BY <1>1, <1>6 DEF File
    <3>2. Append(file.sql, write) \in Seq(Write)
      BY <1>6, <2>2
    <3>3. QED BY <2>1, <2>2, <3>1, <3>2
  <2> HIDE DEF write
  <2>4. QED BY <1>6, <2>1, <2>2, <2>3 DEF File
<1>8. at # 0 => at \in DOMAIN file.sql
  BY DEF Inv, TypeOK
<1>9. TypeOK'
  <2>1. at' # 0 => at' \in DOMAIN file'.sql
    BY <1>5, <1>7, <1>8
  <2> HIDE DEF write
  <2>2. QED BY <1>1, <1>5, <1>7, <2>1 DEF Inv, TypeOK
<1>10. TablesInv'
  BY <1>5, TablesStay DEF Inv, TypeOK, tables
<1>11. at # 0 => file.transactions
  BY <1>1, PsqlRests
<1>12. FileInv'
  <2>1. SUFFICES ASSUME NEW i \in DOMAIN file'.sql
                 PROVE  Good(stored, ~ spoiled, file'.sql[i].group, file'.sql[i].row)
    BY <1>5, <1>7, <1>11 DEF FileInv
  <2>2. CASE i \in DOMAIN file.sql
    BY <1>7, <2>2 DEF Inv, FileInv
  <2>3. CASE i = Len(file.sql) + 1
    BY <1>3, <1>7, <2>3
  <2>4. QED BY <1>7, <2>2, <2>3
<1>13. OrderInv'
  <2>1. \A i \in DOMAIN file.sql, h \in pending : file.sql[i].group < h
    BY <1>1 DEF Inv, OrderInv
  <2>2. \A i, j \in DOMAIN file.sql : i < j => file.sql[i].group < file.sql[j].group
    BY DEF Inv, OrderInv
  <2>3. \A i, j \in DOMAIN file'.sql : i < j => file'.sql[i].group < file'.sql[j].group
    <3>1. SUFFICES ASSUME NEW i \in DOMAIN file'.sql, NEW j \in DOMAIN file'.sql, i < j
                   PROVE  file'.sql[i].group < file'.sql[j].group
      OBVIOUS
    <3>2. i \in DOMAIN file.sql /\ (j \in DOMAIN file.sql \/ j = Len(file.sql) + 1)
      BY <1>7, <3>1
    <3>3. CASE j \in DOMAIN file.sql
      BY <1>7, <2>2, <3>1, <3>2, <3>3
    <3>4. CASE j = Len(file.sql) + 1
      BY <1>2, <1>7, <2>1, <3>2, <3>4
    <3>5. QED BY <3>2, <3>3, <3>4
  <2>4. \A i \in DOMAIN file'.sql, h \in pending' : file'.sql[i].group < h
    <3>1. SUFFICES ASSUME NEW i \in DOMAIN file'.sql, NEW h \in pending'
                   PROVE  file'.sql[i].group < h
      OBVIOUS
    <3>2. h \in pending /\ h # g
      BY <1>1
    <3>3. CASE i \in DOMAIN file.sql
      BY <1>7, <2>1, <3>2, <3>3
    <3>4. CASE i = Len(file.sql) + 1
      <4>1. g =< h /\ g \in Nat /\ h \in Nat
        BY <1>2, <3>2, SameTypes, GroupsAreNat DEF Inv, TypeOK, RunTypes, IsGroupMap
      <4>2. QED BY <1>7, <3>2, <3>4, <4>1
    <3>5. QED BY <1>7, <3>3, <3>4
  <2>5. PassedIsWritten'
    <3>1. CASE at = 0
      <4>1. 1 .. at' - 1 = {}
        BY <1>5, <3>1
      <4>2. QED BY <4>1 DEF PassedIsWritten
    <3>2. CASE at # 0
      BY <1>7, <1>11, <3>2 DEF PassedIsWritten
    <3>3. QED BY <3>1, <3>2
  <2>6. QED BY <1>1, <2>3, <2>4, <2>5 DEF OrderInv
<1>14. QED BY <1>5, <1>9, <1>10, <1>12, <1>13 DEF Inv

\* The file is complete: the changes are sent, or the run is over.
LEMMA AllOutputInv ==
  ASSUME Inv, AllOutput
  PROVE  Inv'
<1>1. CASE ~ config.commit_changes
  BY <1>1, StopInv DEF AllOutput
<1>2. CASE config.commit_changes
  <2>1. /\ pc = "output" /\ pc' = "send" /\ pending' = ChangedGroups /\ file' = file
        /\ UNCHANGED <<tables, config, max_group_found, compressor, psql, promises>>
    BY <1>2 DEF AllOutput
  <2>2. Writing
    BY <2>1 DEF Writing, Inv, RunInv
  <2>3. /\ UNCHANGED <<stored, half, spoiled, db, roomOf, at, statement, orig, newMap,
                       config, max_group_found>>
        /\ C!TypeOK' /\ pending' \subseteq DOMAIN orig'
        /\ MapInv' /\ RunInv'
    BY <2>2, WritingStays
  <2>4. TypeOK'
    BY <2>1, <2>3 DEF Inv, TypeOK
  <2>5. /\ TablesInv'
        /\ \A g, row : Good(stored, ~ spoiled, g, row) => Good(stored', ~ spoiled', g, row)
    BY <2>3, TablesStay DEF Inv, TypeOK, tables
  <2>6. FileInv' /\ PassedIsWritten'
    BY <2>1, <2>5, PsqlRests, FileStays DEF promises
  <2>7. OrderInv'
    BY <2>1, <2>6 DEF Inv, OrderInv
  <2>8. QED BY <2>3, <2>4, <2>5, <2>6, <2>7 DEF Inv
<1>3. QED BY <1>1, <1>2

-----------------------------------------------------------------------------
\* A good row may replace that of its group, whatever that was.
LEMMA RewriteInv ==
  ASSUME Inv, NEW g, NEW row \in Row, Good(stored, ~ spoiled, g, row), Rewrite(g, row)
  PROVE  /\ UNCHANGED <<roomOf, stored, spoiled>>
         /\ TablesInv'
         /\ DOMAIN db' = DOMAIN db /\ db' \in [DOMAIN db' -> Row] /\ half' \subseteq DOMAIN db'
<1>1. /\ db' = [db EXCEPT ![g] = row] /\ half' = half \ {g}
      /\ UNCHANGED <<roomOf, stored, spoiled>>
  BY DEF Rewrite
<1>2. /\ DOMAIN stored = DOMAIN db /\ g \in DOMAIN db
      /\ db \in [DOMAIN db -> Row] /\ half \subseteq DOMAIN db
  BY DEF Inv, TypeOK, Good
<1>3. DOMAIN db' = DOMAIN db /\ db' \in [DOMAIN db' -> Row] /\ half' \subseteq DOMAIN db'
  BY <1>1, <1>2
<1>4. db'[g] = row /\ \A h \in DOMAIN db : h # g => db'[h] = db[h]
  BY <1>1, <1>2
<1>5. WellFormed(db)'
  <2>1. \A h \in DOMAIN db : db[h].prev # NoGroup =>
          db[h].prev \in DOMAIN db /\ db[h].prev < h
    BY DEF Inv, TablesInv, WellFormed
  <2>2. row.prev # NoGroup => row.prev \in DOMAIN db /\ row.prev < g
    BY <1>2 DEF Good
  <2>3. \A h \in DOMAIN db' : db'[h].prev # NoGroup =>
          db'[h].prev \in DOMAIN db' /\ db'[h].prev < h
    BY <1>3, <1>4, <2>1, <2>2
  <2>4. QED BY <2>3 DEF WellFormed
<1>6. ~ spoiled' => \A h \in DOMAIN db' \ half' : Good(stored', ~ spoiled', h, db'[h])
  <2>1. SUFFICES ASSUME ~ spoiled, NEW h \in DOMAIN db \ half'
                 PROVE  Good(stored, ~ spoiled, h, db'[h])
    BY <1>1, <1>3
  <2>2. CASE h = g
    BY <1>4, <2>2
  <2>3. CASE h # g
    BY <1>1, <1>4, <2>1, <2>3 DEF Inv, TablesInv
  <2>4. QED BY <2>2, <2>3
<1>7. QED BY <1>1, <1>3, <1>5, <1>6 DEF TablesInv

\* The new row of a group is sent in a transaction.
LEMMA SendGroupInv ==
  ASSUME Inv, SendGroup
  PROVE  Inv'
<1> DEFINE g == Min(pending)
<1>1. /\ pc = "send" /\ pc' = "send" /\ pending # {}
      /\ Rewrite(g, NewRow(g))
      /\ pending' = pending \ {g}
      /\ UNCHANGED <<config, max_group_found, compressor, file, psql>>
  BY DEF SendGroup
<1>2. g \in DOMAIN newMap /\ pc \in Working
  BY <1>1, PendingChanged
<1>3. Good(stored, ~ spoiled, g, NewRow(g)) /\ NewRow(g) \in Row
  BY <1>2, NewRowGood
<1> HIDE DEF g
<1>4. /\ UNCHANGED <<roomOf, stored, spoiled>>
      /\ TablesInv'
      /\ DOMAIN db' = DOMAIN db /\ db' \in [DOMAIN db' -> Row] /\ half' \subseteq DOMAIN db'
  BY <1>1, <1>3, RewriteInv
<1>5. UNCHANGED <<at, statement, orig, levels, newMap, base, stats, panicked>>
  BY <1>1 DEF psql, compressor
<1>6. C!TypeOK'
  BY <1>5, SameTypes DEF Inv, TypeOK, RunTypes
<1>7. TypeOK'
  BY <1>1, <1>4, <1>5, <1>6 DEF Inv, TypeOK
<1>8. Running'
  BY <1>1, <1>2, RunRests DEF Inv, RunInv
<1>9. MapInv'
  BY <1>1, <1>4, <1>5 DEF Inv, MapInv, Loading, Working, AboveMin, UpToMax
<1>10. RunInv'
  BY <1>1, <1>5, <1>8 DEF Inv, RunInv, ChangedGroups
<1>11. at # 0 => file.transactions
  BY <1>1, PsqlRests
<1>12. FileInv'
  BY <1>1, <1>4, <1>5, <1>11 DEF Inv, FileInv
<1>13. PassedIsWritten'
  <2>1. CASE at = 0
    <3>1. 1 .. at' - 1 = {}
      BY <1>5, <2>1
    <3>2. QED BY <3>1 DEF PassedIsWritten
  <2>2. CASE at # 0
    BY <1>1, <1>11, <2>2 DEF PassedIsWritten
  <2>3. QED BY <2>1, <2>2
<1>14. OrderInv'
  BY <1>1, <1>13 DEF Inv, OrderInv
<1>15. QED BY <1>4, <1>7, <1>9, <1>10, <1>12, <1>14 DEF Inv

-----------------------------------------------------------------------------
\* psql opens the file.
LEMMA ApplyFileInv ==
  ASSUME Inv, ApplyFile
  PROVE  Inv'
<1>1. /\ at = 0 /\ file.sql # <<>> /\ (~ file.transactions => pc = "idle")
      /\ at' = 1 /\ statement' = 1
      /\ UNCHANGED <<tables, process, compressor, file, promises>>
  BY DEF ApplyFile
<1>2. UNCHANGED <<db, roomOf, stored, half, spoiled, pc, config, max_group_found,
                  pending, orig>>
  BY <1>1 DEF tables, promises, process, compressor
<1>3. /\ TablesInv'
      /\ \A g, row : Good(stored, ~ spoiled, g, row) => Good(stored', ~ spoiled', g, row)
  BY <1>1, <1>2, TablesStay DEF Inv, TypeOK
<1>4. MapInv' /\ RunInv' /\ C!TypeOK'
  BY <1>1, <1>3, ProcessStays
<1>5. 1 \in DOMAIN file.sql
  BY <1>1 DEF Inv, TypeOK, File
<1>6. TypeOK'
  BY <1>1, <1>2, <1>4, <1>5 DEF Inv, TypeOK
<1>7. FileInv'
  BY <1>1, <1>2 DEF Inv, FileInv
<1>8. OrderInv'
  <2>1. 1 .. at' - 1 = {}
    BY <1>1
  <2>2. QED BY <1>1, <1>2, <2>1 DEF Inv, OrderInv, PassedIsWritten
<1>9. QED BY <1>3, <1>4, <1>6, <1>7, <1>8 DEF Inv

\* psql is cut off.
LEMMA BreakOffInv ==
  ASSUME Inv, BreakOff
  PROVE  Inv'
<1>1. /\ at' = 0 /\ statement' = 1
      /\ UNCHANGED <<tables, process, compressor, file, promises>>
  BY DEF BreakOff
<1>2. UNCHANGED <<db, roomOf, stored, half, spoiled, pc, config, max_group_found,
                  pending, orig>>
  BY <1>1 DEF tables, promises, process, compressor
<1>3. /\ TablesInv'
      /\ \A g, row : Good(stored, ~ spoiled, g, row) => Good(stored', ~ spoiled', g, row)
  BY <1>1, <1>2, TablesStay DEF Inv, TypeOK
<1>4. MapInv' /\ RunInv' /\ C!TypeOK'
  BY <1>1, <1>3, ProcessStays
<1>5. TypeOK'
  BY <1>1, <1>2, <1>4 DEF Inv, TypeOK
<1>6. FileInv'
  BY <1>1, <1>2 DEF Inv, FileInv
<1>7. OrderInv'
  <2>1. 1 .. at' - 1 = {}
    BY <1>1
  <2>2. QED BY <1>1, <1>2, <2>1 DEF Inv, OrderInv, PassedIsWritten
<1>8. QED BY <1>3, <1>4, <1>5, <1>6, <1>7 DEF Inv

\* psql is at a group of the file, or through with it.
LEMMA WriteFacts ==
  ASSUME Inv, at # 0
  PROVE  /\ at \in DOMAIN file.sql /\ at \in Nat
         /\ DOMAIN file.sql = 1 .. Len(file.sql) /\ Len(file.sql) \in Nat
         /\ file.sql[at].row \in Row
         /\ Good(stored, ~ spoiled, file.sql[at].group, file.sql[at].row)
         /\ NextWrite => /\ at' \in Nat /\ (at' # 0 => at' \in DOMAIN file.sql)
                         /\ statement' = 1
                         /\ at' # 0 => at' = at + 1
<1>1. at \in DOMAIN file.sql /\ at \in Nat /\ file.sql \in Seq(Write)
  BY DEF Inv, TypeOK, File
<1>2. file.sql[at] \in Write
  BY <1>1
<1>3. file.sql[at].row \in Row
  BY <1>2 DEF Write
<1>4. Good(stored, ~ spoiled, file.sql[at].group, file.sql[at].row)
  BY <1>1 DEF Inv, FileInv
<1>5. DOMAIN file.sql = 1 .. Len(file.sql) /\ Len(file.sql) \in Nat
  BY <1>1
<1>6. QED BY <1>1, <1>3, <1>4, <1>5 DEF NextWrite

\* psql runs the transaction of a group.
LEMMA ApplyTransactionInv ==
  ASSUME Inv, ApplyTransaction
  PROVE  Inv'
<1> DEFINE g   == file.sql[at].group
           row == file.sql[at].row
<1>1. /\ at # 0 /\ file.transactions /\ Rewrite(g, row) /\ NextWrite
      /\ UNCHANGED <<process, compressor, file>>
  BY DEF ApplyTransaction
<1>2. /\ row \in Row /\ Good(stored, ~ spoiled, g, row)
      /\ at' \in Nat /\ (at' # 0 => at' \in DOMAIN file.sql) /\ statement' = 1
  BY <1>1, WriteFacts
<1> HIDE DEF g, row
<1>3. /\ UNCHANGED <<roomOf, stored, spoiled>>
      /\ TablesInv'
      /\ DOMAIN db' = DOMAIN db /\ db' \in [DOMAIN db' -> Row] /\ half' \subseteq DOMAIN db'
  BY <1>1, <1>2, RewriteInv
<1>4. MapInv' /\ RunInv' /\ C!TypeOK'
  BY <1>1, <1>3, ProcessStays
<1>5. UNCHANGED <<pc, config, max_group_found, pending, orig>>
  BY <1>1 DEF process, compressor
<1>6. TypeOK'
  BY <1>1, <1>2, <1>3, <1>4, <1>5 DEF Inv, TypeOK
<1>7. FileInv'
  BY <1>1, <1>3 DEF Inv, FileInv
<1>8. OrderInv'
  BY <1>1, <1>5 DEF Inv, OrderInv, PassedIsWritten
<1>9. QED BY <1>3, <1>4, <1>6, <1>7, <1>8 DEF Inv

\* A statement leaves the groups psql has passed alone.
LEMMA PassedStays ==
  ASSUME Inv, ApplyStatement
  PROVE  \A i \in 1 .. at - 1 : /\ db'[file.sql[i].group] = file.sql[i].row
                                /\ file.sql[i].group \notin half'
<1> DEFINE g == file.sql[at].group
<1>1. /\ at # 0 /\ ~ file.transactions
      /\ db' = [db EXCEPT ![g] = Executed(statement, @, file.sql[at].row)]
      /\ half' = IF statement = 4 THEN half \ {g} ELSE half \cup {g}
  BY DEF ApplyStatement
<1>2. /\ at \in DOMAIN file.sql /\ at \in Nat
      /\ DOMAIN file.sql = 1 .. Len(file.sql) /\ Len(file.sql) \in Nat
  BY <1>1, WriteFacts
<1>3. \A i \in DOMAIN file.sql : i < at => file.sql[i].group # g
  <2>1. \A i, j \in DOMAIN file.sql : i < j => file.sql[i].group < file.sql[j].group
    BY DEF Inv, OrderInv
  <2>2. \A i \in DOMAIN file.sql : file.sql[i].group \in Nat
    <3>1. \A i \in DOMAIN file.sql : file.sql[i].group \in DOMAIN stored
      BY DEF Inv, FileInv, Good
    <3>2. DOMAIN stored \subseteq Nat
      BY GroupsAreNat DEF Inv, TypeOK
    <3>3. QED BY <3>1, <3>2
  <2>3. SUFFICES ASSUME NEW i \in DOMAIN file.sql, i < at
                 PROVE  file.sql[i].group # g
    OBVIOUS
  <2>4. file.sql[i].group < file.sql[at].group
    BY <1>2, <2>1, <2>3
  <2>5. QED BY <1>2, <2>2, <2>4
<1> HIDE DEF g
<1>4. SUFFICES ASSUME NEW i \in 1 .. at - 1
               PROVE  /\ db'[file.sql[i].group] = file.sql[i].row
                      /\ file.sql[i].group \notin half'
  OBVIOUS
<1>5. i \in DOMAIN file.sql /\ i < at
  BY <1>2
<1>6. db[file.sql[i].group] = file.sql[i].row /\ file.sql[i].group \notin half
  BY <1>1 DEF Inv, OrderInv, PassedIsWritten
<1>7. file.sql[i].group # g /\ file.sql[i].group \in DOMAIN db
  BY <1>3, <1>5 DEF Inv, FileInv, Good, TypeOK
<1>8. db \in [DOMAIN db -> Row]
  BY DEF Inv, TypeOK
<1>9. QED BY <1>1, <1>6, <1>7, <1>8

\* The last statement of a group completes its row: the edge is there already.
LEMMA LastWritten ==
  ASSUME Inv, ApplyStatement, statement = 4
  PROVE  /\ db'[file.sql[at].group] = file.sql[at].row
         /\ file.sql[at].group \notin half'
         /\ NextWrite
<1> DEFINE g   == file.sql[at].group
           new == file.sql[at].row
<1>1. /\ at # 0 /\ ~ file.transactions
      /\ db' = [db EXCEPT ![g] = Executed(statement, @, new)]
      /\ half' = half \ {g} /\ NextWrite
  BY DEF ApplyStatement
<1>2. new \in Row /\ g \in DOMAIN db
  BY <1>1, WriteFacts DEF Inv, TypeOK, Good
<1>3. db[g].prev = new.prev
  BY <1>1 DEF Inv, FileInv
<1> HIDE DEF g, new
<1>4. db \in [DOMAIN db -> Row] /\ db[g] \in Row
  BY <1>2 DEF Inv, TypeOK
<1>5. db'[g] = [db[g] EXCEPT !.delta = new.delta]
  BY <1>1, <1>2, <1>4 DEF Executed
<1>6. db'[g] = new
  BY <1>2, <1>3, <1>4, <1>5 DEF Row
<1>7. QED BY <1>1, <1>6 DEF g, new

\* psql runs one statement; the group counts as half-written until the last.
LEMMA ApplyStatementInv ==
  ASSUME Inv, ApplyStatement
  PROVE  Inv'
<1> DEFINE g   == file.sql[at].group
           new == file.sql[at].row
<1>1. /\ at # 0 /\ ~ file.transactions
      /\ db' = [db EXCEPT ![g] = Executed(statement, @, new)]
      /\ half' = IF statement = 4 THEN half \ {g} ELSE half \cup {g}
      /\ IF statement = 4 THEN NextWrite ELSE at' = at /\ statement' = statement + 1
      /\ UNCHANGED <<roomOf, process, compressor, file, stored, spoiled>>
  BY DEF ApplyStatement
<1>2. /\ at \in DOMAIN file.sql /\ at \in Nat
      /\ DOMAIN file.sql = 1 .. Len(file.sql) /\ Len(file.sql) \in Nat
      /\ new \in Row /\ Good(stored, ~ spoiled, g, new)
      /\ NextWrite => /\ at' \in Nat /\ (at' # 0 => at' \in DOMAIN file.sql)
                      /\ statement' = 1
                      /\ at' # 0 => at' = at + 1
  BY <1>1, WriteFacts
<1> HIDE DEF g, new
<1>4. /\ DOMAIN stored = DOMAIN db /\ g \in DOMAIN db
      /\ db \in [DOMAIN db -> Row] /\ half \subseteq DOMAIN db
      /\ statement \in 1 .. 4
  BY <1>2 DEF Inv, TypeOK, Good
<1>5. /\ DOMAIN db' = DOMAIN db
      /\ db'[g] = Executed(statement, db[g], new)
      /\ \A h \in DOMAIN db : h # g => db'[h] = db[h]
  BY <1>1, <1>4
<1>6. /\ statement = 1 => db'[g] = [db[g] EXCEPT !.prev = NoGroup]
      /\ statement = 2 => db'[g] = [db[g] EXCEPT !.prev = new.prev]
      /\ statement = 3 => db'[g] = [db[g] EXCEPT !.delta = [k \in Keys |-> NoEvent]]
      /\ statement = 4 => db'[g] = [db[g] EXCEPT !.delta = new.delta]
  BY <1>5 DEF Executed
<1>7. db[g] \in Row /\ new \in Row
  BY <1>2, <1>4
<1>8. /\ db'[g] \in Row
      /\ db'[g].prev \in {NoGroup, new.prev, db[g].prev}
      /\ statement = 2 => db'[g].prev = new.prev
      /\ statement > 2 => db'[g].prev = db[g].prev
      /\ statement = 4 => db'[g].delta = new.delta
  <2>1. [k \in Keys |-> NoEvent] \in StateMaps
    BY DEF StateMaps
  <2>2. statement = 1 \/ statement = 2 \/ statement = 3 \/ statement = 4
    BY <1>4
  <2>3. CASE statement = 1
    BY <1>6, <1>7, <2>3 DEF Row, OptGroup
  <2>4. CASE statement = 2
    BY <1>6, <1>7, <2>4 DEF Row
  <2>5. CASE statement = 3
    BY <1>6, <1>7, <2>1, <2>5 DEF Row
  <2>6. CASE statement = 4
    BY <1>6, <1>7, <2>6 DEF Row
  <2>7. QED BY <2>2, <2>3, <2>4, <2>5, <2>6
<1>9. db' \in [DOMAIN db' -> Row]
  BY <1>1, <1>4, <1>5, <1>8
<1>10. half' \subseteq DOMAIN db'
  BY <1>1, <1>4, <1>5
<1>11. pc = "idle" /\ (statement > 2 => db[g].prev = new.prev)
  BY <1>1 DEF Inv, FileInv, g, new
<1>12. statement = 4 => db'[g] = new
  BY <1>1, <1>2, LastWritten DEF g, new
<1>13. WellFormed(db)'
  <2>1. \A h \in DOMAIN db : db[h].prev # NoGroup =>
          db[h].prev \in DOMAIN db /\ db[h].prev < h
    BY DEF Inv, TablesInv, WellFormed
  <2>2. new.prev # NoGroup => new.prev \in DOMAIN db /\ new.prev < g
    BY <1>2, <1>4 DEF Good
  <2>3. \A h \in DOMAIN db' : db'[h].prev # NoGroup =>
          db'[h].prev \in DOMAIN db' /\ db'[h].prev < h
    BY <1>4, <1>5, <1>8, <2>1, <2>2
  <2>4. QED BY <2>3 DEF WellFormed
<1>14. TablesInv'
  <2>1. SUFFICES ASSUME ~ spoiled, NEW h \in DOMAIN db \ half'
                 PROVE  Good(stored, ~ spoiled, h, db'[h])
    BY <1>1, <1>5, <1>13 DEF TablesInv
  <2>2. CASE h = g
    BY <1>1, <1>2, <1>12, <2>1, <2>2
  <2>3. CASE h # g
    BY <1>1, <1>5, <2>1, <2>3 DEF Inv, TablesInv
  <2>4. QED BY <2>2, <2>3
<1>15. MapInv' /\ RunInv' /\ C!TypeOK'
  BY <1>1, ProcessStays
<1>16. UNCHANGED <<pc, config, max_group_found, pending, orig>>
  BY <1>1 DEF process, compressor
<1>17. CASE statement = 4
  <2>1. /\ at' \in Nat /\ (at' # 0 => at' \in DOMAIN file.sql) /\ statement' = 1
        /\ at' # 0 => at' = at + 1
    BY <1>1, <1>2, <1>17
  <2>2. TypeOK'
    BY <1>1, <1>5, <1>9, <1>10, <1>15, <1>16, <2>1 DEF Inv, TypeOK
  <2>3. FileInv'
    BY <1>1, <1>11, <1>16, <2>1 DEF Inv, FileInv
  <2>4. PassedIsWritten'
    <3>1. 1 .. at' - 1 \subseteq 1 .. at
      <4>1. CASE at' = 0
        <5>1. 1 .. at' - 1 = {}
          BY <4>1
        <5>2. QED BY <5>1
      <4>2. CASE at' # 0
        <5>1. at' - 1 = at
          BY <1>2, <2>1, <4>2
        <5>2. QED BY <5>1
      <4>3. QED BY <4>1, <4>2
    <3>2. \A i \in 1 .. at : /\ db'[file.sql[i].group] = file.sql[i].row
                             /\ file.sql[i].group \notin half'
      <4>1. \A i \in 1 .. at : i = at \/ i \in 1 .. at - 1
        BY <1>2
      <4>2. QED BY <1>17, <4>1, PassedStays, LastWritten
    <3>3. QED BY <1>1, <3>1, <3>2 DEF PassedIsWritten
  <2>5. OrderInv'
    BY <1>1, <1>16, <2>4 DEF Inv, OrderInv
  <2>6. QED BY <1>14, <1>15, <2>2, <2>3, <2>5 DEF Inv
<1>18. CASE statement # 4
  <2>1. at' = at /\ statement' = statement + 1 /\ statement' \in 1 .. 4
    BY <1>1, <1>4, <1>18
  <2>2. TypeOK'
    BY <1>1, <1>2, <1>5, <1>9, <1>10, <1>15, <1>16, <2>1 DEF Inv, TypeOK
  <2>3. FileInv'
    <3>1. statement' > 2 => db'[g].prev = new.prev
      BY <1>4, <1>8, <1>11, <2>1
    <3>2. QED BY <1>1, <1>11, <1>16, <2>1, <3>1 DEF Inv, FileInv, g, new
  <2>4. PassedIsWritten'
    BY <1>1, <2>1, PassedStays DEF PassedIsWritten
  <2>5. OrderInv'
    BY <1>1, <1>16, <2>4 DEF Inv, OrderInv
  <2>6. QED BY <1>14, <1>15, <2>2, <2>3, <2>5 DEF Inv
<1>19. QED BY <1>17, <1>18

\* Synapse stores a group whose row leads to the state it is stored with.
LEMMA StoreGroupInv ==
  ASSUME Inv, StoreGroup
  PROVE  Inv'
<1>1. PICK g \in NewGroups \ DOMAIN db, room \in Rooms, delta \in NewDeltas :
        \E prev \in {h \in DOMAIN roomOf : roomOf[h] = room /\ h < g} \cup {NoGroup} :
          /\ db' = Insert(db, g, [prev |-> prev, delta |-> delta])
          /\ roomOf' = Insert(roomOf, g, room)
          /\ stored' = Insert(stored, g,
                              IF prev = NoGroup THEN delta ELSE Extend(stored[prev], delta))
          /\ UNCHANGED <<process, compressor, file, psql, half, spoiled>>
  BY DEF StoreGroup
<1>2. PICK prev \in {h \in DOMAIN roomOf : roomOf[h] = room /\ h < g} \cup {NoGroup} :
          /\ db' = Insert(db, g, [prev |-> prev, delta |-> delta])
          /\ roomOf' = Insert(roomOf, g, room)
          /\ stored' = Insert(stored, g,
                              IF prev = NoGroup THEN delta ELSE Extend(stored[prev], delta))
          /\ UNCHANGED <<process, compressor, file, psql, half, spoiled>>
  BY <1>1
<1> DEFINE row  == [prev |-> prev, delta |-> delta]
           full == IF prev = NoGroup THEN delta ELSE Extend(stored[prev], delta)
<1>3. /\ DOMAIN db \subseteq Groups /\ db \in [DOMAIN db -> Row]
      /\ DOMAIN roomOf \subseteq DOMAIN db /\ roomOf \in [DOMAIN roomOf -> Rooms]
      /\ DOMAIN stored = DOMAIN db /\ stored \in [DOMAIN stored -> StateMaps]
      /\ half \subseteq DOMAIN db /\ spoiled \in BOOLEAN
  BY DEF Inv, TypeOK
<1>4. /\ g \in Groups /\ g \notin DOMAIN db /\ delta \in StateMaps
      /\ prev # NoGroup => prev \in DOMAIN db /\ prev < g
  BY <1>3, NewGroupsAssumption
<1>5. row \in Row /\ full \in StateMaps /\ row.prev = prev /\ row.delta = delta
  BY <1>3, <1>4, ExtendType DEF Row, OptGroup
<1>6. db' = Insert(db, g, row) /\ stored' = Insert(stored, g, full)
  BY <1>2
<1> HIDE DEF row
<1>7. /\ DOMAIN db' = DOMAIN db \cup {g} /\ db'[g] = row
      /\ \A h \in DOMAIN db : db'[h] = db[h]
      /\ DOMAIN stored' = DOMAIN stored \cup {g} /\ stored'[g] = full
      /\ \A h \in DOMAIN stored : stored'[h] = stored[h]
  BY <1>3, <1>4, <1>6 DEF Insert
<1>8. UNCHANGED <<half, spoiled, at, statement, file, pc, config, max_group_found,
                  pending, orig, process, compressor>>
  BY <1>2 DEF psql, process, compressor
<1>9. \A h, any : Good(stored, ~ spoiled, h, any) => Good(stored', ~ spoiled', h, any)
  BY <1>7, <1>8, GoodStays
<1>10. MapInv' /\ RunInv' /\ C!TypeOK'
  BY <1>8, <1>9, ProcessStays
<1>11. TypeOK'
  <2>1. db' \in [DOMAIN db' -> Row] /\ stored' \in [DOMAIN stored' -> StateMaps]
    BY <1>3, <1>5, <1>6 DEF Insert
  <2>2. DOMAIN roomOf' \subseteq DOMAIN db' /\ roomOf' \in [DOMAIN roomOf' -> Rooms]
    BY <1>2, <1>3, <1>7 DEF Insert
  <2>3. DOMAIN db' \subseteq Groups /\ DOMAIN stored' = DOMAIN db' /\ half' \subseteq DOMAIN db'
    BY <1>3, <1>4, <1>7, <1>8
  <2>4. QED BY <1>8, <1>10, <2>1, <2>2, <2>3 DEF Inv, TypeOK
<1>12. WellFormed(db)'
  <2>1. \A h \in DOMAIN db : db[h].prev # NoGroup =>
          db[h].prev \in DOMAIN db /\ db[h].prev < h
    BY DEF Inv, TablesInv, WellFormed
  <2>2. \A h \in DOMAIN db' : db'[h].prev # NoGroup =>
          db'[h].prev \in DOMAIN db' /\ db'[h].prev < h
    BY <1>4, <1>5, <1>7, <2>1
  <2>3. QED BY <2>2 DEF WellFormed
<1>13. TablesInv'
  <2>1. Good(stored', ~ spoiled', g, row)
    BY <1>3, <1>4, <1>5, <1>7 DEF Good
  <2>2. ASSUME ~ spoiled, NEW h \in DOMAIN db \ half
        PROVE  Good(stored', ~ spoiled', h, db'[h])
    BY <1>7, <1>9, <2>2 DEF Inv, TablesInv
  <2>3. QED BY <1>7, <1>8, <1>12, <2>1, <2>2 DEF TablesInv
<1>14. \A i \in DOMAIN file.sql : file.sql[i].group \in DOMAIN db
  BY <1>3 DEF Inv, FileInv, Good
<1>15. FileInv'
  <2>1. at # 0 => at \in DOMAIN file.sql
    BY DEF Inv, TypeOK
  <2>2. QED BY <1>7, <1>8, <1>9, <1>14, <2>1 DEF Inv, FileInv
<1>16. PassedIsWritten'
  <2>1. SUFFICES ASSUME ~ file.transactions, NEW i \in 1 .. at - 1
                 PROVE  /\ db'[file.sql[i].group] = file.sql[i].row
                        /\ file.sql[i].group \notin half
    BY <1>8 DEF PassedIsWritten
  <2>2. at \in DOMAIN file.sql
    BY DEF Inv, TypeOK
  <2>3. DOMAIN file.sql = 1 .. Len(file.sql) /\ Len(file.sql) \in Nat
    BY DEF Inv, TypeOK, File
  <2>4. i \in DOMAIN file.sql
    BY <2>2, <2>3
  <2>5. QED BY <1>7, <1>14, <2>1, <2>4 DEF Inv, OrderInv, PassedIsWritten
<1>17. OrderInv'
  BY <1>8, <1>16 DEF Inv, OrderInv
<1>18. QED BY <1>10, <1>11, <1>13, <1>15, <1>17 DEF Inv

\* Every step keeps the invariant.
LEMMA NextInv == Inv /\ [Next]_vars => Inv'
<1> SUFFICES ASSUME Inv, [Next]_vars PROVE Inv'
  OBVIOUS
<1>1. CASE Start
  BY <1>1, StartInv
<1>2. CASE FindMaxGroup
  BY <1>2, FindMaxGroupInv
<1>3. CASE NothingFound
  BY <1>3, StopInv DEF NothingFound
<1>4. CASE GetInitialData
  BY <1>4, GetInitialDataInv
<1>5. CASE GetMissing
  BY <1>5, GetMissingInv
<1>6. CASE AllLoaded
  BY <1>6, AllLoadedInv
<1>7. CASE Compress
  BY <1>7, CompressInv
<1>8. CASE Skip
  BY <1>8, StopInv DEF Skip
<1>9. CASE Accept
  BY <1>9, AcceptInv
<1>10. CASE OutputGroup
  BY <1>10, OutputGroupInv
<1>11. CASE AllOutput
  BY <1>11, AllOutputInv
<1>12. CASE SendGroup
  BY <1>12, SendGroupInv
<1>13. CASE AllSent
  BY <1>13, StopInv DEF AllSent
<1>14. CASE Crash
  BY <1>14, StopInv DEF Crash
<1>15. CASE ApplyFile
  BY <1>15, ApplyFileInv
<1>16. CASE ApplyTransaction
  BY <1>16, ApplyTransactionInv
<1>17. CASE ApplyStatement
  BY <1>17, ApplyStatementInv
<1>18. CASE BreakOff
  BY <1>18, BreakOffInv
<1>19. CASE StoreGroup
  BY <1>19, StoreGroupInv
<1>20. CASE UNCHANGED vars
  <2>1. UNCHANGED <<tables, process, compressor, file, psql, promises>>
    BY <1>20 DEF vars
  <2>2. UNCHANGED <<db, roomOf, stored, half, spoiled, pc, config, max_group_found,
                    pending, at, statement>>
    BY <2>1 DEF tables, promises, process, psql
  <2>3. /\ TablesInv'
        /\ \A g, row : Good(stored, ~ spoiled, g, row) => Good(stored', ~ spoiled', g, row)
    BY <2>2, TablesStay DEF Inv, TypeOK, tables
  <2>4. MapInv' /\ RunInv' /\ C!TypeOK'
    BY <2>1, <2>3, ProcessStays
  <2>5. at # 0 /\ ~ file.transactions => pc' = "idle"
    BY <2>2 DEF Inv, FileInv
  <2>6. FileInv' /\ PassedIsWritten'
    BY <2>1, <2>3, <2>5, FileStays DEF promises
  <2>7. orig' = orig
    BY <2>1 DEF compressor
  <2>8. TypeOK'
    BY <2>1, <2>2, <2>4, <2>7 DEF Inv, TypeOK
  <2>9. OrderInv'
    BY <2>1, <2>2, <2>6 DEF Inv, OrderInv
  <2>10. QED BY <2>3, <2>4, <2>6, <2>8, <2>9 DEF Inv
<1>21. QED
  BY <1>1, <1>2, <1>3, <1>4, <1>5, <1>6, <1>7, <1>8, <1>9, <1>10, <1>11, <1>12, <1>13,
     <1>14, <1>15, <1>16, <1>17, <1>18, <1>19, <1>20 DEF Next, Step, Psql

\* Good rows add up to the states the groups were stored with, in every set of
\* fully written groups that has the predecessors of its groups.
LEMMA InvKeepsStates == Inv => StatesAreKept
<1> SUFFICES ASSUME Inv, ~ spoiled, NEW g \in Clean
             PROVE  Collapse(db)[g] = stored[g]
  BY DEF StatesAreKept
<1>1. PICK closed \in SUBSET (DOMAIN db \ half) :
        /\ g \in closed
        /\ \A h \in closed : db[h].prev \in closed \cup {NoGroup}
  BY DEF Clean
<1> DEFINE part == [h \in closed |-> db[h]]
<1>2. HasRows(db) /\ WellFormed(db)
  BY TablesAreRows DEF Inv, TablesInv
<1>3. DOMAIN part = closed /\ \A h \in closed : part[h] = db[h]
  OBVIOUS
<1> HIDE DEF part
<1>4. HasRows(part)
  BY <1>1, <1>2, <1>3 DEF HasRows
<1>5. WellFormed(part)
  BY <1>1, <1>2, <1>3 DEF WellFormed
<1>6. Collapse(part)[g] = Collapse(db)[g]
  <2>1. DOMAIN part \subseteq DOMAIN db
    BY <1>1, <1>3
  <2>2. \A h \in DOMAIN part : part[h].prev = db[h].prev /\ part[h].delta = db[h].delta
    BY <1>3
  <2>3. QED BY <1>1, <1>2, <1>3, <1>4, <1>5, <2>1, <2>2, PartCollapse
<1>7. Solves(stored, part)
  <2>1. \A h \in closed : Good(stored, ~ spoiled, h, db[h])
    BY <1>1 DEF Inv, TablesInv
  <2>2. QED BY <1>3, <2>1 DEF Good, Solves
<1>8. Solves(Collapse(part), part)
  BY <1>4, <1>5, CollapseSolves
<1>9. Collapse(part)[g] = stored[g]
  BY <1>1, <1>3, <1>4, <1>5, <1>7, <1>8, SolutionsAgree
<1>10. QED BY <1>6, <1>9

\* A changed group was compressed, so it was loaded as one in the range.
LEMMA InvStaysInRange == Inv => RewritesStayInRange
<1> SUFFICES ASSUME Inv, NEW g \in pending
             PROVE  /\ config.min_state_group # NoGroup => g > config.min_state_group
                    /\ config.max_state_group # NoGroup => g =< config.max_state_group
  BY DEF RewritesStayInRange
<1>1. /\ g \in DOMAIN orig /\ newMap[g] # orig[g]
      /\ pc \in {"output", "send"} /\ DOMAIN newMap = DOMAIN orig
  BY DEF Inv, RunInv, ChangedGroups
<1>2. Compressed
  BY <1>1, RunFacts DEF Inv, RunInv, Working
<1>3. orig[g].in_range
  BY <1>1, <1>2 DEF Compressed
<1>4. AboveMin(g) /\ g =< max_group_found
  BY <1>1, <1>3 DEF Inv, MapInv
<1>5. max_group_found \in Groups /\ UpToMax(max_group_found)
  BY <1>1 DEF Inv, MapInv, Loading
<1>6. config.max_state_group \in OptInt
  BY ConfigType DEF Inv, Config
<1>7. g \in Groups
  BY <1>1, SameTypes DEF Inv, TypeOK, RunTypes, IsGroupMap
<1>8. g \in Int /\ max_group_found \in Int
  BY <1>5, <1>7, GroupsAreNat
<1>9. QED BY <1>4, <1>5, <1>6, <1>8 DEF AboveMin, UpToMax, OptInt

-----------------------------------------------------------------------------
\* The invariant is one, in every behaviour, with any database and arguments.
THEOREM InvIsInvariant == Spec => []Inv
BY InitInv, NextInv, PTL DEF Spec

\* The types of the tables, the process, the file and the promises, whatever
\* the tool, psql and Synapse do (run in src/lib.rs).
THEOREM TypeCorrect == Spec => []TypeOK
<1>1. Inv => TypeOK
  BY DEF Inv
<1>2. QED BY <1>1, InvIsInvariant, PTL

\* "The SQL generated is safe to apply against the database with Synapse
\* running" (README.md), at any time: no state changes, save behind a group psql
\* has half-written without a transaction.
THEOREM StatesStayKept == Spec => []StatesAreKept
BY InvKeepsStates, InvIsInvariant, PTL

\* The edges of the tables, which generate_sql and send_changes_to_db replace
\* group by group, always lead to older groups.
THEOREM EdgesAlwaysLeadBack == Spec => []EdgesLeadBack
<1>1. Inv => EdgesLeadBack
  BY DEF Inv, TablesInv, EdgesLeadBack
<1>2. QED BY <1>1, InvIsInvariant, PTL

\* What output_sql and send_changes_to_db are to write lies in the range the
\* arguments give (find_max_group and load_map_from_db in src/database.rs).
THEOREM RangeIsRespected == Spec => []RewritesStayInRange
BY InvStaysInRange, InvIsInvariant, PTL

\* At the last group of the file, psql has passed all others.
LEMMA InvRepairs ==
  ASSUME Inv, ApplyStatement, at' = 0
  PROVE  \A i \in DOMAIN file.sql : /\ db'[file.sql[i].group] = file.sql[i].row
                                    /\ file.sql[i].group \notin half'
<1>1. /\ at # 0
      /\ IF statement = 4 THEN NextWrite ELSE at' = at /\ statement' = statement + 1
  BY DEF ApplyStatement
<1>2. statement = 4 /\ NextWrite
  BY <1>1
<1>3. /\ at \in Nat /\ at \in DOMAIN file.sql
      /\ DOMAIN file.sql = 1 .. Len(file.sql) /\ Len(file.sql) \in Nat
  BY <1>1, WriteFacts
<1>4. at = Len(file.sql)
  BY <1>2, <1>3 DEF NextWrite
<1>5. \A i \in DOMAIN file.sql : i = at \/ i \in 1 .. at - 1
  BY <1>3, <1>4
<1>6. QED BY <1>2, <1>5, PassedStays, LastWritten

\* The file of output_sql, without transactions: whatever psql left behind when
\* it broke off, a full application leaves all of the file's groups with the
\* file's rows, and none half-written.
THEOREM FileMayBeAppliedAgain == Spec => ApplyingAgainRepairs
<1>1. Inv /\ [Next]_vars =>
        [ApplyStatement /\ at' = 0 =>
           \A i \in DOMAIN file.sql :
             /\ db'[file.sql[i].group] = file.sql[i].row
             /\ file.sql[i].group \notin half']_vars
  BY InvRepairs
<1>2. QED BY <1>1, InvIsInvariant, PTL DEF Spec, ApplyingAgainRepairs

-----------------------------------------------------------------------------
\* Where no group is half-written, and no run has read one, the tables hold the
\* states the groups were stored with.
LEMMA TablesHoldStates ==
  ASSUME Inv, half = {}, ~ spoiled
  PROVE  Collapse(db) = stored
<1>1. HasRows(db) /\ WellFormed(db)
  BY TablesAreRows DEF Inv, TablesInv
<1>2. \A g \in DOMAIN db : Good(stored, ~ spoiled, g, db[g])
  BY DEF Inv, TablesInv
<1>3. Solves(stored, db)
  BY <1>2 DEF Good, Solves
<1>4. stored = [g \in DOMAIN db |-> stored[g]]
  BY DEF Inv, TypeOK
<1>5. QED BY <1>1, <1>3, <1>4, CollapseUnique

\* What the model keeps of the promises is a store of states.
LEMMA PromisesAreStore ==
  ASSUME Inv, [Next]_vars
  PROVE  \/ stored' = stored
         \/ \E g \in Groups \ DOMAIN stored, m \in StateMaps : stored' = Insert(stored, g, m)
<1>1. CASE StoreGroup
  <2>1. PICK g \in NewGroups \ DOMAIN db, delta \in NewDeltas, prev \in DOMAIN roomOf \cup {NoGroup} :
          stored' = Insert(stored, g,
                           IF prev = NoGroup THEN delta ELSE Extend(stored[prev], delta))
    BY <1>1 DEF StoreGroup
  <2> DEFINE full == IF prev = NoGroup THEN delta ELSE Extend(stored[prev], delta)
  <2>2. /\ DOMAIN roomOf \subseteq DOMAIN db
        /\ DOMAIN stored = DOMAIN db /\ stored \in [DOMAIN stored -> StateMaps]
    BY DEF Inv, TypeOK
  <2>3. g \in Groups \ DOMAIN stored /\ full \in StateMaps
    BY <2>2, NewGroupsAssumption, ExtendType
  <2>4. QED BY <2>1, <2>3
<1>2. CASE ~ StoreGroup
  BY <1>2 DEF Next, Start, Step, Psql, Crash, vars, promises, FindMaxGroup, NothingFound,
         GetInitialData, GetMissing, Read, AllLoaded, Compress, Skip, Accept, OutputGroup,
         AllOutput, SendGroup, Rewrite, AllSent, ApplyFile, ApplyTransaction, ApplyStatement,
         BreakOff
<1>3. QED BY <1>1, <1>2

\* With -t whenever there is a file.
OnlyTransactions ==
  \A c \in Configs : c.output_file => c.transactions

\* Then nothing is ever half-written.
WholeInv ==
  /\ half = {} /\ spoiled = FALSE
  /\ file.sql = <<>> \/ file.transactions
  /\ pc # "idle" /\ config.output_file => file.transactions
  /\ pc = "output" /\ pending # {} => config.output_file

\* Every step is a whole transaction.
LEMMA NextWhole ==
  ASSUME OnlyTransactions, Inv, WholeInv, [Next]_vars
  PROVE  WholeInv'
<1> USE DEF WholeInv
<1>1. at # 0 => file.transactions
  <2>1. at # 0 => file.sql # <<>>
    BY DEF Inv, TypeOK
  <2>2. QED BY <2>1
<1>2. CASE Start
  BY <1>2 DEF Start, OnlyTransactions, EmptyFile, promises
<1>3. CASE GetInitialData \/ GetMissing
  BY <1>3 DEF GetInitialData, GetMissing, Read, process
<1>4. CASE Accept
  BY <1>4 DEF Accept, promises
<1>5. CASE OutputGroup
  <2>1. config.output_file /\ file.transactions
    BY <1>5 DEF OutputGroup
  <2>2. file'.transactions = file.transactions
    BY <1>5 DEF OutputGroup, Inv, TypeOK, File
  <2>3. QED BY <1>5, <2>1, <2>2 DEF OutputGroup, promises
<1>6. CASE SendGroup \/ ApplyTransaction
  BY <1>6 DEF SendGroup, ApplyTransaction, Rewrite, process
<1>7. CASE AllOutput
  BY <1>7 DEF AllOutput, Stop, promises
<1>8. CASE ApplyStatement
  BY <1>1, <1>8 DEF ApplyStatement
<1>9. CASE StoreGroup
  BY <1>9 DEF StoreGroup, process
<1>10. CASE NothingFound \/ Skip \/ AllSent \/ Crash
  BY <1>10 DEF NothingFound, Skip, AllSent, Crash, Stop, promises
<1>11. CASE FindMaxGroup \/ AllLoaded
  BY <1>11 DEF FindMaxGroup, AllLoaded, promises
<1>12. CASE Compress \/ ApplyFile \/ BreakOff \/ UNCHANGED vars
  BY <1>12 DEF Compress, ApplyFile, BreakOff, vars, process, promises
<1>13. QED
  BY <1>2, <1>3, <1>4, <1>5, <1>6, <1>7, <1>8, <1>9, <1>10, <1>11, <1>12 DEF Next, Step, Psql

\* The tables as a store of states.
Store == INSTANCE StateStore WITH state <- Collapse(db)

\* With -t, the manual tool and its files, whenever and however often they are
\* applied, also in part, implement StateStore, for every database and all
\* arguments: between any two transactions every group has the state it was
\* stored with ("This should be done if you wish to apply the changes while
\* synapse is still running", README.md on -t).
THEOREM TransactionsAreNotSeen ==
  ASSUME OnlyTransactions
  PROVE  Spec => Store!Spec
<1> USE DEF Store!Groups, Groups, Store!StateMaps, StateMaps, Store!Insert, Insert
<1>1. Init => WholeInv
  BY DEF Init, WholeInv, EmptyFile
<1>2. Inv /\ WholeInv => Collapse(db) = stored
  BY TablesHoldStates DEF WholeInv
<1>3. Inv /\ WholeInv => Store!Init
  <2>1. SUFFICES ASSUME Inv, WholeInv PROVE Store!Init
    OBVIOUS
  <2>2. /\ DOMAIN stored \subseteq Groups /\ stored \in [DOMAIN stored -> StateMaps]
        /\ Collapse(db) = stored
    BY <1>2, <2>1 DEF Inv, TypeOK
  <2>3. QED BY <2>2 DEF Store!Init
<1>4. Inv /\ [Next]_vars /\ Collapse(db) = stored /\ (Collapse(db) = stored)'
        => [Store!Store]_(Collapse(db))
  <2>1. SUFFICES ASSUME Inv, [Next]_vars, Collapse(db) = stored, (Collapse(db) = stored)'
                 PROVE  Store!Store \/ UNCHANGED Collapse(db)
    OBVIOUS
  <2>2. QED BY <2>1, PromisesAreStore DEF Store!Store
<1>5. Inv /\ WholeInv /\ [Next]_vars => WholeInv'
  BY NextWhole
<1>6. QED BY <1>1, <1>2, <1>3, <1>4, <1>5, InitInv, InvIsInvariant, PTL DEF Spec, Store!Spec
=============================================================================
