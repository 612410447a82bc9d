------------------------ MODULE AutoCompressorProofs ------------------------
(***************************************************************************)
(* synapse_auto_compressor is not seen by Synapse: for every database it   *)
(* is run on, every command line, any crashes and any groups that are      *)
(* stored meanwhile, it implements StateStore.                             *)
(*                                                                         *)
(* CompressorProofs says what the compression of a chunk does to the map   *)
(* that was loaded.  The invariant here says that the map and the levels   *)
(* are such that it may be cited (StoredInv, JobInv, MapInv), and that     *)
(* what it says of the map is true of the tables, too, while the new rows  *)
(* are sent one by one (ChunkInv).                                         *)
(***************************************************************************)
EXTENDS AutoCompressor, StateGroupsProofs

\* The proofs about the compressor of a chunk.
CP == INSTANCE ChainProofs WITH Calls <- {}

LEMMA KeysFinite == CP!IsFiniteSet(Keys)
BY KeysAssumption DEF CP!IsFiniteSet, IsFiniteSet

-----------------------------------------------------------------------------
\* AutoCompressor and CompressorProofs each have a copy of the definitions of
\* Compressor; the lemmas up to ChunkFacts carry facts from one to the other.

\* The compressor of a chunk takes the steps that the proofs are about.
LEMMA SameActions == C!Next <=> CP!Next
<1> USE DEF C!AtGroup, CP!AtGroup, C!InRange, CP!InRange, C!AtBase, CP!AtBase,
            C!Finish, CP!Finish, C!Todo, CP!Todo, C!Current, CP!Current, C!Min, CP!Min,
            C!Original, CP!Original, C!Collapse, CP!Collapse, C!Entry, CP!Entry,
            C!Insert, CP!Insert, C!Extend, CP!Extend
<1>1. C!CopyOutOfRange <=> CP!CopyOutOfRange
  BY DEF C!CopyOutOfRange, CP!CopyOutOfRange
<1>2. C!Candidate(levels) = CP!Candidate(levels)
  BY DEF C!Candidate, CP!Candidate, C!Chosen, CP!Chosen, C!HasSpace, CP!HasSpace,
         C!Visited, CP!Visited
<1>3. \A g : C!Place(levels, g) = CP!Place(levels, g)
  BY DEF C!Place, CP!Place, C!HasSpace, CP!HasSpace, C!Visited, CP!Visited,
         C!Update, CP!Update
<1>4. C!KeepEntry <=> CP!KeepEntry
  BY <1>2, <1>3 DEF C!KeepEntry, CP!KeepEntry
<1>5. C!StoreFull <=> CP!StoreFull
  BY <1>2, <1>3 DEF C!StoreFull, CP!StoreFull
<1>6. C!StartDelta <=> CP!StartDelta
  BY <1>2, <1>3 DEF C!StartDelta, CP!StartDelta
<1>7. C!BaseFits <=> CP!BaseFits
  BY DEF C!BaseFits, CP!BaseFits, C!Fits, CP!Fits
<1>8. C!UseBase <=> CP!UseBase
  BY <1>7 DEF C!UseBase, CP!UseBase, C!DeltaFrom, CP!DeltaFrom
<1>9. C!WalkUp <=> CP!WalkUp
  BY <1>7 DEF C!WalkUp, CP!WalkUp
<1>10. C!ForcedReset <=> CP!ForcedReset
  BY <1>7 DEF C!ForcedReset, CP!ForcedReset, C!Size, CP!Size,
              C!Cardinality, CP!Cardinality
<1>11. C!MissingBase <=> CP!MissingBase
  BY DEF C!MissingBase, CP!MissingBase
<1>12. QED
  BY <1>1, <1>4, <1>5, <1>6, <1>8, <1>9, <1>10, <1>11 DEF C!Next, CP!Next

\* The words of StateGroups and Levels mean the same in both.
LEMMA SameWords ==
  /\ \A map : HasRows(map) <=> CP!HasRows(map)
  /\ \A map : IsGroupMap(map) <=> CP!IsGroupMap(map)
  /\ \A map : WellFormed(map) <=> CP!WellFormed(map)
  /\ \A map : Collapse(map) = CP!Collapse(map)
  /\ \A full, map : Solves(full, map) <=> CP!Solves(full, map)
  /\ \A ls : Heads(ls) = CP!Heads(ls)
  /\ Level = CP!Level
<1> USE DEF OptGroup, CP!OptGroup, Groups, CP!Groups, StateMaps, CP!StateMaps,
            Extend, CP!Extend
<1>1. \A map : HasRows(map) <=> CP!HasRows(map)
  BY DEF HasRows, CP!HasRows
<1>2. \A map : IsGroupMap(map) <=> CP!IsGroupMap(map)
  BY DEF IsGroupMap, CP!IsGroupMap, Entries, CP!Entries
<1>3. \A map : WellFormed(map) <=> CP!WellFormed(map)
  BY DEF WellFormed, CP!WellFormed
<1>4. \A map : Collapse(map) = CP!Collapse(map)
  BY DEF Collapse, CP!Collapse
<1>5. \A full, map : Solves(full, map) <=> CP!Solves(full, map)
  BY DEF Solves, CP!Solves
<1>6. \A ls : Heads(ls) = CP!Heads(ls)
  BY DEF Heads, CP!Heads
<1>7. Level = CP!Level
  BY DEF Level, CP!Level
<1>8. QED BY <1>1, <1>2, <1>3, <1>4, <1>5, <1>6, <1>7

\* The types of the compressor's variables, in the words of this module.
ChunkTypes ==
  /\ IsGroupMap(orig)
  /\ levels \in Seq(Level)
  /\ IsGroupMap(newMap)
  /\ base \in OptGroup
  /\ stats \in [resets : Nat, resetsSize : Nat, changed : Nat]
  /\ panicked \in BOOLEAN

\* They are those of Compressor, now and in the next state.
LEMMA SameTypes == (C!TypeOK <=> ChunkTypes) /\ (C!TypeOK' <=> ChunkTypes')
BY DEF C!TypeOK, ChunkTypes, C!IsGroupMap, IsGroupMap, C!Entries, Entries,
       C!OptGroup, OptGroup, C!Groups, Groups, C!StateMaps, StateMaps, C!Level, Level

\* A chunk that is called as it should be starts in the invariant.
LEMMA ChunkStarts ==
  ASSUME IsGroupMap(orig), WellFormed(orig), levels \in Seq(Level),
         \A head \in Heads(levels), g \in DOMAIN orig :
           orig[g].in_range => head < g,
         newMap = <<>>, base = NoGroup, stats = C!NoStats, panicked = FALSE
  PROVE  CP!Inv
<1>1. stats = CP!NoStats
  BY DEF C!NoStats, CP!NoStats
<1>2. /\ CP!IsGroupMap(orig)
      /\ CP!WellFormed(orig)
      /\ levels \in Seq(CP!Level)
      /\ \A head \in CP!Heads(levels), g \in DOMAIN orig :
           orig[g].in_range => head < g
  BY SameWords
<1>3. QED
  BY <1>1, <1>2, CP!CallInv, KeysFinite, KeysAssumption, NoEventAssumption,
     MaxGroupAssumption, NoGroupAssumption

\* Its steps keep the invariant and the map, and new heads are groups in range.
LEMMA ChunkSteps ==
  ASSUME CP!Inv, C!Next
  PROVE  /\ CP!Inv'
         /\ orig' = orig
         /\ \A head \in Heads(levels') :
              head \in Heads(levels) \/ (head \in DOMAIN orig /\ orig[head].in_range)
<1>1. CP!Next
  BY SameActions
<1>2. CP!Inv'
  BY <1>1, CP!NextInv, KeysFinite, KeysAssumption, NoEventAssumption,
     MaxGroupAssumption, NoGroupAssumption
<1>3. /\ orig' = orig
      /\ \A head \in CP!Heads(levels') :
           head \in CP!Heads(levels) \/ (head \in DOMAIN orig /\ orig[head].in_range)
  BY <1>1, CP!NextKeeps, KeysFinite, KeysAssumption, NoEventAssumption,
     MaxGroupAssumption, NoGroupAssumption
<1>4. QED BY <1>2, <1>3, SameWords

\* While the rest of the process is at work, the invariant stays.
LEMMA ChunkRests ==
  ASSUME CP!Inv, UNCHANGED compressor
  PROVE  CP!Inv'
<1>1. UNCHANGED CP!vars
  BY DEF compressor, CP!vars
<1>2. QED
  BY <1>1, CP!NextInv, KeysFinite, KeysAssumption, NoEventAssumption,
     MaxGroupAssumption, NoGroupAssumption

\* What the invariant of the chunk says.
LEMMA ChunkFacts ==
  ASSUME CP!Inv
  PROVE  /\ C!TypeOK
         /\ IsGroupMap(orig) /\ WellFormed(orig)
         /\ IsGroupMap(newMap) /\ WellFormed(newMap)
         /\ DOMAIN newMap \subseteq DOMAIN orig
         /\ Solves(Collapse(orig), newMap)
<1>1. CP!TypeOK /\ CP!WellFormed(orig) /\ CP!WellFormed(newMap)
  BY DEF CP!Inv
<1>2. DOMAIN newMap \subseteq DOMAIN orig
  BY DEF CP!Inv, CP!Prefix
<1>3. CP!Solves(CP!Original, newMap)
  BY DEF CP!Inv
<1>4. CP!Original = Collapse(orig)
  BY SameWords DEF CP!Original
<1>5. CP!IsGroupMap(orig) /\ CP!IsGroupMap(newMap)
  BY <1>1 DEF CP!TypeOK
<1>6. C!TypeOK
  BY <1>1, <1>5, SameWords, SameTypes
     DEF CP!TypeOK, ChunkTypes, OptGroup, CP!OptGroup, Groups, CP!Groups
<1>7. QED BY <1>1, <1>2, <1>3, <1>4, <1>5, <1>6, SameWords

-----------------------------------------------------------------------------
\* Nothing in the levels is newer than max.
HeadsUpTo(ls, max) == \A head \in Heads(ls) : max # NoGroup /\ head =< max

\* From the search for the chunk to the loaded map; from there to the end.
Finding == {"find", "heads", "initial", "missing"}
Working == {"compress", "send", "save", "skip"}

\* What is stored, whatever the compressor is at.
StoredInv ==
  /\ HasRows(db)
  /\ WellFormed(db)
  /\ \A r \in Rooms : HeadsUpTo(saved[r], progress[r])

\* What the chunk begins and ends with.
JobInv ==
  /\ pc = "save_lowest" => job.max \in Groups
  /\ pc \in {"save_lowest", "read"} => job.start = NoGroup
  /\ pc \in Finding \cup Working =>
       saved[job.room] = <<>> \/ job.start = progress[job.room]
  /\ pc \in Finding => HeadsUpTo(levels, job.start)
  /\ pc \in (Finding \ {"find"}) \cup Working =>
       job.max \in Groups /\ AfterStart(job.max)

\* What has been loaded of the database.
MapInv ==
  /\ pc \notin {"initial", "missing"} \cup Working => orig = <<>>
  /\ pc \notin Working =>
       newMap = <<>> /\ base = NoGroup /\ stats = C!NoStats /\ panicked = FALSE
  /\ DOMAIN orig \subseteq DOMAIN db
  /\ \A g \in DOMAIN orig : orig[g].in_range => AfterStart(g) /\ g =< job.max
  /\ pc \notin Working =>
       \A g \in DOMAIN orig : orig[g].prev = db[g].prev /\ orig[g].delta = db[g].delta

\* What has been computed from it.
ChunkInv ==
  /\ pc \in Working =>
       /\ CP!Inv
       /\ HeadsUpTo(levels, job.max)
       /\ \A g \in DOMAIN orig : Collapse(orig)[g] = Collapse(db)[g]
  /\ pc = "send" => DOMAIN newMap = DOMAIN orig

Inv ==
  /\ TypeOK
  /\ StoredInv
  /\ JobInv
  /\ MapInv
  /\ ChunkInv

\* The empty map, as a map and as levels.
LEMMA EmptyMap ==
  IsGroupMap(<<>>) /\ DOMAIN <<>> = {} /\ Heads(<<>>) = {} /\ <<>> \in Seq(Level)
<1>1. DOMAIN <<>> = {}
  OBVIOUS
<1>2. QED BY <1>1 DEF IsGroupMap, Heads

\* The variables of the compressor while there is none.
LEMMA EmptyCompressor ==
  ASSUME orig = <<>>, levels = <<>>, newMap = <<>>, base = NoGroup,
         stats = C!NoStats, panicked = FALSE
  PROVE  C!TypeOK
<1>1. DOMAIN orig = {} /\ DOMAIN newMap = {}
  OBVIOUS
<1>2. C!IsGroupMap(orig) /\ C!IsGroupMap(newMap)
  BY <1>1 DEF C!IsGroupMap
<1>3. levels \in Seq(C!Level)
  OBVIOUS
<1>4. base \in C!OptGroup
  BY DEF C!OptGroup
<1>5. stats \in [resets : Nat, resetsSize : Nat, changed : Nat]
  BY DEF C!NoStats
<1>6. QED BY <1>2, <1>3, <1>4, <1>5 DEF C!TypeOK

\* The tool is first run in the invariant.
LEMMA InitInv == Init => Inv
<1> SUFFICES ASSUME Init PROVE Inv
  OBVIOUS
<1>1. PICK d \in Databases : db = d.db /\ roomOf = d.roomOf
  BY DEF Init
<1>2. /\ DOMAIN db \subseteq Groups
      /\ db \in [DOMAIN db -> Row]
      /\ WellFormed(db)
      /\ DOMAIN roomOf \subseteq DOMAIN db
      /\ roomOf \in [DOMAIN roomOf -> Rooms]
  BY <1>1, DatabasesAssumption
<1>3. HasRows(db)
  BY <1>2 DEF HasRows, Row
<1>4. C!TypeOK
  BY EmptyCompressor DEF Init
<1>5. TypeOK
  BY <1>2, <1>4, RoomsAssumption, EmptyMap DEF Init, TypeOK, OptGroup, NoJob
<1>6. StoredInv /\ JobInv /\ MapInv /\ ChunkInv
  BY <1>2, <1>3, EmptyMap
     DEF Init, StoredInv, JobInv, MapInv, ChunkInv, HeadsUpTo, Finding, Working
<1>7. QED BY <1>5, <1>6 DEF Inv

\* With the memory cleared, only the tables matter.
LEMMA ClearInv ==
  ASSUME Inv, Clear, pc' \in {"idle", "crashed", "pick"},
         args' \in Arguments \cup {NoArgs}, chunks' \in Nat,
         UNCHANGED <<db, roomOf, lowest>>,
         saved' \in [Rooms -> Seq(Level)],
         progress' \in [Rooms -> OptGroup],
         \A r \in Rooms : HeadsUpTo(saved'[r], progress'[r])
  PROVE  Inv'
<1>1. ChunkTypes'
  BY EmptyMap DEF Clear, ChunkTypes, OptGroup, C!NoStats
<1>2. TypeOK'
  BY <1>1, SameTypes, RoomsAssumption, EmptyMap DEF Inv, TypeOK, Clear, NoJob, OptGroup
<1>3. StoredInv' /\ JobInv' /\ MapInv' /\ ChunkInv'
  BY EmptyMap DEF Inv, Clear, StoredInv, JobInv, MapInv, ChunkInv, Finding, Working
<1>4. QED BY <1>2, <1>3 DEF Inv

\* A process that ends before it writes its state.
LEMMA EndInv ==
  ASSUME Inv, End, pc' \in {"idle", "crashed"}, UNCHANGED tables
  PROVE  Inv'
<1>1. chunks' \in Nat /\ args' \in Arguments \cup {NoArgs}
  BY DEF End
<1>2. QED BY <1>1, ClearInv DEF End, tables, Inv, TypeOK, StoredInv

\* Starting the tool touches nothing yet.
LEMMA StartInv == Inv /\ Start => Inv'
<1> SUFFICES ASSUME Inv, Start PROVE Inv'
  OBVIOUS
<1>1. ChunkTypes'
  BY SameTypes DEF Inv, TypeOK, Start, compressor, ChunkTypes
<1>2. chunks' \in Nat /\ args' \in Arguments
  BY ArgumentsAssumption DEF Start
<1>3. TypeOK'
  BY <1>1, <1>2, SameTypes DEF Inv, TypeOK, Start, tables, compressor
<1>4. StoredInv' /\ JobInv' /\ ChunkInv'
  BY DEF Inv, Start, tables, compressor, StoredInv, JobInv, ChunkInv, Finding, Working
<1>5. MapInv'
  BY DEF Inv, Start, tables, compressor, MapInv, Finding, Working, AfterStart
<1>6. QED BY <1>3, <1>4, <1>5 DEF Inv

\* The room that is picked exists.
LEMMA PickRoomInv == Inv /\ PickRoom => Inv'
<1> SUFFICES ASSUME Inv, PickRoom PROVE Inv'
  OBVIOUS
<1>1. ChunkTypes'
  BY SameTypes DEF Inv, TypeOK, PickRoom, compressor, ChunkTypes
<1>2. Candidates \in SUBSET Nat /\ Candidates # {}
  BY MaxGroupAssumption DEF PickRoom, Candidates, Inv, TypeOK, Groups
<1>3. Min(Candidates) \in Candidates
  BY <1>2, MinLeast
<1>4. Min(Candidates) \in DOMAIN roomOf /\ Min(Candidates) \in Groups
  BY <1>3 DEF Candidates, Inv, TypeOK
<1>5. roomOf[Min(Candidates)] \in Rooms
  BY <1>4 DEF Inv, TypeOK
<1>6. job' = [room |-> roomOf[Min(Candidates)], start |-> NoGroup, max |-> Min(Candidates)]
  BY DEF PickRoom
<1> DEFINE g == Min(Candidates)
<1> HIDE DEF g
<1>7. TypeOK'
  BY <1>1, <1>4, <1>5, <1>6, SameTypes
     DEF Inv, TypeOK, PickRoom, tables, compressor, OptGroup
<1>8. StoredInv' /\ JobInv' /\ ChunkInv'
  BY <1>4, <1>6
     DEF Inv, PickRoom, tables, compressor, StoredInv, JobInv, ChunkInv, Finding, Working
<1>9. MapInv'
  BY EmptyMap DEF Inv, PickRoom, tables, compressor, MapInv, Working
<1>10. QED BY <1>7, <1>8, <1>9 DEF Inv

\* The group that was found is saved.
LEMMA SaveLowestInv == Inv /\ SaveLowest => Inv'
<1> SUFFICES ASSUME Inv, SaveLowest PROVE Inv'
  OBVIOUS
<1>1. ChunkTypes'
  BY SameTypes DEF Inv, TypeOK, SaveLowest, compressor, ChunkTypes
<1>2. lowest' \in Groups
  BY DEF Inv, JobInv, SaveLowest
<1>3. job' \in [room : Rooms, start : OptGroup, max : OptGroup] /\ job'.start = NoGroup
  BY DEF Inv, TypeOK, JobInv, SaveLowest, OptGroup
<1>4. TypeOK'
  BY <1>1, <1>2, <1>3, SameTypes DEF Inv, TypeOK, SaveLowest, compressor
<1>5. StoredInv' /\ JobInv' /\ ChunkInv'
  BY <1>3 DEF Inv, SaveLowest, compressor, StoredInv, JobInv, ChunkInv, Finding, Working
<1>6. MapInv'
  BY EmptyMap DEF Inv, SaveLowest, compressor, MapInv, Working
<1>7. QED BY <1>4, <1>5, <1>6 DEF Inv

\* The default levels hold nothing yet.
LEMMA DefaultLevels ==
  ASSUME Inv
  PROVE  args.default_levels \in Seq(Level) /\ Heads(args.default_levels) = {}
<1>1. CASE args \in Arguments
  BY <1>1, ArgumentsAssumption
<1>2. CASE args = NoArgs
  <2>1. args.default_levels = <<>>
    BY <1>2 DEF NoArgs
  <2>2. QED BY <2>1, EmptyMap
<1>3. QED BY <1>1, <1>2 DEF Inv, TypeOK

\* The levels of a room come with the progress their heads are covered by.
LEMMA ReadStateInv == Inv /\ ReadState => Inv'
<1> SUFFICES ASSUME Inv, ReadState PROVE Inv'
  OBVIOUS
<1>1. job.room \in Rooms /\ job.start = NoGroup /\ orig = <<>>
  BY DEF Inv, TypeOK, JobInv, MapInv, ReadState, Working
<1>2. job'.room = job.room
  BY DEF ReadState, Inv, TypeOK
<1>3. /\ levels' \in Seq(Level)
      /\ HeadsUpTo(levels', job'.start)
      /\ saved[job.room] = <<>> \/ job'.start = progress[job.room]
      /\ job' \in [room : Rooms, start : OptGroup, max : OptGroup]
  <2>1. CASE saved[job.room] = <<>>
    BY <2>1, DefaultLevels DEF ReadState, Inv, TypeOK, HeadsUpTo
  <2>2. CASE saved[job.room] # <<>>
    BY <2>2, <1>1 DEF ReadState, Inv, TypeOK, StoredInv
  <2>3. QED BY <2>1, <2>2
<1>4. ChunkTypes'
  BY <1>3, SameTypes DEF Inv, TypeOK, ReadState, ChunkTypes
<1>5. TypeOK'
  BY <1>3, <1>4, SameTypes DEF Inv, TypeOK, ReadState, tables
<1>6. StoredInv' /\ JobInv' /\ ChunkInv'
  BY <1>2, <1>3 DEF Inv, ReadState, tables, StoredInv, JobInv, ChunkInv, Finding, Working
<1>7. MapInv'
  BY <1>1, EmptyMap DEF Inv, ReadState, tables, MapInv, Working
<1>8. QED BY <1>5, <1>6, <1>7 DEF Inv

\* The chunk ends with a group after its start.
LEMMA FindMaxGroupInv == Inv /\ FindMaxGroup => Inv'
<1> SUFFICES ASSUME Inv, FindMaxGroup PROVE Inv'
  OBVIOUS
<1>1. Chunk \in SUBSET Groups /\ Chunk # {}
  BY DEF FindMaxGroup, Chunk, Listed, Inv, TypeOK
<1>2. Max(Chunk) \in Chunk
  BY <1>1, MaxGreatest
<1>3. Max(Chunk) \in Groups /\ AfterStart(Max(Chunk))
  BY <1>1, <1>2 DEF Chunk
<1> DEFINE g == Max(Chunk)
<1>4. /\ job' \in [room : Rooms, start : OptGroup, max : OptGroup]
      /\ job'.room = job.room
      /\ job'.start = job.start
      /\ job'.max = g
  BY <1>3 DEF FindMaxGroup, Inv, TypeOK, OptGroup
<1>5. g \in Groups /\ AfterStart(g)
  BY <1>3
<1> HIDE DEF g
<1>6. AfterStart(job.max)'
  BY <1>4, <1>5 DEF AfterStart
<1>7. ChunkTypes'
  BY SameTypes DEF Inv, TypeOK, FindMaxGroup, compressor, ChunkTypes
<1>8. TypeOK'
  BY <1>4, <1>7, SameTypes DEF Inv, TypeOK, FindMaxGroup, tables, compressor
<1>9. StoredInv' /\ JobInv' /\ ChunkInv'
  BY <1>4, <1>5, <1>6
     DEF Inv, FindMaxGroup, tables, compressor, StoredInv, JobInv, ChunkInv, Finding, Working
<1>10. MapInv'
  BY EmptyMap DEF Inv, FindMaxGroup, tables, compressor, MapInv, Working
<1>11. QED BY <1>8, <1>9, <1>10 DEF Inv

\* A row that is loaded is an entry.
LEMMA LoadType ==
  ASSUME Inv, NEW g \in DOMAIN db, NEW in_range \in BOOLEAN
  PROVE  /\ Load(g, in_range) \in Entries
         /\ Load(g, in_range).in_range = in_range
         /\ Load(g, in_range).prev = db[g].prev
         /\ Load(g, in_range).delta = db[g].delta
<1>1. db[g].prev \in OptGroup /\ db[g].delta \in StateMaps
  BY DEF Inv, StoredInv, HasRows
<1>2. QED BY <1>1 DEF Load, Entries

\* The map may grow by rows of the database.
LEMMA LoadInv ==
  ASSUME Inv, UNCHANGED <<tables, args, chunks, job, pending>>,
         UNCHANGED <<levels, newMap, base, stats, panicked>>,
         pc \in {"heads", "initial", "missing"}, pc' \in {"initial", "missing"},
         DOMAIN orig \subseteq DOMAIN orig', DOMAIN orig' \subseteq DOMAIN db,
         orig' = [g \in DOMAIN orig' |-> orig'[g]],
         \A g \in DOMAIN orig' :
           \/ g \in DOMAIN orig /\ orig'[g] = orig[g]
           \/ \E in_range \in BOOLEAN :
                /\ orig'[g] = Load(g, in_range)
                /\ in_range => AfterStart(g) /\ g =< job.max
  PROVE  Inv'
<1>1. \A g \in DOMAIN orig' :
        /\ orig'[g] \in Entries
        /\ orig'[g].in_range => AfterStart(g) /\ g =< job.max
        /\ orig'[g].prev = db[g].prev
        /\ orig'[g].delta = db[g].delta
  <2>1. SUFFICES ASSUME NEW g \in DOMAIN orig'
                 PROVE  /\ orig'[g] \in Entries
                        /\ orig'[g].in_range => AfterStart(g) /\ g =< job.max
                        /\ orig'[g].prev = db[g].prev
                        /\ orig'[g].delta = db[g].delta
    OBVIOUS
  <2>2. CASE g \in DOMAIN orig /\ orig'[g] = orig[g]
    BY <2>2, SameTypes DEF Inv, TypeOK, ChunkTypes, IsGroupMap, MapInv, Working
  <2>3. ASSUME NEW in_range \in BOOLEAN, orig'[g] = Load(g, in_range),
               in_range => AfterStart(g) /\ g =< job.max
        PROVE  /\ orig'[g] \in Entries
               /\ orig'[g].in_range => AfterStart(g) /\ g =< job.max
               /\ orig'[g].prev = db[g].prev
               /\ orig'[g].delta = db[g].delta
    BY <2>3, LoadType
  <2>4. QED BY <2>2, <2>3
<1>2. IsGroupMap(orig')
  BY <1>1 DEF IsGroupMap, Inv, TypeOK
<1>3. ChunkTypes'
  BY <1>2, SameTypes DEF Inv, TypeOK, ChunkTypes
<1>4. TypeOK'
  BY <1>3, SameTypes DEF Inv, TypeOK, tables
<1>5. StoredInv' /\ JobInv' /\ ChunkInv'
  BY DEF Inv, tables, StoredInv, JobInv, ChunkInv, Finding, Working, AfterStart
<1>6. MapInv'
  BY <1>1 DEF Inv, tables, MapInv, Working, AfterStart
<1>7. QED BY <1>4, <1>5, <1>6 DEF Inv

\* The heads are loaded as predecessors only.
LEMMA LoadLevelHeadsInv == Inv /\ LoadLevelHeads => Inv'
<1> SUFFICES ASSUME Inv, LoadLevelHeads PROVE Inv'
  OBVIOUS
<1>1. DOMAIN orig = {}
  BY EmptyMap DEF Inv, MapInv, LoadLevelHeads, Working
<1>2. /\ DOMAIN orig' \subseteq DOMAIN db
      /\ orig' = [g \in DOMAIN orig' |-> orig'[g]]
      /\ \A g \in DOMAIN orig' : orig'[g] = Load(g, FALSE)
  BY DEF LoadLevelHeads, Inv, TypeOK
<1>3. QED BY <1>1, <1>2, LoadInv DEF LoadLevelHeads

\* The groups of the chunk are loaded.
LEMMA GetInitialDataInv == Inv /\ GetInitialData => Inv'
<1> SUFFICES ASSUME Inv, GetInitialData PROVE Inv'
  OBVIOUS
<1> DEFINE initial == {g \in Listed(job.room) : AfterStart(g) /\ g =< job.max}
<1>1. initial \subseteq DOMAIN db /\ \A g \in initial : AfterStart(g) /\ g =< job.max
  BY DEF Listed, Inv, TypeOK
<1>2. orig' = [g \in DOMAIN orig \cup initial |->
                 IF g \in initial THEN Load(g, TRUE) ELSE orig[g]]
  BY DEF GetInitialData
<1> HIDE DEF initial
<1>3. /\ DOMAIN orig' = DOMAIN orig \cup initial
      /\ orig' = [g \in DOMAIN orig' |-> orig'[g]]
      /\ \A g \in DOMAIN orig' :
           orig'[g] = IF g \in initial THEN Load(g, TRUE) ELSE orig[g]
  BY <1>2
<1>4. DOMAIN orig' \subseteq DOMAIN db
  BY <1>1, <1>3 DEF Inv, MapInv
<1>5. QED BY <1>1, <1>3, <1>4, LoadInv DEF GetInitialData

\* Predecessors that are loaded are in the tables, and in range only if in the
\* range of the chunk.
LEMMA GetMissingInv == Inv /\ GetMissing => Inv'
<1> SUFFICES ASSUME Inv, GetMissing PROVE Inv'
  OBVIOUS
<1>1. \A g \in DOMAIN orig : g \in DOMAIN db /\ orig[g].prev = db[g].prev
  BY DEF Inv, MapInv, GetMissing, Working
<1>2. Missing \subseteq DOMAIN db
  BY <1>1 DEF Missing, Inv, StoredInv, WellFormed
<1> DEFINE found(g) == job.start # NoGroup /\ job.start < g /\ g =< job.max
<1>3. orig' = [g \in DOMAIN orig \cup Missing |->
                IF g \in Missing THEN Load(g, found(g)) ELSE orig[g]]
  BY DEF GetMissing
<1>4. /\ DOMAIN orig' = DOMAIN orig \cup Missing
      /\ orig' = [g \in DOMAIN orig' |-> orig'[g]]
      /\ \A g \in DOMAIN orig' :
           orig'[g] = IF g \in Missing THEN Load(g, found(g)) ELSE orig[g]
  BY <1>3
<1>5. \A g \in Missing :
        found(g) \in BOOLEAN /\ (found(g) => AfterStart(g) /\ g =< job.max)
  BY DEF AfterStart
<1> HIDE DEF found
<1>6. DOMAIN orig' \subseteq DOMAIN db
  BY <1>1, <1>2, <1>4
<1>7. QED
  BY <1>4, <1>5, <1>6, LoadInv DEF GetMissing, process

\* Heads are groups.
LEMMA HeadsAreGroups ==
  ASSUME NEW ls \in Seq(Level)
  PROVE  Heads(ls) \subseteq Groups
<1>1. SUFFICES ASSUME NEW i \in DOMAIN ls, ls[i].head # NoGroup
               PROVE  ls[i].head \in Groups
  BY DEF Heads
<1>2. ls[i] \in Level
  OBVIOUS
<1>3. QED BY <1>1, <1>2 DEF Level, OptGroup

\* What is loaded is closed under predecessors, and the levels are older than
\* what is in range: the compressor may be called.
LEMMA AllLoadedInv == Inv /\ AllLoaded => Inv'
<1> SUFFICES ASSUME Inv, AllLoaded PROVE Inv'
  OBVIOUS
<1> USE DEF Finding, Working
<1>1. ChunkTypes
  BY SameTypes DEF Inv, TypeOK
<1>2. \A g \in DOMAIN orig :
        g \in DOMAIN db /\ orig[g].prev = db[g].prev /\ orig[g].delta = db[g].delta
  BY DEF Inv, MapInv, AllLoaded
<1>3. WellFormed(orig)
  BY <1>2 DEF WellFormed, Inv, StoredInv, AllLoaded, Missing
<1>4. \A head \in Heads(levels), g \in DOMAIN orig : orig[g].in_range => head < g
  <2>1. SUFFICES ASSUME NEW head \in Heads(levels),
                        NEW g \in DOMAIN orig, orig[g].in_range
                 PROVE  head < g
    OBVIOUS
  <2>2. job.start # NoGroup /\ head =< job.start
    BY DEF Inv, JobInv, HeadsUpTo, AllLoaded
  <2>3. head \in Groups /\ job.start \in Groups /\ g \in Groups
    BY <1>1, <2>2, HeadsAreGroups DEF ChunkTypes, IsGroupMap, Inv, TypeOK, OptGroup
  <2>4. g > job.start
    BY <2>1, <2>2 DEF Inv, MapInv, AfterStart
  <2>5. QED BY <2>2, <2>3, <2>4 DEF Groups
<1>5. newMap = <<>> /\ base = NoGroup /\ stats = C!NoStats /\ panicked = FALSE
  BY DEF Inv, MapInv, AllLoaded
<1>6. CP!Inv
  BY <1>1, <1>3, <1>4, <1>5, ChunkStarts DEF ChunkTypes
<1>7. CP!Inv'
  BY <1>6, ChunkRests DEF AllLoaded
<1>8. \A g \in DOMAIN orig : Collapse(orig)[g] = Collapse(db)[g]
  BY <1>1, <1>2, <1>3, EntriesAreRows, PartCollapse DEF ChunkTypes, Inv, StoredInv
<1>9. HeadsUpTo(levels, job.max)
  <2>1. SUFFICES ASSUME NEW head \in Heads(levels)
                 PROVE  job.max # NoGroup /\ head =< job.max
    BY DEF HeadsUpTo
  <2>2. job.start # NoGroup /\ head =< job.start
    BY DEF Inv, JobInv, HeadsUpTo, AllLoaded
  <2>3. job.max \in Groups /\ job.max > job.start
    BY <2>2 DEF Inv, JobInv, AllLoaded, AfterStart
  <2>4. head \in Groups /\ job.start \in Groups
    BY <1>1, <2>2, HeadsAreGroups DEF ChunkTypes, Inv, TypeOK, OptGroup
  <2>5. QED BY <2>2, <2>3, <2>4, NoGroupAssumption DEF Groups
<1>10. TypeOK'
  <2>1. ChunkTypes'
    BY <1>1 DEF ChunkTypes, AllLoaded, compressor
  <2>2. QED BY <2>1, SameTypes DEF Inv, TypeOK, AllLoaded, tables, compressor
<1>11. StoredInv' /\ JobInv'
  BY DEF Inv, AllLoaded, tables, compressor, StoredInv, JobInv, AfterStart
<1>12. MapInv'
  BY DEF Inv, AllLoaded, tables, compressor, MapInv, AfterStart
<1>13. ChunkInv'
  BY <1>7, <1>8, <1>9 DEF AllLoaded, tables, compressor, ChunkInv
<1>14. QED BY <1>10, <1>11, <1>12, <1>13 DEF Inv

\* The compressor of the chunk works on its map only.
LEMMA CompressInv == Inv /\ Compress => Inv'
<1> SUFFICES ASSUME Inv, Compress PROVE Inv'
  OBVIOUS
<1> USE DEF Finding, Working
<1>1. /\ CP!Inv
      /\ HeadsUpTo(levels, job.max)
      /\ \A g \in DOMAIN orig : Collapse(orig)[g] = Collapse(db)[g]
  BY DEF Inv, ChunkInv, Compress
<1>2. /\ CP!Inv'
      /\ orig' = orig
      /\ \A head \in Heads(levels') :
           head \in Heads(levels) \/ (head \in DOMAIN orig /\ orig[head].in_range)
  BY <1>1, ChunkSteps DEF Compress
<1>3. HeadsUpTo(levels', job.max)
  <2>1. \A head \in DOMAIN orig : orig[head].in_range => head =< job.max
    BY DEF Inv, MapInv
  <2>2. job.max # NoGroup
    BY NoGroupAssumption DEF Inv, JobInv, Compress, Groups
  <2>3. QED BY <1>1, <1>2, <2>1, <2>2 DEF HeadsUpTo
<1>4. C!TypeOK'
  <2>1. CP!TypeOK'
    BY <1>2 DEF CP!Inv
  <2>2. QED
    BY <2>1 DEF CP!TypeOK, C!TypeOK, C!IsGroupMap, CP!IsGroupMap, C!Entries, CP!Entries,
                C!OptGroup, CP!OptGroup, C!Groups, CP!Groups, C!StateMaps, CP!StateMaps,
                C!Level, CP!Level
<1>5. TypeOK'
  BY <1>2, <1>4 DEF Inv, TypeOK, Compress, tables, process
<1>6. StoredInv' /\ JobInv'
  BY DEF Inv, Compress, tables, process, StoredInv, JobInv, AfterStart
<1>7. MapInv'
  BY <1>2 DEF Inv, Compress, tables, process, MapInv, AfterStart
<1>8. ChunkInv'
  BY <1>1, <1>2, <1>3 DEF Compress, tables, process, ChunkInv
<1>9. QED BY <1>5, <1>6, <1>7, <1>8 DEF Inv

\* Steps that only move on with the chunk.
LEMMA MoveOnInv ==
  ASSUME Inv, UNCHANGED <<tables, args, chunks, job, compressor>>,
         pc \in Working, pc' \in Working,
         pending' \subseteq DOMAIN orig,
         pc' = "send" => DOMAIN newMap = DOMAIN orig
  PROVE  Inv'
<1> USE DEF Finding, Working
<1>1. CP!Inv'
  BY ChunkRests DEF Inv, ChunkInv
<1>2. ChunkTypes'
  BY SameTypes DEF Inv, TypeOK, ChunkTypes, compressor
<1>3. TypeOK'
  BY <1>2, SameTypes DEF Inv, TypeOK, tables, compressor
<1>4. StoredInv' /\ JobInv'
  BY DEF Inv, tables, compressor, StoredInv, JobInv, AfterStart
<1>5. MapInv'
  BY DEF Inv, tables, compressor, MapInv, AfterStart
<1>6. ChunkInv'
  BY <1>1 DEF Inv, tables, compressor, ChunkInv
<1>7. QED BY <1>3, <1>4, <1>5, <1>6 DEF Inv

\* A chunk that would grow is given up.
LEMMA AbortInv == Inv /\ Abort => Inv'
BY MoveOnInv DEF Abort, Working, Inv, TypeOK

\* A chunk that is done has a new row for every group.
LEMMA AcceptInv == Inv /\ Accept => Inv'
<1> SUFFICES ASSUME Inv, Accept PROVE Inv'
  OBVIOUS
<1>1. DOMAIN newMap = DOMAIN orig
  <2>1. DOMAIN newMap \subseteq DOMAIN orig
    BY ChunkFacts DEF Inv, ChunkInv, Accept, Working
  <2>2. QED BY <2>1 DEF Accept, C!Done, C!Todo
<1>2. QED BY <1>1, MoveOnInv DEF Accept, ChangedGroups, Working

\* A chunk that has been sent is still what it was.
LEMMA AllSentInv == Inv /\ AllSent => Inv'
BY MoveOnInv DEF AllSent, Working, Inv, TypeOK

\* The new row of a group gives it the state it has.
LEMMA SendStates ==
  ASSUME Inv, SendGroup
  PROVE  HasRows(db') /\ WellFormed(db') /\ Collapse(db') = Collapse(db)
<1>1. PICK g \in pending :
        db' = [db EXCEPT ![g] = [prev |-> newMap[g].prev, delta |-> newMap[g].delta]]
  <2>1. pending \in SUBSET Nat /\ pending # {}
    BY MaxGroupAssumption DEF SendGroup, Inv, TypeOK, MapInv, Groups
  <2>2. Min(pending) \in pending
    BY <2>1, MinLeast
  <2>3. QED BY <2>2 DEF SendGroup
<1> DEFINE row == [prev |-> newMap[g].prev, delta |-> newMap[g].delta]
<1>2. /\ DOMAIN newMap = DOMAIN orig
      /\ CP!Inv
      /\ \A h \in DOMAIN orig : Collapse(orig)[h] = Collapse(db)[h]
  BY DEF Inv, ChunkInv, SendGroup, Working
<1>3. g \in DOMAIN newMap /\ DOMAIN newMap \subseteq DOMAIN db
  BY <1>2 DEF Inv, TypeOK, MapInv
<1>4. /\ IsGroupMap(newMap)
      /\ WellFormed(newMap)
      /\ Solves(Collapse(orig), newMap)
  BY <1>2, ChunkFacts
<1>5. row \in Row
  BY <1>3, <1>4 DEF IsGroupMap, Entries, Row
<1>6. row.prev # NoGroup => row.prev \in DOMAIN newMap /\ row.prev < g
  BY <1>3, <1>4 DEF WellFormed
<1>7. Collapse(db)[g] = IF row.prev = NoGroup
                        THEN row.delta
                        ELSE Extend(Collapse(db)[row.prev], row.delta)
  <2>1. Collapse(orig)[g] = IF row.prev = NoGroup
                            THEN row.delta
                            ELSE Extend(Collapse(orig)[row.prev], row.delta)
    BY <1>3, <1>4 DEF Solves
  <2>2. QED BY <1>2, <1>3, <1>6, <2>1
<1>8. db' = [db EXCEPT ![g] = row]
  BY <1>1
<1> HIDE DEF row
<1>9. QED BY <1>3, <1>5, <1>6, <1>7, <1>8, ReplaceCollapse DEF Inv, StoredInv

\* Sending a group changes its row and nobody's state.
LEMMA SendGroupInv == Inv /\ SendGroup => Inv'
<1> SUFFICES ASSUME Inv, SendGroup PROVE Inv'
  OBVIOUS
<1> USE DEF Finding, Working
<1>1. HasRows(db') /\ WellFormed(db') /\ Collapse(db') = Collapse(db)
  BY SendStates
<1>2. /\ DOMAIN db' = DOMAIN db
      /\ db' = [g \in DOMAIN db' |-> db'[g]]
      /\ pending' \subseteq pending
  BY DEF SendGroup
<1>3. UNCHANGED compressor
  BY DEF SendGroup, compressor
<1>4. ChunkTypes'
  BY <1>3, SameTypes DEF Inv, TypeOK, ChunkTypes, compressor
<1>5. db' \in [DOMAIN db' -> Row]
  <2>1. pending \in SUBSET Nat /\ pending # {}
    BY MaxGroupAssumption DEF SendGroup, Inv, TypeOK, MapInv, Groups
  <2>2. Min(pending) \in pending
    BY <2>1, MinLeast
  <2> DEFINE h == Min(pending)
  <2>3. db' = [db EXCEPT ![h] = [prev |-> newMap[h].prev, delta |-> newMap[h].delta]]
    BY DEF SendGroup
  <2>4. db'[h].prev \in OptGroup /\ db'[h].delta \in StateMaps /\ h \in DOMAIN db
    BY <1>1, <1>2, <2>2 DEF HasRows, Inv, TypeOK, MapInv
  <2>5. h \in DOMAIN db
    BY <2>4
  <2> HIDE DEF h
  <2>6. QED BY <2>3, <2>4 DEF Inv, TypeOK, Row
<1>6. TypeOK'
  BY <1>2, <1>4, <1>5, SameTypes DEF Inv, TypeOK, SendGroup, compressor
<1>7. StoredInv' /\ JobInv'
  BY <1>1 DEF Inv, SendGroup, compressor, StoredInv, JobInv, AfterStart
<1>8. MapInv'
  BY <1>2 DEF Inv, SendGroup, compressor, MapInv, AfterStart
<1>9. ChunkInv'
  BY <1>1, <1>3, ChunkRests DEF Inv, SendGroup, compressor, ChunkInv
<1>10. QED BY <1>6, <1>7, <1>8, <1>9 DEF Inv

\* A state that is written has the levels that are given and old ones.
LEMMA WrittenLevels ==
  ASSUME NEW info \in Seq(Level), NEW old \in Seq(Level)
  PROVE  LET new == info \o SubSeq(old, Len(info) + 1, Len(old))
         IN  /\ new \in Seq(Level)
             /\ \A i \in DOMAIN new :
                  \/ \E j \in DOMAIN info : new[i] = info[j]
                  \/ \E j \in DOMAIN old : new[i] = old[j]
<1> DEFINE tail == SubSeq(old, Len(info) + 1, Len(old))
           new  == info \o tail
<1>1. tail \in Seq(Level)
  OBVIOUS
<1>2. \A i \in DOMAIN tail : \E j \in DOMAIN old : tail[i] = old[j]
  OBVIOUS
<1> HIDE DEF tail
<1>3. new \in Seq(Level)
  BY <1>1
<1>4. \A i \in DOMAIN new :
        \/ \E j \in DOMAIN info : new[i] = info[j]
        \/ \E j \in DOMAIN tail : new[i] = tail[j]
  BY <1>1
<1> HIDE DEF new
<1>5. \A i \in DOMAIN new :
        \/ \E j \in DOMAIN info : new[i] = info[j]
        \/ \E j \in DOMAIN old : new[i] = old[j]
  BY <1>2, <1>4
<1>6. QED BY <1>3, <1>5 DEF new, tail

\* A chunk that is done with leaves levels up to its last group.
LEMMA WriteInv ==
  ASSUME Inv, pc \in Working, NEW info \in Seq(Level), HeadsUpTo(info, job.max),
         WriteState(info), ChunkDone
  PROVE  Inv'
<1> USE DEF Finding, Working
<1> DEFINE room == job.room
           new  == info \o SubSeq(saved[room], Len(info) + 1, Len(saved[room]))
<1>1. room \in Rooms /\ saved[room] \in Seq(Level)
  BY DEF Inv, TypeOK
<1>2. new \in Seq(Level) /\ Heads(new) \subseteq Heads(info) \cup Heads(saved[room])
  <2>1. /\ new \in Seq(Level)
        /\ \A i \in DOMAIN new :
             \/ \E j \in DOMAIN info : new[i] = info[j]
             \/ \E j \in DOMAIN saved[room] : new[i] = saved[room][j]
    BY <1>1, WrittenLevels
  <2> HIDE DEF new
  <2>2. QED BY <2>1 DEF Heads
<1>3. /\ saved' = [saved EXCEPT ![room] = new]
      /\ progress' = [progress EXCEPT ![room] = job.max]
  BY DEF WriteState
<1>4. job.max \in Groups /\ job.max \in OptGroup
  BY DEF Inv, JobInv, OptGroup
<1>5. HeadsUpTo(saved[room], job.max)
  <2>1. CASE saved[room] = <<>>
    BY <2>1, EmptyMap DEF HeadsUpTo
  <2>2. CASE saved[room] # <<>>
    <3>1. SUFFICES ASSUME NEW head \in Heads(saved[room])
                   PROVE  job.max # NoGroup /\ head =< job.max
      BY DEF HeadsUpTo
    <3>2. job.start # NoGroup /\ head =< job.start
      BY <1>1, <2>2 DEF Inv, StoredInv, JobInv, HeadsUpTo
    <3>3. job.max > job.start
      BY <3>2 DEF Inv, JobInv, AfterStart
    <3>4. head \in Groups /\ job.start \in Groups
      BY <1>1, <3>2, HeadsAreGroups DEF Inv, TypeOK, OptGroup
    <3>5. QED BY <1>4, <3>2, <3>3, <3>4, NoGroupAssumption DEF Groups
  <2>3. QED BY <2>1, <2>2
<1>6. HeadsUpTo(new, job.max)
  BY <1>2, <1>5 DEF HeadsUpTo
<1> HIDE DEF new, room
<1>7. saved' \in [Rooms -> Seq(Level)] /\ progress' \in [Rooms -> OptGroup]
  BY <1>2, <1>3, <1>4 DEF Inv, TypeOK
<1>8. \A r \in Rooms : HeadsUpTo(saved'[r], progress'[r])
  <2>1. SUFFICES ASSUME NEW r \in Rooms PROVE HeadsUpTo(saved'[r], progress'[r])
    OBVIOUS
  <2>2. CASE r = room
    BY <1>3, <1>6, <2>2 DEF Inv, TypeOK
  <2>3. CASE r # room
    BY <1>3, <2>3 DEF Inv, TypeOK, StoredInv
  <2>4. QED BY <2>2, <2>3
<1>9. /\ Clear
      /\ pc' \in {"idle", "pick"}
      /\ chunks' \in Nat
      /\ args' \in Arguments \cup {NoArgs}
  BY DEF ChunkDone, Stop, End, Inv, TypeOK
<1>10. QED BY <1>7, <1>8, <1>9, ClearInv DEF WriteState

\* The levels of a chunk that was sent may be saved.
LEMMA SaveStateInv == Inv /\ SaveState => Inv'
<1> SUFFICES ASSUME Inv, SaveState PROVE Inv'
  OBVIOUS
<1>1. levels \in Seq(Level)
  BY SameTypes DEF Inv, TypeOK, ChunkTypes
<1>2. QED BY <1>1, WriteInv DEF SaveState, Inv, ChunkInv, Working

\* The default levels may be saved for a chunk that was not.
LEMMA SkipChunkInv == Inv /\ SkipChunk => Inv'
<1> SUFFICES ASSUME Inv, SkipChunk PROVE Inv'
  OBVIOUS
<1>1. args.default_levels \in Seq(Level) /\ HeadsUpTo(args.default_levels, job.max)
  BY DefaultLevels DEF HeadsUpTo
<1>2. QED BY <1>1, WriteInv DEF SkipChunk, Working

\* A new group adds its state and changes no other.
LEMMA StoreGroupStates ==
  ASSUME Inv, StoreGroup
  PROVE  \E g \in Groups \ DOMAIN db, room \in Rooms, row \in Row, m \in StateMaps :
           /\ db' = Insert(db, g, row)
           /\ roomOf' = Insert(roomOf, g, room)
           /\ HasRows(db') /\ WellFormed(db')
           /\ Collapse(db') = Insert(Collapse(db), g, m)
<1>1. PICK g \in NewGroups \ DOMAIN db, room \in Rooms, delta \in NewDeltas :
        \E prev \in {h \in Listed(room) : h < g} \cup {NoGroup} :
          /\ db' = Insert(db, g, [prev |-> prev, delta |-> delta])
          /\ roomOf' = Insert(roomOf, g, room)
  BY DEF StoreGroup
<1>2. PICK prev \in {h \in Listed(room) : h < g} \cup {NoGroup} :
        /\ db' = Insert(db, g, [prev |-> prev, delta |-> delta])
        /\ roomOf' = Insert(roomOf, g, room)
  BY <1>1
<1> DEFINE row == [prev |-> prev, delta |-> delta]
<1>3. g \in Groups \ DOMAIN db /\ delta \in StateMaps
  BY NewGroupsAssumption
<1>4. prev # NoGroup => prev \in DOMAIN db /\ prev < g /\ prev \in Groups
  BY DEF Listed, Inv, TypeOK
<1>5. row \in Row
  BY <1>3, <1>4 DEF Row, OptGroup
<1>6. row.prev # NoGroup => row.prev \in DOMAIN db /\ row.prev < g
  BY <1>4
<1>7. db' = Insert(db, g, row)
  BY <1>2
<1> HIDE DEF row
<1>8. /\ HasRows(db')
      /\ WellFormed(db')
      /\ \E m \in StateMaps : Collapse(db') = Insert(Collapse(db), g, m)
  BY <1>3, <1>5, <1>6, <1>7, InsertCollapse DEF Inv, StoredInv, Row
<1>9. QED BY <1>2, <1>3, <1>5, <1>7, <1>8

\* Synapse stores groups that a chunk under way need not know of.
LEMMA StoreGroupInv == Inv /\ StoreGroup => Inv'
<1> SUFFICES ASSUME Inv, StoreGroup PROVE Inv'
  OBVIOUS
<1>1. PICK g \in Groups \ DOMAIN db, room \in Rooms, row \in Row, m \in StateMaps :
        /\ db' = Insert(db, g, row)
        /\ roomOf' = Insert(roomOf, g, room)
        /\ HasRows(db') /\ WellFormed(db')
        /\ Collapse(db') = Insert(Collapse(db), g, m)
  BY StoreGroupStates
<1>2. UNCHANGED <<saved, progress, lowest, process, compressor>>
  BY DEF StoreGroup
<1>3. /\ DOMAIN db' = DOMAIN db \cup {g}
      /\ db' \in [DOMAIN db' -> Row]
      /\ \A h \in DOMAIN db : db'[h] = db[h]
  BY <1>1 DEF Insert, Inv, TypeOK
<1>4. DOMAIN roomOf' = DOMAIN roomOf \cup {g} /\ roomOf' \in [DOMAIN roomOf' -> Rooms]
  BY <1>1 DEF Insert, Inv, TypeOK
<1>5. \A h \in DOMAIN db : Collapse(db')[h] = Collapse(db)[h]
  <2>1. DOMAIN Collapse(db) = DOMAIN db
    BY CollapseSolves DEF Inv, StoredInv
  <2>2. QED BY <1>1, <2>1 DEF Insert
<1>6. ChunkTypes'
  BY <1>2, SameTypes DEF Inv, TypeOK, compressor, ChunkTypes
<1>7. TypeOK'
  BY <1>2, <1>3, <1>4, <1>6, SameTypes DEF Inv, TypeOK, process, compressor
<1>8. StoredInv' /\ JobInv'
  BY <1>1, <1>2 DEF Inv, StoredInv, JobInv, process, compressor, AfterStart, Finding, Working
<1>9. MapInv'
  BY <1>2, <1>3 DEF Inv, MapInv, process, compressor, AfterStart, Working
<1>10. ChunkInv'
  <2>1. UNCHANGED compressor
    BY <1>2
  <2>2. CP!Inv => CP!Inv'
    BY <2>1, ChunkRests
  <2>3. QED BY <1>2, <1>5, <2>2 DEF Inv, MapInv, ChunkInv, process, compressor, Working
<1>11. QED BY <1>7, <1>8, <1>9, <1>10 DEF Inv

\* Every step keeps the invariant.
LEMMA NextInv == Inv /\ [Next]_vars => Inv'
<1> SUFFICES ASSUME Inv, [Next]_vars PROVE Inv'
  OBVIOUS
<1>1. CASE Start
  BY <1>1, StartInv
<1>2. CASE Step
  <2>1. ASSUME NoRoomLeft \/ CannotReadState \/ NothingFound \/ Panic PROVE Inv'
    BY <2>1, EndInv DEF NoRoomLeft, CannotReadState, NothingFound, Panic, Stop
  <2>2. QED
    BY <1>2, <2>1, PickRoomInv, SaveLowestInv, ReadStateInv, FindMaxGroupInv,
       LoadLevelHeadsInv, GetInitialDataInv, GetMissingInv, AllLoadedInv, CompressInv,
       AbortInv, AcceptInv, SendGroupInv, AllSentInv, SaveStateInv, SkipChunkInv
       DEF Step
<1>3. CASE Crash
  BY <1>3, EndInv DEF Crash
<1>4. CASE StoreGroup
  BY <1>4, StoreGroupInv
<1>5. CASE UNCHANGED vars
  <2>1. CP!Inv => CP!Inv'
    BY <1>5, ChunkRests DEF vars
  <2>2. C!TypeOK => C!TypeOK'
    BY <1>5, SameTypes DEF vars, compressor, ChunkTypes
  <2>3. TypeOK' /\ StoredInv' /\ JobInv' /\ MapInv' /\ ChunkInv'
    BY <1>5, <2>1, <2>2
       DEF vars, tables, process, compressor, Inv, TypeOK, StoredInv, JobInv, MapInv,
           ChunkInv, AfterStart
  <2>4. QED BY <2>3 DEF Inv
<1>6. QED BY <1>1, <1>2, <1>3, <1>4, <1>5 DEF Next

\* The inductive invariant holds in all states of the tool (manager.rs,
\* state_saving.rs, continue_run, database.rs).
THEOREM InvIsInvariant == Spec => []Inv
BY InitInv, NextInv, PTL DEF Spec

\* The tables and the variables of the tool keep their types, whatever it is
\* run on.
THEOREM TypeCorrect == Spec => []TypeOK
<1>1. Inv => TypeOK
  BY DEF Inv
<1>2. QED BY <1>1, InvIsInvariant, PTL

\* load_map_from_db and read_room_compressor_state only ever give
\* compress_from_save a map and levels that it is made for.
THEOREM CallsAreLegal == Spec => []CallIsLegal
<1>1. Inv => CallIsLegal
  <2>1. SUFFICES ASSUME Inv, pc = "compress"
                 PROVE  /\ IsGroupMap(orig)
                        /\ WellFormed(orig)
                        /\ newMap = <<>> /\ base = NoGroup =>
                             \A head \in Heads(levels), g \in DOMAIN orig :
                               orig[g].in_range => head < g
    BY DEF CallIsLegal
  <2>2. CP!Inv
    BY <2>1 DEF Inv, ChunkInv, Working
  <2>3. IsGroupMap(orig) /\ WellFormed(orig)
    BY <2>2, ChunkFacts
  <2>4. ASSUME newMap = <<>>, base = NoGroup,
               NEW head \in Heads(levels), NEW g \in DOMAIN orig, orig[g].in_range
        PROVE  head < g
    <3>1. g \in CP!Todo /\ head \in CP!Heads(levels)
      BY <2>4, SameWords, EmptyMap DEF CP!Todo
    <3>2. QED BY <2>2, <2>4, <3>1 DEF CP!Inv, CP!HeadsBelow
  <2>5. QED BY <2>3, <2>4
<1>2. QED BY <1>1, InvIsInvariant, PTL

-----------------------------------------------------------------------------
\* With positive level sizes, everything that is saved or about to be can be
\* read back.
SoundInv ==
  /\ \A r \in Rooms : CP!SoundLevels(saved[r])
  /\ pc \in Finding \cup Working => CP!SoundLevels(levels)

PositiveSizes ==
  \A a \in Arguments : \A i \in DOMAIN a.default_levels : a.default_levels[i].max >= 1

\* The default levels are sound.
LEMMA DefaultSound ==
  ASSUME Inv, PositiveSizes
  PROVE  CP!SoundLevels(args.default_levels)
<1>1. CASE args \in Arguments
  <2>1. SUFFICES ASSUME NEW i \in DOMAIN args.default_levels
                 PROVE  CP!SoundLevel(args.default_levels[i])
    BY DEF CP!SoundLevels
  <2>2. args.default_levels[i].max >= 1 /\ args.default_levels[i].len = 0
    BY <1>1, ArgumentsAssumption DEF PositiveSizes
  <2>3. args.default_levels[i].head = NoGroup
    BY DefaultLevels DEF Heads
  <2>4. args.default_levels[i] \in Level
    BY DefaultLevels
  <2>5. QED BY <2>2, <2>3, <2>4 DEF CP!SoundLevel, Level
<1>2. CASE args = NoArgs
  <2>1. DOMAIN args.default_levels = {}
    BY <1>2, EmptyMap DEF NoArgs
  <2>2. QED BY <2>1 DEF CP!SoundLevels
<1>3. QED BY <1>1, <1>2 DEF Inv, TypeOK

\* Sound levels are written as such.
LEMMA WriteSound ==
  ASSUME Inv, SoundInv, NEW info \in Seq(Level), CP!SoundLevels(info),
         WriteState(info), pc' \notin Finding \cup Working
  PROVE  SoundInv'
<1> DEFINE room == job.room
           new  == info \o SubSeq(saved[room], Len(info) + 1, Len(saved[room]))
<1>1. room \in Rooms /\ saved[room] \in Seq(Level) /\ CP!SoundLevels(saved[room])
  BY DEF Inv, TypeOK, SoundInv
<1>2. \A i \in DOMAIN new :
        \/ \E j \in DOMAIN info : new[i] = info[j]
        \/ \E j \in DOMAIN saved[room] : new[i] = saved[room][j]
  BY <1>1, WrittenLevels
<1>3. saved' = [saved EXCEPT ![room] = new]
  BY DEF WriteState
<1> HIDE DEF new, room
<1>4. CP!SoundLevels(new)
  BY <1>1, <1>2 DEF CP!SoundLevels
<1>5. QED BY <1>1, <1>3, <1>4 DEF SoundInv, Inv, TypeOK

\* Every step keeps the levels sound.
LEMMA NextSound ==
  ASSUME PositiveSizes
  PROVE  Inv /\ SoundInv /\ [Next]_vars => SoundInv'
<1> SUFFICES ASSUME Inv, SoundInv, [Next]_vars PROVE SoundInv'
  OBVIOUS
<1> USE DEF Finding, Working
<1>1. CASE ReadState
  <2>1. CP!SoundLevels(levels')
    BY <1>1, DefaultSound DEF ReadState, SoundInv, Inv, TypeOK
  <2>2. QED BY <1>1, <2>1 DEF ReadState, tables, SoundInv
<1>2. CASE Compress
  <2>1. CP!Next /\ CP!Inv
    BY <1>2, SameActions DEF Compress, Inv, ChunkInv
  <2>2. CP!SoundLevels(levels')
    BY <1>2, <2>1, CP!NextSound, KeysFinite, KeysAssumption, NoEventAssumption,
       MaxGroupAssumption, NoGroupAssumption DEF Compress, SoundInv
  <2>3. QED BY <1>2, <2>2 DEF Compress, tables, process, SoundInv
<1>3. CASE SaveState
  <2>1. levels \in Seq(Level)
    BY SameTypes DEF Inv, TypeOK, ChunkTypes
  <2>2. QED BY <1>3, <2>1, WriteSound DEF SaveState, ChunkDone, Stop, SoundInv
<1>4. CASE SkipChunk
  BY <1>4, DefaultLevels, DefaultSound, WriteSound DEF SkipChunk, ChunkDone, Stop
<1>5. CASE /\ saved' = saved
           /\ \/ pc' \notin Finding \cup Working
              \/ levels' = levels /\ pc \in Finding \cup Working
  BY <1>5 DEF SoundInv
<1>6. CASE saved' = saved /\ levels' = levels /\ pc' = pc
  BY <1>6 DEF SoundInv
<1>7. QED
  BY <1>1, <1>2, <1>3, <1>4, <1>5, <1>6
     DEF Next, Start, Step, Crash, StoreGroup, vars, tables, process, compressor, End, Stop,
         PickRoom, NoRoomLeft, SaveLowest, CannotReadState, FindMaxGroup, NothingFound,
         LoadLevelHeads, GetInitialData, GetMissing, AllLoaded, Panic, Abort, Accept,
         SendGroup, AllSent

\* With positive level sizes read_room_compressor_state never refuses what
\* write_room_compressor_state has written: only a size of 0 gets a room stuck.
THEOREM SavedStaysReadable ==
  ASSUME PositiveSizes
  PROVE  Spec => []SavedIsReadable
<1>1. Init => SoundInv
  BY EmptyMap DEF Init, SoundInv, CP!SoundLevels, Finding, Working
<1>2. Inv /\ SoundInv => SavedIsReadable
  <2>1. SUFFICES ASSUME Inv, SoundInv, NEW r \in Rooms, NEW i \in DOMAIN saved[r]
                 PROVE  Readable(saved[r][i])
    BY DEF SavedIsReadable
  <2>2. CP!SoundLevel(saved[r][i])
    BY <2>1 DEF SoundInv, CP!SoundLevels
  <2>3. QED BY <2>2 DEF CP!SoundLevel, Readable
<1>3. QED BY <1>1, <1>2, NextSound, InvIsInvariant, PTL DEF Spec

-----------------------------------------------------------------------------
\* The groups Synapse has stored are in its state_groups table, too.
EverythingListed ==
  \A d \in Databases : DOMAIN d.roomOf = DOMAIN d.db

\* Then the heads of the levels are in the database, and in the map once they
\* have been loaded.
LoadedInv ==
  /\ DOMAIN roomOf = DOMAIN db
  /\ \A r \in Rooms : Heads(saved[r]) \subseteq DOMAIN db
  /\ pc \in Finding => Heads(levels) \subseteq DOMAIN db
  /\ pc \in {"initial", "missing"} => Heads(levels) \subseteq DOMAIN orig
  /\ pc \in Working => CP!BasesLoaded

\* While the compressor rests, its map stays loaded.
LEMMA LoadedRests ==
  ASSUME UNCHANGED compressor, CP!BasesLoaded
  PROVE  CP!BasesLoaded'
BY DEF compressor, CP!BasesLoaded, CP!NoPanic

\* The heads of a chunk at work are in the database.
LEMMA WorkingHeads ==
  ASSUME Inv, LoadedInv, pc \in Working
  PROVE  Heads(levels) \subseteq DOMAIN orig /\ Heads(levels) \subseteq DOMAIN db
<1>1. CP!Heads(levels) \subseteq DOMAIN orig
  BY DEF LoadedInv, CP!BasesLoaded
<1>2. QED BY <1>1, SameWords DEF Inv, MapInv

\* The heads that are written are in the database.
LEMMA WriteLoaded ==
  ASSUME Inv, LoadedInv, NEW info \in Seq(Level), Heads(info) \subseteq DOMAIN db,
         WriteState(info), pc' \notin Finding \cup Working
  PROVE  LoadedInv'
<1> DEFINE room == job.room
           new  == info \o SubSeq(saved[room], Len(info) + 1, Len(saved[room]))
<1>1. room \in Rooms /\ saved[room] \in Seq(Level) /\ Heads(saved[room]) \subseteq DOMAIN db
  BY DEF Inv, TypeOK, LoadedInv
<1>2. \A i \in DOMAIN new :
        \/ \E j \in DOMAIN info : new[i] = info[j]
        \/ \E j \in DOMAIN saved[room] : new[i] = saved[room][j]
  BY <1>1, WrittenLevels
<1>3. saved' = [saved EXCEPT ![room] = new] /\ db' = db /\ roomOf' = roomOf
  BY DEF WriteState
<1> HIDE DEF new, room
<1>4. Heads(new) \subseteq DOMAIN db
  BY <1>1, <1>2 DEF Heads
<1>5. \A r \in Rooms : Heads(saved'[r]) \subseteq DOMAIN db
  BY <1>1, <1>3, <1>4 DEF LoadedInv, Inv, TypeOK
<1>6. QED BY <1>3, <1>5 DEF LoadedInv, Finding, Working

\* Every step keeps the heads where they can be loaded.
LEMMA NextLoaded == Inv /\ LoadedInv /\ [Next]_vars => LoadedInv'
<1> SUFFICES ASSUME Inv, LoadedInv, [Next]_vars PROVE LoadedInv'
  OBVIOUS
<1> USE DEF Finding, Working
<1>1. CASE ReadState
  <2>1. Heads(levels') \subseteq DOMAIN db
    BY <1>1, DefaultLevels DEF ReadState, LoadedInv, Inv, TypeOK
  <2>2. QED BY <1>1, <2>1 DEF ReadState, tables, LoadedInv
<1>2. CASE LoadLevelHeads
  <2>1. DOMAIN orig' = Heads(levels)
    BY <1>2 DEF LoadLevelHeads, LoadedInv
  <2>2. QED BY <1>2, <2>1 DEF LoadLevelHeads, tables, LoadedInv
<1>3. CASE GetInitialData \/ GetMissing
  <2>1. DOMAIN orig \subseteq DOMAIN orig'
    BY <1>3 DEF GetInitialData, GetMissing
  <2>2. QED BY <1>3, <2>1 DEF GetInitialData, GetMissing, tables, process, LoadedInv
<1>4. CASE AllLoaded
  <2>1. base = NoGroup /\ panicked = FALSE /\ Heads(levels) \subseteq DOMAIN orig
    BY <1>4 DEF AllLoaded, Inv, MapInv, LoadedInv
  <2>2. CP!BasesLoaded
    BY <2>1, SameWords DEF CP!BasesLoaded, CP!NoPanic
  <2>3. QED BY <1>4, <2>2, LoadedRests DEF AllLoaded, tables, LoadedInv
<1>5. CASE Compress
  <2>1. CP!Next /\ CP!Inv /\ CP!BasesLoaded
    BY <1>5, SameActions DEF Compress, Inv, ChunkInv, LoadedInv
  <2>2. CP!BasesLoaded'
    BY <2>1, CP!NextBasesLoaded, KeysFinite, KeysAssumption, NoEventAssumption,
       MaxGroupAssumption, NoGroupAssumption
  <2>3. QED BY <1>5, <2>2 DEF Compress, tables, process, LoadedInv
<1>6. CASE SaveState
  <2>1. levels \in Seq(Level) /\ Heads(levels) \subseteq DOMAIN db
    BY <1>6, SameTypes, WorkingHeads DEF SaveState, Inv, TypeOK, ChunkTypes
  <2>2. QED BY <1>6, <2>1, WriteLoaded DEF SaveState, ChunkDone, Stop
<1>7. CASE SkipChunk
  BY <1>7, DefaultLevels, WriteLoaded DEF SkipChunk, ChunkDone, Stop
<1>8. CASE SendGroup
  <2>1. DOMAIN db' = DOMAIN db
    BY <1>8 DEF SendGroup
  <2>2. UNCHANGED <<roomOf, saved, pc, compressor>>
    BY <1>8 DEF SendGroup
  <2>3. QED BY <1>8, <2>1, <2>2, LoadedRests DEF SendGroup, LoadedInv
<1>9. CASE StoreGroup
  <2>1. PICK g, row, room :
          db' = Insert(db, g, row) /\ roomOf' = Insert(roomOf, g, room)
    BY <1>9 DEF StoreGroup
  <2>2. DOMAIN db' = DOMAIN db \cup {g} /\ DOMAIN roomOf' = DOMAIN roomOf \cup {g}
    BY <2>1 DEF Insert
  <2>3. UNCHANGED <<saved, pc, compressor>>
    BY <1>9 DEF StoreGroup, process
  <2>4. CP!BasesLoaded => CP!BasesLoaded'
    BY <2>3, LoadedRests
  <2>5. UNCHANGED <<levels, orig>>
    BY <2>3 DEF compressor
  <2>6. QED BY <2>2, <2>3, <2>4, <2>5 DEF LoadedInv
<1>10. CASE /\ UNCHANGED <<db, roomOf, saved, compressor>>
            /\ pc \in Working /\ pc' \in Working
  BY <1>10, LoadedRests DEF LoadedInv
<1>11. CASE UNCHANGED <<db, roomOf, saved>> /\ pc' \notin Finding \cup Working
  BY <1>11 DEF LoadedInv
<1>12. CASE FindMaxGroup
  BY <1>12 DEF FindMaxGroup, tables, compressor, LoadedInv
<1>13. CASE UNCHANGED vars
  <2>1. UNCHANGED <<db, roomOf, saved, pc, levels, orig, compressor>>
    BY <1>13 DEF vars, tables, process, compressor
  <2>2. QED BY <2>1, LoadedRests DEF LoadedInv
<1>14. QED
  BY <1>1, <1>2, <1>3, <1>4, <1>5, <1>6, <1>7, <1>8, <1>9, <1>10, <1>11, <1>12, <1>13
     DEF Next, Start, Step, Crash, tables, End, Stop, PickRoom, NoRoomLeft, SaveLowest,
         CannotReadState, NothingFound, Panic, Abort, Accept, AllSent

\* The heads are found at first.
LEMMA InitLoaded ==
  ASSUME EverythingListed, Init
  PROVE  LoadedInv
<1>1. DOMAIN roomOf = DOMAIN db
  BY DEF EverythingListed, Init
<1>2. QED BY <1>1, EmptyMap DEF Init, LoadedInv, Finding, Working

\* If the edges and the groups Synapse stores agree, load_level_heads loads
\* the heads of all levels, whatever was saved, skipped or cut short by a
\* crash.
THEOREM LevelHeadsAreLoaded ==
  ASSUME EverythingListed
  PROVE  Spec => []HeadsAreLoaded
<1>1. Init => LoadedInv
  BY InitLoaded
<1>2. Inv /\ LoadedInv => HeadsAreLoaded
  BY WorkingHeads DEF HeadsAreLoaded, Working
<1>3. QED BY <1>1, <1>2, NextLoaded, InvIsInvariant, PTL DEF Spec

\* ... so that collapse_state_maps never panics in a run of the tool.
THEOREM ToolNeverPanics ==
  ASSUME EverythingListed
  PROVE  Spec => [](~ panicked)
<1>1. Init => LoadedInv
  BY InitLoaded
<1>2. Inv /\ LoadedInv => ~ panicked
  <2>1. SUFFICES ASSUME Inv, LoadedInv PROVE ~ panicked
    OBVIOUS
  <2>2. CASE pc \in Working
    BY <2>1, <2>2 DEF LoadedInv, CP!BasesLoaded, CP!NoPanic
  <2>3. CASE pc \notin Working
    BY <2>1, <2>3 DEF Inv, MapInv
  <2>4. QED BY <2>2, <2>3
<1>3. QED BY <1>1, <1>2, NextLoaded, InvIsInvariant, PTL DEF Spec

-----------------------------------------------------------------------------
\* The tool implements StateStore, for every database, command line and crash:
\* between any two transactions every group has the state it was stored with
\* (send_changes_to_db; README.md: the compressor can run while Synapse does).
THEOREM CompressorIsNotSeen == Spec => StatesAreKept
<1> USE DEF Store!Groups, Groups, Store!StateMaps, StateMaps, Store!Insert, Insert
<1>1. Inv => Store!Init
  <2>1. SUFFICES ASSUME Inv PROVE Store!Init
    OBVIOUS
  <2>2. HasRows(db) /\ WellFormed(db) /\ DOMAIN db \subseteq Groups
    BY <2>1 DEF Inv, StoredInv, TypeOK
  <2>3. /\ DOMAIN Collapse(db) \subseteq Groups
        /\ \A g \in DOMAIN Collapse(db) : Collapse(db)[g] \in StateMaps
    BY <2>2, CollapseSolves, CollapseType
  <2>4. QED BY <2>3 DEF Store!Init
<1>2. Inv /\ [Next]_vars => [Store!Store]_(Collapse(db))
  <2>1. SUFFICES ASSUME Inv, [Next]_vars PROVE Store!Store \/ UNCHANGED Collapse(db)
    OBVIOUS
  <2>2. CASE StoreGroup
    <3>1. PICK g \in Groups \ DOMAIN db, m \in StateMaps :
            Collapse(db') = Insert(Collapse(db), g, m)
      BY <2>1, <2>2, StoreGroupStates
    <3>2. DOMAIN Collapse(db) = DOMAIN db
      BY <2>1, CollapseSolves DEF Inv, StoredInv
    <3>3. QED BY <3>1, <3>2 DEF Store!Store
  <2>3. CASE SendGroup
    BY <2>1, <2>3, SendStates
  <2>4. CASE db' = db
    BY <2>4
  <2>5. QED
    BY <2>1, <2>2, <2>3, <2>4
       DEF Next, Start, Step, Crash, vars, tables, PickRoom, NoRoomLeft, SaveLowest, ReadState,
           CannotReadState, FindMaxGroup, NothingFound, LoadLevelHeads, GetInitialData,
           GetMissing, AllLoaded, Compress, Panic, Abort, Accept, AllSent, SaveState,
           SkipChunk, WriteState
<1>3. QED BY <1>1, <1>2, InitInv, InvIsInvariant, PTL DEF Spec, StatesAreKept, Store!Spec
=============================================================================
