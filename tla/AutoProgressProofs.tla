------------------------- MODULE AutoProgressProofs -------------------------
(***************************************************************************)
(* How far synapse_auto_compressor has got: what it keeps of it between    *)
(* two chunks never goes back, passes no group, leads to a chunk that is   *)
(* not empty, and the rows of the groups behind it stay as they are.       *)
(*                                                                         *)
(* Each theorem names the assumption it needs of the command lines, of     *)
(* Synapse or of the database; ProgressInv and RoomInv extend the          *)
(* invariant of AutoCompressorProofs.                                      *)
(***************************************************************************)
EXTENDS AutoCompressorProofs, FiniteSetTheorems

\* The options the tool is meant to be run with: a level at least, and chunks
\* of a group at least.
SomeLevels ==
  \A a \in Arguments : DOMAIN a.default_levels # {}

SomeGroups ==
  \A a \in Arguments : a.chunk_size >= 1

Running == {"pick", "save_lowest", "read"} \cup Finding \cup Working

\* A running process has the options of a command line.
ArgsInv == pc \in Running => args \in Arguments

LEMMA InitArgs == Init => ArgsInv
BY DEF Init, ArgsInv, Running, Finding, Working

LEMMA NextArgs == ArgsInv /\ [Next]_vars => ArgsInv'
<1> SUFFICES ASSUME ArgsInv, [Next]_vars PROVE ArgsInv'
  OBVIOUS
<1> USE DEF ArgsInv, Running, Finding, Working
<1>1. CASE Start
  BY <1>1 DEF Start
<1>2. CASE pc \in Running /\ args' = args
  BY <1>2
<1>3. CASE pc' \in {"idle", "crashed"}
  BY <1>3
<1>4. CASE args' = args /\ pc' = pc
  BY <1>4
<1>5. QED
  BY <1>1, <1>2, <1>3, <1>4
     DEF Next, Step, Crash, StoreGroup, vars, process, End, Stop, PickRoom, NoRoomLeft,
         SaveLowest, ReadState, CannotReadState, FindMaxGroup, NothingFound, LoadLevelHeads,
         GetInitialData, GetMissing, AllLoaded, Compress, Panic, Abort, Accept, SendGroup,
         AllSent, SaveState, SkipChunk, ChunkDone

-----------------------------------------------------------------------------
\* A room with progress has saved levels to find it by, there are levels to
\* save, and the group that is about to be saved as the lowest is not below
\* the last one.
ProgressInv ==
  /\ \A r \in Rooms : progress[r] # NoGroup => DOMAIN saved[r] # {}
  /\ pc \in Finding \cup Working => DOMAIN levels # {}
  /\ pc = "save_lowest" => job.max >= lowest

\* Levels that are not none are some.
LEMMA NotEmpty ==
  ASSUME NEW ls \in Seq(Level), ls # <<>>
  PROVE  DOMAIN ls # {}
<1>1. Len(ls) \in Nat /\ Len(ls) # 0
  OBVIOUS
<1>2. 1 \in DOMAIN ls
  BY <1>1
<1>3. QED BY <1>2

\* Compressing a chunk replaces heads, never levels.
LEMMA CompressLevels ==
  ASSUME C!Next
  PROVE  DOMAIN levels' = DOMAIN levels
<1>1. levels' = levels \/ levels' = C!Place(levels, C!Current)
  BY DEF C!Next, C!CopyOutOfRange, C!KeepEntry, C!StoreFull, C!StartDelta, C!UseBase,
         C!WalkUp, C!ForcedReset, C!MissingBase, C!Finish
<1>2. QED BY <1>1 DEF C!Place

\* A chunk ends after the last one that its room has been saved with.
LEMMA JobGrows ==
  ASSUME Inv, ProgressInv, pc \in Working, progress[job.room] # NoGroup
  PROVE  job.max >= progress[job.room]
<1>1. job.room \in Rooms
  BY DEF Inv, TypeOK
<1>2. saved[job.room] # <<>>
  BY <1>1, EmptyMap DEF ProgressInv
<1>3. job.start = progress[job.room] /\ job.max \in Groups /\ AfterStart(job.max)
  BY <1>2 DEF Inv, JobInv, Working, Finding
<1>4. job.start \in Groups
  BY <1>1, <1>3 DEF Inv, TypeOK, OptGroup
<1>5. QED BY <1>3, <1>4 DEF AfterStart, Groups

\* The room of the chunk gets levels and a progress, and no other changes.
LEMMA WriteProgress ==
  ASSUME Inv, ProgressInv, pc \in Working, NEW info \in Seq(Level), DOMAIN info # {},
         WriteState(info), pc' \notin {"save_lowest"} \cup Finding \cup Working
  PROVE  /\ ProgressInv'
         /\ \A r \in Rooms : progress[r] # NoGroup =>
              progress'[r] # NoGroup /\ progress'[r] >= progress[r]
<1> DEFINE room == job.room
           new  == info \o SubSeq(saved[room], Len(info) + 1, Len(saved[room]))
<1>1. room \in Rooms /\ saved[room] \in Seq(Level)
  BY DEF Inv, TypeOK
<1>2. DOMAIN new # {}
  <2>1. SubSeq(saved[room], Len(info) + 1, Len(saved[room])) \in Seq(Level)
    BY <1>1
  <2> DEFINE tail == SubSeq(saved[room], Len(info) + 1, Len(saved[room]))
  <2> HIDE DEF tail
  <2>2. Len(info \o tail) = Len(info) + Len(tail) /\ Len(info) > 0
    BY <2>1 DEF tail
  <2>3. 1 \in DOMAIN (info \o tail)
    BY <2>1, <2>2 DEF tail
  <2>4. QED BY <2>3 DEF tail
<1>3. /\ saved' = [saved EXCEPT ![room] = new]
      /\ progress' = [progress EXCEPT ![room] = job.max]
  BY DEF WriteState
<1>4. job.max \in Groups
  BY DEF Inv, JobInv
<1>5. progress[room] # NoGroup => job.max >= progress[room]
  BY JobGrows
<1> HIDE DEF new, room
<1>6. \A r \in Rooms : progress'[r] # NoGroup => DOMAIN saved'[r] # {}
  BY <1>1, <1>2, <1>3 DEF ProgressInv, Inv, TypeOK
<1>7. \A r \in Rooms : progress[r] # NoGroup =>
        progress'[r] # NoGroup /\ progress'[r] >= progress[r]
  <2>1. SUFFICES ASSUME NEW r \in Rooms, progress[r] # NoGroup
                 PROVE  progress'[r] # NoGroup /\ progress'[r] >= progress[r]
    OBVIOUS
  <2>2. progress \in [Rooms -> OptGroup] /\ progress[r] \in Groups
    BY <2>1 DEF Inv, TypeOK, OptGroup
  <2>3. CASE r = room
    BY <1>1, <1>3, <1>4, <1>5, <2>1, <2>2, <2>3, NoGroupAssumption DEF Groups
  <2>4. CASE r # room
    BY <1>3, <2>1, <2>2, <2>4 DEF Groups
  <2>5. QED BY <2>3, <2>4
<1>8. QED BY <1>6, <1>7 DEF ProgressInv

\* What ProgressGrows says of a step.
Grows ==
  /\ lowest' >= lowest
  /\ \A r \in Rooms :
       progress[r] # NoGroup => progress'[r] # NoGroup /\ progress'[r] >= progress[r]

LEMMA NextProgress ==
  ASSUME SomeLevels, Inv, ArgsInv, ProgressInv, [Next]_vars
  PROVE  ProgressInv' /\ Grows
<1> USE DEF Finding, Working
<1>1. lowest \in Nat
  BY MaxGroupAssumption DEF Inv, TypeOK, Groups
<1>2. \A r \in Rooms : progress[r] # NoGroup => progress[r] >= progress[r]
  BY DEF Inv, TypeOK, OptGroup, Groups
<1>3. UNCHANGED <<lowest, progress>> => Grows
  BY <1>1, <1>2 DEF Grows
<1>4. CASE PickRoom
  <2>1. Candidates \in SUBSET Nat /\ Candidates # {}
    BY <1>4, MaxGroupAssumption DEF PickRoom, Candidates, Inv, TypeOK, Groups
  <2>2. Min(Candidates) \in Candidates
    BY <2>1, MinLeast
  <2>3. job'.max >= lowest
    BY <1>4, <2>2 DEF PickRoom, Candidates
  <2>4. QED BY <1>3, <1>4, <2>3 DEF PickRoom, tables, ProgressInv
<1>5. CASE SaveLowest
  BY <1>2, <1>5 DEF SaveLowest, ProgressInv, Grows
<1>6. CASE ReadState
  <2>1. args \in Arguments
    BY <1>6 DEF ReadState, ArgsInv, Running
  <2>2. DOMAIN args.default_levels # {}
    BY <2>1 DEF SomeLevels
  <2>3. saved[job.room] # <<>> => DOMAIN saved[job.room] # {}
    <3>1. saved[job.room] \in Seq(Level)
      BY DEF Inv, TypeOK
    <3>2. QED BY <3>1, NotEmpty
  <2>4. DOMAIN levels' # {}
    BY <1>6, <2>2, <2>3 DEF ReadState
  <2>5. QED BY <1>3, <1>6, <2>4 DEF ReadState, tables, ProgressInv
<1>7. CASE Compress
  BY <1>3, <1>7, CompressLevels DEF Compress, tables, process, ProgressInv
<1>8. CASE SaveState
  <2>1. levels \in Seq(Level) /\ DOMAIN levels # {}
    BY <1>8, SameTypes DEF Inv, TypeOK, ChunkTypes, ProgressInv, SaveState
  <2>2. WriteState(levels) /\ pc \in Working /\ pc' \in {"pick", "idle"} /\ lowest' = lowest
    BY <1>8 DEF SaveState, ChunkDone, Stop, WriteState
  <2>3. QED BY <1>1, <2>1, <2>2, WriteProgress DEF Grows
<1>9. CASE SkipChunk
  <2>1. args \in Arguments
    BY <1>9 DEF SkipChunk, ArgsInv, Running
  <2>2. args.default_levels \in Seq(Level) /\ DOMAIN args.default_levels # {}
    BY <2>1, DefaultLevels DEF SomeLevels
  <2>3. /\ WriteState(args.default_levels)
        /\ pc \in Working /\ pc' \in {"pick", "idle"} /\ lowest' = lowest
    BY <1>9 DEF SkipChunk, ChunkDone, Stop, WriteState
  <2>4. QED BY <1>1, <2>2, <2>3, WriteProgress DEF Grows
<1>10. CASE /\ UNCHANGED <<saved, progress, lowest>>
            /\ \/ pc' \notin {"save_lowest"} \cup Finding \cup Working
               \/ levels' = levels /\ pc \in Finding \cup Working /\ pc' \in Finding \cup Working
               \/ UNCHANGED <<levels, pc, job>>
  BY <1>3, <1>10 DEF ProgressInv
<1>11. QED
  BY <1>4, <1>5, <1>6, <1>7, <1>8, <1>9, <1>10
     DEF Next, Start, Step, Crash, StoreGroup, vars, tables, process, compressor, End, Stop,
         NoRoomLeft, CannotReadState, FindMaxGroup, NothingFound, LoadLevelHeads,
         GetInitialData, GetMissing, AllLoaded, Panic, Abort, Accept, SendGroup, AllSent

LEMMA InitProgress == Init => ProgressInv
BY DEF Init, ProgressInv, Finding, Working

\* Given a level at least, lowest_uncompressed_group and last_compressed never
\* go back, in no crash and with no other command line, either
\* (get_next_room_to_compress, write_room_compressor_state).
THEOREM ProgressNeverGoesBack ==
  ASSUME SomeLevels
  PROVE  Spec => ProgressGrows
<1>1. Inv /\ ArgsInv /\ ProgressInv /\ [Next]_vars => ProgressInv' /\ [Grows]_vars
  BY NextProgress
<1>2. [][Grows]_vars => ProgressGrows
  BY PTL DEF ProgressGrows, Grows
<1>3. QED
  BY <1>1, <1>2, InitArgs, NextArgs, InitProgress, InvIsInvariant, PTL DEF Spec

-----------------------------------------------------------------------------
\* The room that has been picked has a group to compress, and the search for
\* the chunk starts before it.
WorkInv ==
  /\ pc \in {"save_lowest", "read"} =>
       \E g \in Listed(job.room) : Uncompressed(g)
  /\ pc = "find" => \E g \in Listed(job.room) : AfterStart(g)

LEMMA InitWork == Init => WorkInv
BY DEF Init, WorkInv

LEMMA NextWork == Inv /\ WorkInv /\ [Next]_vars => WorkInv'
<1> SUFFICES ASSUME Inv, WorkInv, [Next]_vars PROVE WorkInv'
  OBVIOUS
<1>1. CASE PickRoom
  <2>1. Candidates \in SUBSET Nat /\ Candidates # {}
    BY <1>1, MaxGroupAssumption DEF PickRoom, Candidates, Inv, TypeOK, Groups
  <2>2. Min(Candidates) \in Candidates
    BY <2>1, MinLeast
  <2>3. PICK g \in Candidates : job'.room = roomOf[g]
    BY <1>1, <2>2 DEF PickRoom
  <2>4. g \in Listed(job.room)' /\ Uncompressed(g)'
    BY <1>1, <2>3 DEF PickRoom, tables, Candidates, Listed, Uncompressed
  <2>5. QED BY <1>1, <2>4 DEF PickRoom, WorkInv
<1>2. CASE SaveLowest
  <2>1. job'.room = job.room
    BY <1>2 DEF SaveLowest, Inv, TypeOK
  <2>2. QED BY <1>2, <2>1 DEF SaveLowest, WorkInv, Listed, Uncompressed
<1>3. CASE ReadState
  <2>1. PICK g \in Listed(job.room) : Uncompressed(g)
    BY <1>3 DEF ReadState, WorkInv
  <2>2. job.start = NoGroup /\ job' \in [room : Rooms, start : OptGroup, max : OptGroup]
    BY <1>3 DEF ReadState, Inv, TypeOK, JobInv
  <2>3. job'.room = job.room /\ job'.start \in {NoGroup, progress[job.room]}
    BY <1>3, <2>2 DEF ReadState, Inv, TypeOK
  <2>4. g \in Listed(job.room)' /\ AfterStart(g)'
    BY <1>3, <2>1, <2>3 DEF ReadState, tables, Listed, Uncompressed, AfterStart
  <2>5. QED BY <1>3, <2>4 DEF ReadState, WorkInv
<1>4. CASE StoreGroup
  <2>1. PICK new \in Groups \ DOMAIN db, room \in Rooms : roomOf' = Insert(roomOf, new, room)
    BY <1>4, NewGroupsAssumption DEF StoreGroup
  <2>2. UNCHANGED <<progress, pc, job>>
    BY <1>4 DEF StoreGroup, process
  <2>3. \A g \in DOMAIN roomOf : g \in DOMAIN roomOf' /\ roomOf'[g] = roomOf[g]
    BY <2>1 DEF Insert, Inv, TypeOK
  <2>4. \A g \in Listed(job.room) :
          /\ g \in Listed(job.room)'
          /\ Uncompressed(g) => Uncompressed(g)'
          /\ AfterStart(g) => AfterStart(g)'
    BY <2>2, <2>3 DEF Listed, Uncompressed, AfterStart
  <2>5. QED BY <2>2, <2>4 DEF WorkInv
<1>5. CASE pc' \notin {"save_lowest", "read", "find"}
  BY <1>5 DEF WorkInv
<1>6. CASE UNCHANGED vars
  BY <1>6 DEF vars, tables, process, WorkInv, Listed, Uncompressed, AfterStart
<1>7. QED
  BY <1>1, <1>2, <1>3, <1>4, <1>5, <1>6
     DEF Next, Start, Step, Crash, End, Stop, NoRoomLeft, CannotReadState, FindMaxGroup,
         NothingFound, LoadLevelHeads, GetInitialData, GetMissing, AllLoaded, Compress,
         process, Panic, Abort, Accept, SendGroup, AllSent, SaveState, SkipChunk, ChunkDone

\* With chunks of a group at least, the tool never meets a room without work
\* ("Ran the compressor on a room that had no more work to do!",
\* compress_chunks_of_database).
THEOREM WorkIsFound ==
  ASSUME SomeGroups
  PROVE  Spec => []AlwaysFindsWork
<1>1. Inv /\ ArgsInv /\ WorkInv => AlwaysFindsWork
  <2>1. SUFFICES ASSUME Inv, ArgsInv, WorkInv, pc = "find"
                 PROVE  Chunk # {}
    BY DEF AlwaysFindsWork
  <2> DEFINE after == {g \in Listed(job.room) : AfterStart(g)}
             g     == Min(after)
             upTo  == {h \in after : h =< g}
  <2>2. after \in SUBSET Nat /\ after # {}
    BY <2>1, MaxGroupAssumption DEF WorkInv, Listed, Inv, TypeOK, Groups
  <2>3. g \in after /\ \A h \in after : g =< h
    BY <2>2, MinLeast
  <2>4. upTo = {g}
    <3> HIDE DEF after, g
    <3>1. \A h \in after : h =< g => h = g
      BY <2>2, <2>3
    <3>2. g =< g
      BY <2>2, <2>3
    <3>3. QED BY <2>3, <3>1, <3>2
  <2>5. Cardinality(upTo) = 1
    BY <2>4, FS_Singleton
  <2>6. args.chunk_size >= 1 /\ args.chunk_size \in Nat
    BY <2>1, ArgumentsAssumption DEF ArgsInv, Running, Finding, SomeGroups
  <2>7. Cardinality(upTo) =< args.chunk_size
    BY <2>5, <2>6
  <2>8. g \in Chunk
    <3> HIDE DEF g
    <3>1. QED BY <2>3, <2>7 DEF Chunk
  <2>9. QED BY <2>8
<1>2. QED
  BY <1>1, InitArgs, NextArgs, InitWork, NextWork, InitInv, NextInv, PTL DEF Spec

-----------------------------------------------------------------------------
\* All groups below the lowest are behind the progress of their rooms, and
\* below the one that has been found, too; both are groups there are.
PassedInv ==
  /\ \A g \in DOMAIN roomOf : g < lowest => ~ Uncompressed(g)
  /\ lowest \in DOMAIN db \cup {0}
  /\ pc = "save_lowest" =>
       /\ job.max \in DOMAIN db
       /\ \A g \in DOMAIN roomOf : g < job.max => ~ Uncompressed(g)

LEMMA InitPassed == Init => PassedInv
<1> SUFFICES ASSUME Init PROVE PassedInv
  OBVIOUS
<1>1. DOMAIN roomOf \subseteq Nat
  BY InitInv, MaxGroupAssumption DEF Inv, TypeOK, Groups
<1>2. \A g \in DOMAIN roomOf : ~ (g < lowest)
  BY <1>1 DEF Init
<1>3. QED BY <1>2 DEF Init, PassedInv

\* A group that has been passed stays so while the progress grows.
LEMMA PassedStays ==
  ASSUME Inv, Grows, TypeOK', NEW g \in DOMAIN roomOf, roomOf'[g] = roomOf[g],
         ~ Uncompressed(g)
  PROVE  progress'[roomOf'[g]] # NoGroup /\ ~ (g > progress'[roomOf'[g]])
<1> DEFINE r == roomOf[g]
<1>1. r \in Rooms /\ progress[r] # NoGroup /\ ~ (g > progress[r])
  BY DEF Inv, TypeOK, Uncompressed
<1>2. progress'[r] # NoGroup /\ progress'[r] >= progress[r]
  BY <1>1 DEF Grows
<1>3. g \in Nat /\ progress[r] \in Nat /\ progress'[r] \in Nat
  <2>1. progress[r] \in OptGroup /\ progress'[r] \in OptGroup /\ g \in Groups
    BY <1>1 DEF Inv, TypeOK
  <2>2. QED BY <1>1, <1>2, <2>1, MaxGroupAssumption DEF OptGroup, Groups
<1>4. QED BY <1>1, <1>2, <1>3

LEMMA NextPassed ==
  ASSUME SomeLevels, InOrder, Inv, ArgsInv, ProgressInv, PassedInv, [Next]_vars
  PROVE  PassedInv'
<1>1. Grows /\ TypeOK'
  BY NextProgress, NextInv DEF Inv
<1>2. CASE PickRoom
  <2>1. Candidates \in SUBSET Nat /\ Candidates # {}
    BY <1>2, MaxGroupAssumption DEF PickRoom, Candidates, Inv, TypeOK, Groups
  <2>2. Min(Candidates) \in Candidates /\ \A g \in Candidates : Min(Candidates) =< g
    BY <2>1, MinLeast
  <2>3. PICK m \in Candidates : job'.max = m /\ \A g \in Candidates : m =< g
    BY <1>2, <2>2 DEF PickRoom
  <2>4. \A g \in DOMAIN roomOf : g < m => ~ Uncompressed(g)
    <3>1. SUFFICES ASSUME NEW g \in DOMAIN roomOf, g < m, Uncompressed(g)
                   PROVE  FALSE
      OBVIOUS
    <3>2. g \in Nat /\ m \in Nat /\ lowest \in Nat
      BY <2>1, MaxGroupAssumption DEF Inv, TypeOK, Groups
    <3>3. g \notin Candidates
      BY <2>3, <3>1, <3>2
    <3>4. g < lowest
      BY <3>1, <3>2, <3>3 DEF Candidates
    <3>5. QED BY <3>1, <3>4 DEF PassedInv
  <2>5. m \in DOMAIN db
    BY DEF Candidates, Inv, TypeOK
  <2>6. QED
    BY <1>2, <2>3, <2>4, <2>5 DEF PickRoom, tables, PassedInv, Uncompressed
<1>3. CASE SaveLowest
  BY <1>3 DEF SaveLowest, PassedInv, Uncompressed
<1>4. CASE StoreGroup
  <2>1. PICK new \in Groups \ DOMAIN db, room \in Rooms :
          /\ \A h \in DOMAIN db : h < new
          /\ DOMAIN db' = DOMAIN db \cup {new}
          /\ roomOf' = Insert(roomOf, new, room)
    <3>1. PICK new \in NewGroups \ DOMAIN db, room \in Rooms, delta \in NewDeltas :
            \E prev \in {h \in Listed(room) : h < new} \cup {NoGroup} :
              /\ \A h \in DOMAIN db : h < new
              /\ db' = Insert(db, new, [prev |-> prev, delta |-> delta])
              /\ roomOf' = Insert(roomOf, new, room)
      BY <1>4 DEF StoreGroup
    <3>2. QED BY <3>1, NewGroupsAssumption DEF Insert
  <2>2. UNCHANGED <<progress, lowest, pc, job>>
    BY <1>4 DEF StoreGroup, process
  <2>3. /\ DOMAIN roomOf' = DOMAIN roomOf \cup {new}
        /\ \A g \in DOMAIN roomOf : roomOf'[g] = roomOf[g]
    BY <2>1 DEF Insert, Inv, TypeOK
  <2>4. /\ ~ (new < lowest)
        /\ pc = "save_lowest" => ~ (new < job.max)
    <3>1. DOMAIN db \subseteq Nat /\ new \in Nat
      BY MaxGroupAssumption DEF Inv, TypeOK, Groups
    <3>2. ~ (new < lowest)
      BY <2>1, <3>1 DEF PassedInv
    <3>3. pc = "save_lowest" => ~ (new < job.max)
      BY <2>1, <3>1 DEF PassedInv
    <3>4. QED BY <3>2, <3>3
  <2>5. \A g \in DOMAIN roomOf : ~ Uncompressed(g) => ~ Uncompressed(g)'
    BY <2>2, <2>3 DEF Uncompressed
  <2>6. QED BY <2>1, <2>2, <2>3, <2>4, <2>5 DEF PassedInv
<1>5. CASE pc' # "save_lowest" /\ UNCHANGED <<roomOf, lowest>> /\ DOMAIN db' = DOMAIN db
  <2>1. \A g \in DOMAIN roomOf : ~ Uncompressed(g) => ~ Uncompressed(g)'
    BY <1>1, <1>5, PassedStays DEF Uncompressed
  <2>2. QED BY <1>5, <2>1 DEF PassedInv
<1>6. CASE UNCHANGED vars
  BY <1>6 DEF vars, tables, process, PassedInv, Uncompressed
<1>7. QED
  BY <1>2, <1>3, <1>4, <1>5, <1>6
     DEF Next, Start, Step, Crash, End, Stop, tables, process, NoRoomLeft, ReadState,
         CannotReadState, FindMaxGroup, NothingFound, LoadLevelHeads, GetInitialData,
         GetMissing, AllLoaded, Compress, Panic, Abort, Accept, SendGroup, AllSent,
         SaveState, SkipChunk, ChunkDone, WriteState

\* If Synapse's groups become visible in the order of their ids, no group is
\* ever passed: what is below lowest_uncompressed_group has been compressed or
\* skipped (get_next_room_to_compress).
THEOREM NoneIsPassed ==
  ASSUME SomeLevels, InOrder
  PROVE  Spec => []NoGroupIsPassed
<1>1. PassedInv => NoGroupIsPassed
  BY DEF PassedInv, NoGroupIsPassed
<1>2. Inv /\ ArgsInv /\ ProgressInv /\ PassedInv /\ [Next]_vars => ProgressInv' /\ PassedInv'
  BY NextProgress, NextPassed
<1>3. QED
  BY <1>1, <1>2, InitArgs, NextArgs, InitProgress, InitPassed, InitInv, NextInv, PTL DEF Spec

-----------------------------------------------------------------------------
\* The end of the chunk is a group there is, and from when the groups up to it
\* are loaded, none is missing.
WholeInv ==
  /\ pc \in (Finding \ {"find"}) \cup Working => job.max \in DOMAIN db
  /\ pc \in {"missing"} \cup Working =>
       \A g \in Listed(job.room) :
         AfterStart(g) /\ g =< job.max => g \in DOMAIN orig /\ orig[g].in_range

LEMMA InitWhole == Init => WholeInv
BY DEF Init, WholeInv, Finding, Working

LEMMA NextWhole == InOrder => (Inv /\ WholeInv /\ [Next]_vars => WholeInv')
<1> SUFFICES ASSUME InOrder, Inv, WholeInv, [Next]_vars PROVE WholeInv'
  OBVIOUS
<1> USE DEF Finding, Working
<1>1. CASE FindMaxGroup
  <2>1. Chunk \in SUBSET Groups /\ Chunk # {}
    BY <1>1 DEF FindMaxGroup, Chunk, Listed, Inv, TypeOK
  <2>2. Max(Chunk) \in DOMAIN db
    <3>1. Max(Chunk) \in Chunk
      BY <2>1, MaxGreatest
    <3>2. QED BY <3>1 DEF Chunk, Listed, Inv, TypeOK
  <2>3. job'.max = Max(Chunk)
    BY <1>1 DEF FindMaxGroup, Inv, TypeOK
  <2>4. QED BY <1>1, <2>2, <2>3 DEF FindMaxGroup, tables, WholeInv
<1>2. CASE GetInitialData
  <2>1. \A g \in Listed(job.room) :
          AfterStart(g) /\ g =< job.max => g \in DOMAIN orig' /\ orig'[g].in_range
    BY <1>2 DEF GetInitialData, Load
  <2>2. QED
    BY <1>2, <2>1 DEF GetInitialData, tables, WholeInv, Listed, AfterStart
<1>3. CASE GetMissing
  <2>1. \A g \in DOMAIN orig : g \in DOMAIN orig' /\ orig'[g] = orig[g]
    BY <1>3 DEF GetMissing, Missing
  <2>2. QED
    BY <1>3, <2>1 DEF GetMissing, tables, process, WholeInv, Listed, AfterStart
<1>4. CASE Compress
  <2>1. orig' = orig
    BY <1>4, ChunkSteps DEF Compress, Inv, ChunkInv
  <2>2. QED
    BY <1>4, <2>1 DEF Compress, tables, process, WholeInv, Listed, AfterStart
<1>5. CASE StoreGroup
  <2>1. PICK new \in Groups \ DOMAIN db, room \in Rooms :
          /\ \A h \in DOMAIN db : h < new
          /\ DOMAIN db' = DOMAIN db \cup {new}
          /\ roomOf' = Insert(roomOf, new, room)
    <3>1. PICK new \in NewGroups \ DOMAIN db, room \in Rooms, delta \in NewDeltas :
            \E prev \in {h \in Listed(room) : h < new} \cup {NoGroup} :
              /\ \A h \in DOMAIN db : h < new
              /\ db' = Insert(db, new, [prev |-> prev, delta |-> delta])
              /\ roomOf' = Insert(roomOf, new, room)
      BY <1>5 DEF StoreGroup
    <3>2. QED BY <3>1, NewGroupsAssumption DEF Insert
  <2>2. UNCHANGED <<pc, job, orig>>
    BY <1>5 DEF StoreGroup, process, compressor
  <2>3. \A g \in Listed(job.room)' : g \in Listed(job.room) \/ g = new
    BY <2>1, <2>2 DEF Listed, Insert
  <2>4. pc \in (Finding \ {"find"}) \cup Working => ~ (new =< job.max)
    <3>1. DOMAIN db \subseteq Nat /\ new \in Nat
      BY MaxGroupAssumption DEF Inv, TypeOK, Groups
    <3>2. QED BY <2>1, <3>1 DEF WholeInv
  <2>5. QED BY <2>1, <2>2, <2>3, <2>4 DEF WholeInv, AfterStart
<1>6. CASE /\ pc \in Finding \cup Working
           /\ pc # "find"
           /\ DOMAIN db' = DOMAIN db /\ UNCHANGED <<roomOf, job>>
           /\ \/ pc' = "initial"
              \/ orig' = orig /\ pc \in {"missing"} \cup Working /\ pc' \in {"missing"} \cup Working
  BY <1>6 DEF WholeInv, Listed, AfterStart
<1>7. CASE pc' \notin (Finding \ {"find"}) \cup Working
  BY <1>7 DEF WholeInv
<1>8. CASE UNCHANGED vars
  BY <1>8 DEF vars, tables, process, compressor, WholeInv, Listed, AfterStart
<1>9. QED
  BY <1>1, <1>2, <1>3, <1>4, <1>5, <1>6, <1>7, <1>8
     DEF Next, Start, Step, Crash, tables, compressor, End, Stop, PickRoom, NoRoomLeft,
         SaveLowest, ReadState, CannotReadState, NothingFound, LoadLevelHeads, AllLoaded,
         Panic, Abort, Accept, SendGroup, AllSent, SaveState, SkipChunk, ChunkDone

\* If groups become visible in the order of their ids, no group falls between
\* the query that finds the end of a chunk (find_max_group) and the one that
\* loads it (get_initial_data_from_db): what write_room_compressor_state
\* records as done has been in the chunk.
THEOREM ChunksAreWhole ==
  ASSUME InOrder
  PROVE  Spec => []ChunkIsWhole
<1>1. WholeInv => ChunkIsWhole
  BY DEF WholeInv, ChunkIsWhole, Working
<1>2. Inv /\ WholeInv /\ [Next]_vars => WholeInv'
  BY NextWhole
<1>3. QED BY <1>1, <1>2, InitWhole, InitInv, NextInv, PTL DEF Spec

-----------------------------------------------------------------------------
\* The groups of the database belong to rooms, those that are only in the
\* edges table, too, and no group follows from one of another room.
EdgesStayInRooms ==
  \A d \in Databases :
    \E f \in [DOMAIN d.db -> Rooms] :
      /\ \A g \in DOMAIN d.roomOf : f[g] = d.roomOf[g]
      /\ \A g \in DOMAIN d.db : d.db[g].prev # NoGroup => f[d.db[g].prev] = f[g]

\* f says whose the groups are: what is saved for a room and what is loaded
\* for it are its own.
Belong(f) ==
  /\ f \in [DOMAIN db -> Rooms]
  /\ \A g \in DOMAIN roomOf : f[g] = roomOf[g]
  /\ \A g \in DOMAIN db : db[g].prev # NoGroup => f[db[g].prev] = f[g]
  /\ \A r \in Rooms : \A head \in Heads(saved[r]) : head \in DOMAIN db /\ f[head] = r
  /\ pc \in Finding \cup Working =>
       \A head \in Heads(levels) : head \in DOMAIN db /\ f[head] = job.room
  /\ \A g \in DOMAIN orig : f[g] = job.room

RoomInv == \E f : Belong(f)

LEMMA InitRoom ==
  ASSUME EdgesStayInRooms, Init
  PROVE  RoomInv
<1>1. PICK d \in Databases : db = d.db /\ roomOf = d.roomOf
  BY DEF Init
<1>2. PICK f \in [DOMAIN db -> Rooms] :
        /\ \A g \in DOMAIN roomOf : f[g] = roomOf[g]
        /\ \A g \in DOMAIN db : db[g].prev # NoGroup => f[db[g].prev] = f[g]
  BY <1>1 DEF EdgesStayInRooms
<1>3. /\ \A r \in Rooms : Heads(saved[r]) = {}
      /\ pc \notin Finding \cup Working
      /\ DOMAIN orig = {}
  BY EmptyMap DEF Init, Finding, Working
<1>4. Belong(f)
  BY <1>2, <1>3 DEF Belong
<1>5. QED BY <1>4 DEF RoomInv

\* The heads that are written are the room's.
LEMMA WriteRoom ==
  ASSUME Inv, NEW f, Belong(f), pc \in Working, NEW info \in Seq(Level),
         \A head \in Heads(info) : head \in DOMAIN db /\ f[head] = job.room,
         WriteState(info), ChunkDone
  PROVE  Belong(f)'
<1> DEFINE room == job.room
           new  == info \o SubSeq(saved[room], Len(info) + 1, Len(saved[room]))
<1>1. room \in Rooms /\ saved[room] \in Seq(Level)
  BY DEF Inv, TypeOK
<1>2. \A i \in DOMAIN new :
        \/ \E j \in DOMAIN info : new[i] = info[j]
        \/ \E j \in DOMAIN saved[room] : new[i] = saved[room][j]
  BY <1>1, WrittenLevels
<1>3. saved' = [saved EXCEPT ![room] = new] /\ UNCHANGED <<db, roomOf>>
  BY DEF WriteState
<1>4. /\ pc' \notin Finding \cup Working
      /\ orig' = <<>>
  BY DEF ChunkDone, Stop, End, Clear, Finding, Working
<1> HIDE DEF new
<1>5. Heads(new) \subseteq Heads(info) \cup Heads(saved[room])
  BY <1>2 DEF Heads
<1>6. \A head \in Heads(new) : head \in DOMAIN db /\ f[head] = room
  BY <1>1, <1>5 DEF Belong
<1> HIDE DEF room
<1>7. \A r \in Rooms : \A head \in Heads(saved'[r]) : head \in DOMAIN db /\ f[head] = r
  BY <1>1, <1>3, <1>6 DEF Belong, Inv, TypeOK
<1>8. DOMAIN orig' = {}
  BY <1>4, EmptyMap
<1>9. QED BY <1>3, <1>4, <1>7, <1>8 DEF Belong

LEMMA NextRoom == Inv /\ RoomInv /\ [Next]_vars => RoomInv'
<1> SUFFICES ASSUME Inv, RoomInv, [Next]_vars PROVE RoomInv'
  OBVIOUS
<1> USE DEF Finding, Working
<1>1. PICK f : Belong(f)
  BY DEF RoomInv
<1>2. SUFFICES ASSUME ~ StoreGroup PROVE Belong(f)'
  <2>1. CASE StoreGroup
    <3>1. PICK new \in Groups \ DOMAIN db, room \in Rooms, prev \in Groups \cup {NoGroup},
               delta \in NewDeltas :
            /\ prev \in Listed(room) \cup {NoGroup}
            /\ db' = Insert(db, new, [prev |-> prev, delta |-> delta])
            /\ roomOf' = Insert(roomOf, new, room)
      <4>1. PICK new \in NewGroups \ DOMAIN db, room \in Rooms, delta \in NewDeltas :
              \E prev \in {h \in Listed(room) : h < new} \cup {NoGroup} :
                /\ db' = Insert(db, new, [prev |-> prev, delta |-> delta])
                /\ roomOf' = Insert(roomOf, new, room)
        BY <2>1 DEF StoreGroup
      <4>2. Listed(room) \subseteq Groups /\ new \in Groups \ DOMAIN db
        BY NewGroupsAssumption DEF Listed, Inv, TypeOK
      <4>3. QED BY <4>1, <4>2
    <3>2. UNCHANGED <<saved, pc, job, levels, orig>>
      BY <2>1 DEF StoreGroup, process, compressor
    <3> DEFINE f1 == Insert(f, new, room)
    <3>3. /\ DOMAIN db' = DOMAIN db \cup {new}
          /\ \A g \in DOMAIN db : db'[g] = db[g]
          /\ db'[new].prev = prev
      BY <3>1 DEF Insert
    <3>4. /\ DOMAIN roomOf' = DOMAIN roomOf \cup {new}
          /\ \A g \in DOMAIN roomOf : roomOf'[g] = roomOf[g] /\ g \in DOMAIN db
          /\ roomOf'[new] = room
      BY <3>1 DEF Insert, Inv, TypeOK
    <3>5. /\ f1 \in [DOMAIN db' -> Rooms]
          /\ \A g \in DOMAIN db : f1[g] = f[g]
          /\ f1[new] = room
      BY <1>1, <3>3 DEF Insert, Belong
    <3> HIDE DEF f1
    <3>6. \A g \in DOMAIN db' : db'[g].prev # NoGroup => f1[db'[g].prev] = f1[g]
      <4>1. \A g \in DOMAIN db : db[g].prev # NoGroup =>
              db[g].prev \in DOMAIN db /\ f[db[g].prev] = f[g]
        BY <1>1 DEF Belong, Inv, StoredInv, WellFormed
      <4>2. prev # NoGroup => prev \in DOMAIN roomOf /\ roomOf[prev] = room
        BY <3>1 DEF Listed
      <4>3. prev # NoGroup => prev \in DOMAIN db /\ f[prev] = room
        BY <1>1, <3>4, <4>2 DEF Belong
      <4>4. QED BY <3>3, <3>5, <4>1, <4>3
    <3>7. \A g \in DOMAIN roomOf' : f1[g] = roomOf'[g]
      BY <1>1, <3>4, <3>5 DEF Belong
    <3>8. DOMAIN orig \subseteq DOMAIN db
      BY DEF Inv, MapInv
    <3>9. Belong(f1)'
      BY <1>1, <3>2, <3>3, <3>5, <3>6, <3>7, <3>8 DEF Belong
    <3>10. QED BY <3>9 DEF RoomInv
  <2>2. QED BY <2>1 DEF RoomInv
<1>3. CASE ReadState
  <2>1. job'.room = job.room /\ job.room \in Rooms
    BY <1>3 DEF ReadState, Inv, TypeOK
  <2>2. levels' \in {args.default_levels, saved[job.room]}
    BY <1>3 DEF ReadState
  <2>3. Heads(args.default_levels) = {}
    BY DefaultLevels
  <2>4. QED BY <1>1, <1>3, <2>1, <2>2, <2>3 DEF ReadState, tables, Belong
<1>4. CASE LoadLevelHeads
  <2>1. DOMAIN orig' \subseteq Heads(levels)
    BY <1>4 DEF LoadLevelHeads
  <2>2. QED BY <1>1, <1>4, <2>1 DEF LoadLevelHeads, tables, Belong
<1>5. CASE GetInitialData
  <2>1. DOMAIN orig' \subseteq DOMAIN orig \cup Listed(job.room)
    BY <1>5 DEF GetInitialData
  <2>2. QED BY <1>1, <1>5, <2>1 DEF GetInitialData, tables, Belong, Listed
<1>6. CASE GetMissing
  <2>1. DOMAIN orig' = DOMAIN orig \cup Missing
    BY <1>6 DEF GetMissing
  <2>2. \A g \in DOMAIN orig : g \in DOMAIN db /\ orig[g].prev = db[g].prev
    BY <1>6 DEF Inv, MapInv, GetMissing
  <2>3. \A g \in Missing : f[g] = job.room
    BY <1>1, <2>2 DEF Missing, Belong
  <2>4. QED BY <1>1, <1>6, <2>1, <2>3 DEF GetMissing, tables, process, Belong
<1>7. CASE Compress
  <2>1. /\ orig' = orig
        /\ \A head \in Heads(levels') :
             head \in Heads(levels) \/ (head \in DOMAIN orig /\ orig[head].in_range)
    BY <1>7, ChunkSteps DEF Compress, Inv, ChunkInv
  <2>2. DOMAIN orig \subseteq DOMAIN db
    BY DEF Inv, MapInv
  <2>3. QED BY <1>1, <1>7, <2>1, <2>2 DEF Compress, tables, process, Belong
<1>8. CASE SendGroup
  <2>1. PICK g \in pending :
          db' = [db EXCEPT ![g] = [prev |-> newMap[g].prev, delta |-> newMap[g].delta]]
    <3>1. pending \in SUBSET Nat /\ pending # {}
      BY <1>8, MaxGroupAssumption DEF SendGroup, Inv, TypeOK, MapInv, Groups
    <3>2. Min(pending) \in pending
      BY <3>1, MinLeast
    <3>3. QED BY <1>8, <3>2 DEF SendGroup
  <2>2. DOMAIN newMap = DOMAIN orig /\ WellFormed(newMap)
    BY <1>8, ChunkFacts DEF SendGroup, Inv, ChunkInv
  <2>3. g \in DOMAIN orig /\ DOMAIN orig \subseteq DOMAIN db
    BY DEF Inv, TypeOK, MapInv
  <2>4. newMap[g].prev # NoGroup => newMap[g].prev \in DOMAIN orig
    BY <2>2, <2>3 DEF WellFormed
  <2>5. newMap[g].prev # NoGroup => f[newMap[g].prev] = f[g]
    BY <1>1, <2>3, <2>4 DEF Belong
  <2>6. /\ DOMAIN db' = DOMAIN db
        /\ \A h \in DOMAIN db : db'[h].prev = IF h = g THEN newMap[g].prev ELSE db[h].prev
    BY <2>1, <2>3
  <2>7. \A h \in DOMAIN db' : db'[h].prev # NoGroup => f[db'[h].prev] = f[h]
    BY <1>1, <2>5, <2>6 DEF Belong
  <2>8. QED BY <1>1, <1>8, <2>6, <2>7 DEF SendGroup, compressor, Belong
<1>9. CASE SaveState
  <2>1. levels \in Seq(Level)
    BY SameTypes DEF Inv, TypeOK, ChunkTypes
  <2>2. QED BY <1>1, <1>9, <2>1, WriteRoom DEF SaveState, Belong
<1>10. CASE SkipChunk
  BY <1>1, <1>10, DefaultLevels, WriteRoom DEF SkipChunk
<1>11. CASE SaveLowest
  <2>1. job'.room = job.room
    BY <1>11 DEF SaveLowest, Inv, TypeOK
  <2>2. QED BY <1>1, <1>11, <2>1 DEF SaveLowest, compressor, Belong
<1>12. CASE FindMaxGroup
  <2>1. job'.room = job.room
    BY <1>12 DEF FindMaxGroup, Inv, TypeOK
  <2>2. QED BY <1>1, <1>12, <2>1 DEF FindMaxGroup, tables, compressor, Belong
<1>13. CASE UNCHANGED <<db, roomOf, saved>> /\ orig' = <<>> /\ pc' \notin Finding \cup Working
  BY <1>1, <1>13, EmptyMap DEF Belong
<1>14. CASE UNCHANGED <<db, roomOf, saved, orig, levels, job>>
            /\ (pc' \in Finding \cup Working => pc \in Finding \cup Working)
  BY <1>1, <1>14 DEF Belong
<1>15. CASE PickRoom
  BY <1>1, <1>15, EmptyMap DEF PickRoom, tables, compressor, Belong, Inv, MapInv
<1>16. QED
  BY <1>2, <1>3, <1>4, <1>5, <1>6, <1>7, <1>8, <1>9, <1>10, <1>11, <1>12, <1>13, <1>14, <1>15
     DEF Next, Start, Step, Crash, vars, tables, process, compressor, End, Stop, Clear,
         NoRoomLeft, CannotReadState, NothingFound, AllLoaded, Panic, Abort, Accept, AllSent

-----------------------------------------------------------------------------
\* The groups that get new rows are in the range of the chunk.
CopyInv ==
  /\ pc \in Working => CP!CopiesKept
  /\ pc = "send" => \A g \in pending : orig[g].in_range

LEMMA InitCopy == Init => CopyInv
BY DEF Init, CopyInv, Working

\* Steps of the rest of the process leave the map alone.
LEMMA CopiesRest ==
  ASSUME UNCHANGED compressor, CP!CopiesKept
  PROVE  CP!CopiesKept'
BY DEF compressor, CP!CopiesKept, CP!Current, CP!Todo

LEMMA NextCopy == Inv /\ CopyInv /\ [Next]_vars => CopyInv'
<1> SUFFICES ASSUME Inv, CopyInv, [Next]_vars PROVE CopyInv'
  OBVIOUS
<1> USE DEF Working
<1>1. CASE AllLoaded
  <2>1. newMap = <<>> /\ base = NoGroup
    BY <1>1 DEF AllLoaded, Inv, MapInv
  <2>2. CP!CopiesKept
    BY <2>1, EmptyMap DEF CP!CopiesKept
  <2>3. QED BY <1>1, <2>2, CopiesRest DEF AllLoaded, CopyInv
<1>2. CASE Compress
  <2>1. CP!Next /\ CP!Inv /\ CP!CopiesKept
    BY <1>2, SameActions DEF Compress, Inv, ChunkInv, CopyInv
  <2>2. CP!CopiesKept'
    BY <2>1, CP!NextCopies, KeysFinite, KeysAssumption, NoEventAssumption,
       MaxGroupAssumption, NoGroupAssumption
  <2>3. QED BY <1>2, <2>2 DEF Compress, process, CopyInv
<1>3. CASE Accept
  <2>1. DOMAIN newMap = DOMAIN orig
    BY <1>3, AcceptInv DEF Accept, Inv, ChunkInv, compressor
  <2>2. \A g \in DOMAIN newMap : orig[g].in_range \/ newMap[g] = orig[g]
    BY <1>3 DEF Accept, CopyInv, CP!CopiesKept
  <2>3. \A g \in ChangedGroups : orig[g].in_range
    BY <2>1, <2>2 DEF ChangedGroups
  <2>4. UNCHANGED compressor /\ CP!CopiesKept
    BY <1>3 DEF Accept, CopyInv
  <2>5. QED BY <1>3, <2>3, <2>4, CopiesRest DEF Accept, CopyInv, compressor
<1>4. CASE SendGroup
  <2>1. UNCHANGED compressor /\ pending' \subseteq pending
    BY <1>4 DEF SendGroup, compressor
  <2>2. QED BY <1>4, <2>1, CopiesRest DEF SendGroup, CopyInv, compressor
<1>5. CASE UNCHANGED compressor /\ pc \in Working /\ pc' \in {"save", "skip"}
  BY <1>5, CopiesRest DEF CopyInv
<1>6. CASE pc' \notin Working
  BY <1>6 DEF CopyInv
<1>7. CASE UNCHANGED <<process, compressor>>
  BY <1>7, CopiesRest DEF CopyInv, process, compressor
<1>8. QED
  BY <1>1, <1>2, <1>3, <1>4, <1>5, <1>6, <1>7
     DEF Next, Start, Step, Crash, StoreGroup, vars, process, End, Stop, PickRoom, NoRoomLeft,
         SaveLowest, ReadState, CannotReadState, FindMaxGroup, NothingFound, LoadLevelHeads,
         GetInitialData, GetMissing, Panic, Abort, AllSent, SaveState, SkipChunk, ChunkDone

\* A group that is sent is not behind the progress of its room.
LEMMA SentIsUncompressed ==
  ASSUME Inv, ProgressInv, RoomInv, CopyInv, pc = "send",
         NEW g \in pending, g \in DOMAIN roomOf
  PROVE  Uncompressed(g)
<1> USE DEF Finding, Working
<1>1. g \in DOMAIN orig /\ orig[g].in_range
  BY DEF CopyInv, Inv, TypeOK
<1>2. AfterStart(g)
  BY <1>1 DEF Inv, MapInv
<1>3. roomOf[g] = job.room
  BY <1>1 DEF RoomInv, Belong
<1>4. job.room \in Rooms
  BY DEF Inv, TypeOK
<1>5. CASE saved[job.room] = <<>>
  <2>1. progress[job.room] = NoGroup
    BY <1>4, <1>5, EmptyMap DEF ProgressInv
  <2>2. QED BY <1>3, <2>1 DEF Uncompressed
<1>6. CASE saved[job.room] # <<>>
  <2>1. job.start = progress[job.room]
    BY <1>6 DEF Inv, JobInv
  <2>2. QED BY <1>2, <1>3, <2>1 DEF AfterStart, Uncompressed
<1>7. QED BY <1>5, <1>6

\* Once a chunk is done with, the automatic tool never writes its rows again:
\* no later chunk, no crash and no skipped chunk gets it to
\* (send_changes_to_db).
THEOREM DoneRowsStay ==
  ASSUME SomeLevels, EdgesStayInRooms
  PROVE  Spec => DoneStaysDone
<1> DEFINE Stays == \A g \in DOMAIN roomOf : ~ Uncompressed(g) => db'[g] = db[g]
<1>1. Inv /\ ProgressInv /\ RoomInv /\ CopyInv /\ [Next]_vars => [Stays]_vars
  <2>1. SUFFICES ASSUME Inv, ProgressInv, RoomInv, CopyInv, Next,
                        NEW g \in DOMAIN roomOf, ~ Uncompressed(g)
                 PROVE  db'[g] = db[g]
    OBVIOUS
  <2>2. CASE SendGroup
    <3>1. PICK h \in pending :
            db' = [db EXCEPT ![h] = [prev |-> newMap[h].prev, delta |-> newMap[h].delta]]
      <4>1. pending \in SUBSET Nat /\ pending # {}
        BY <2>1, <2>2, MaxGroupAssumption DEF SendGroup, Inv, TypeOK, MapInv, Groups
      <4>2. Min(pending) \in pending
        BY <4>1, MinLeast
      <4>3. QED BY <2>2, <4>2 DEF SendGroup
    <3>2. g # h
      BY <2>1, <2>2, SentIsUncompressed DEF SendGroup
    <3>3. QED BY <3>1, <3>2
  <2>3. CASE StoreGroup
    <3>1. PICK new \in Groups \ DOMAIN db : \E row : db' = Insert(db, new, row)
      BY <2>3, NewGroupsAssumption DEF StoreGroup
    <3>2. g \in DOMAIN db
      BY <2>1 DEF Inv, TypeOK
    <3>3. QED BY <3>1, <3>2 DEF Insert
  <2>4. CASE db' = db
    BY <2>4
  <2>5. QED
    BY <2>1, <2>2, <2>3, <2>4
       DEF Next, Start, Step, Crash, tables, PickRoom, NoRoomLeft, SaveLowest, ReadState,
           CannotReadState, FindMaxGroup, NothingFound, LoadLevelHeads, GetInitialData,
           GetMissing, AllLoaded, Compress, Panic, Abort, Accept, AllSent, SaveState,
           SkipChunk, WriteState
<1>2. Inv /\ ArgsInv /\ ProgressInv /\ [Next]_vars => ProgressInv'
  BY NextProgress
<1>3. Init => RoomInv
  BY InitRoom
<1>4. Spec => [][Stays]_vars
  BY <1>1, <1>2, <1>3, InitArgs, NextArgs, InitProgress, NextRoom, InitCopy, NextCopy,
     InitInv, NextInv, PTL DEF Spec
<1>5. QED BY <1>4 DEF DoneStaysDone
=============================================================================
