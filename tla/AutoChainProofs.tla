--------------------------- MODULE AutoChainProofs ---------------------------
(***************************************************************************)
(* The lengths synapse_auto_compressor saves for the levels of a room      *)
(* bound the chains in the database, and so do the sizes of the levels for *)
(* the groups of a chunk that has been sent: for every database whose      *)
(* edges stay in their rooms, any crashes, chunks done again or skipped,   *)
(* and levels a previous run left behind.                                  *)
(*                                                                         *)
(* ChainProofs says so of the map of a chunk.  What remains is that the    *)
(* chains in the map are those in the tables, before and after the new     *)
(* rows are sent, and that no row that is sent is on the chain of a head   *)
(* that has been saved.                                                    *)
(***************************************************************************)
EXTENDS AutoProgressProofs

\* The words of Levels mean the same here and in ChainProofs.
LEMMA SameChainWords ==
  /\ \A map : ChainLength(map) = CP!ChainLength(map)
  /\ \A ls, i : AllowedLength(ls, i) = CP!AllowedLength(ls, i)
  /\ \A ls : MaxChain(ls) = CP!MaxChain(ls)
<1>1. \A map : ChainLength(map) = CP!ChainLength(map)
  BY DEF ChainLength, CP!ChainLength
<1>2. \A ns : Reach(ns) = CP!Reach(ns)
  BY DEF Reach, CP!Reach
<1>3. \A n : Excess(n) = CP!Excess(n)
  BY DEF Excess, CP!Excess
<1>4. \A ls, i : AllowedLength(ls, i) = CP!AllowedLength(ls, i)
  BY <1>2, <1>3 DEF AllowedLength, CP!AllowedLength
<1>5. \A ls : MaxChain(ls) = CP!MaxChain(ls)
  BY <1>2, <1>3 DEF MaxChain, CP!MaxChain
<1>6. QED BY <1>1, <1>4, <1>5

-----------------------------------------------------------------------------
\* The heads are in the map, and their chains as short as the lengths say.
Bounded(ls, map) ==
  /\ CP!ChainLevels(ls)
  /\ \A i \in DOMAIN ls :
       ls[i].head # NoGroup =>
         /\ ls[i].head \in DOMAIN map
         /\ ChainLength(map)[ls[i].head] =< AllowedLength(ls, i)

\* A head that has not been loaded is behind the start of the chunk.
LostBounded ==
  \A i \in DOMAIN levels :
    levels[i].head \notin DOMAIN orig \cup {NoGroup} =>
      /\ levels[i].head \in DOMAIN db
      /\ job.start # NoGroup /\ levels[i].head =< job.start
      /\ ChainLength(db)[levels[i].head] =< AllowedLength(levels, i)

\* Which rows of the chunk are in the tables: the old ones, then the new ones
\* of the groups that are not pending.
SentInv ==
  /\ pc = "compress" => \A g \in DOMAIN orig : db[g].prev = orig[g].prev
  /\ pc \in {"send", "save"} =>
       /\ DOMAIN newMap = DOMAIN orig
       /\ \A g \in DOMAIN orig \ pending : db[g].prev = newMap[g].prev
  /\ pc = "save" => pending = {}

ChainsInv ==
  /\ \A r \in Rooms : Bounded(saved[r], db)
  /\ pc \in Finding => Bounded(levels, db)
  /\ pc \in Working => CP!ChainInv /\ CP!RangeKept /\ LostBounded
  /\ SentInv

LEMMA EmptyBounded == \A map : Bounded(<<>>, map)
BY EmptyMap DEF Bounded, CP!ChainLevels

LEMMA InitChainsInv == Init => ChainsInv
BY EmptyBounded DEF Init, ChainsInv, SentInv, Finding, Working

\* What a level allows is a number.
LEMMA AllowedIsNumber ==
  ASSUME NEW ls \in Seq(Level), NEW i \in DOMAIN ls
  PROVE  AllowedLength(ls, i) \in Int
<1>1. ls \in Seq(CP!Level)
  BY SameWords
<1>2. CP!AllowedLength(ls, i) \in Nat
  BY <1>1, CP!AllowedNumber, KeysFinite, KeysAssumption, NoEventAssumption,
     MaxGroupAssumption, NoGroupAssumption
<1>3. QED BY <1>2, SameChainWords

\* Levels that have just been made have no chains.
LEMMA DefaultBounded ==
  ASSUME Inv
  PROVE  \A map : Bounded(args.default_levels, map)
<1>1. CASE args \in Arguments
  <2>1. SUFFICES ASSUME NEW i \in DOMAIN args.default_levels
                 PROVE  /\ args.default_levels[i].head = NoGroup
                        /\ CP!ChainLevel(args.default_levels[i])
    BY DEF Bounded, CP!ChainLevels
  <2>2. args.default_levels \in Seq(Level) /\ args.default_levels[i].len = 0
    BY <1>1, ArgumentsAssumption
  <2>3. args.default_levels[i].head = NoGroup
    BY DefaultLevels DEF Heads
  <2>4. args.default_levels[i].max \in Nat
    <3>1. args.default_levels[i] \in Level
      BY <2>1, <2>2
    <3>2. QED BY <3>1 DEF Level
  <2>5. QED BY <2>2, <2>3, <2>4 DEF CP!ChainLevel, CP!Excess
<1>2. CASE args = NoArgs
  <2>1. args.default_levels = <<>>
    BY <1>2 DEF NoArgs
  <2>2. QED BY <2>1, EmptyBounded
<1>3. QED BY <1>1, <1>2 DEF Inv, TypeOK

\* Heads whose chains stay as they are stay bounded.
LEMMA KeepBounded ==
  ASSUME NEW ls, NEW map, NEW other, Bounded(ls, map),
         \A head \in Heads(ls) :
           head \in DOMAIN other /\ ChainLength(other)[head] = ChainLength(map)[head]
  PROVE  Bounded(ls, other)
BY DEF Bounded, Heads

\* Steps of the rest of the process leave what is true of the chunk alone.
LEMMA ChainRests ==
  ASSUME UNCHANGED <<orig, levels, newMap, base>>, CP!ChainInv, CP!RangeKept
  PROVE  CP!ChainInv' /\ CP!RangeKept'
BY DEF CP!ChainInv, CP!RangeKept, CP!ChainLevels, CP!LengthsBoundChains, CP!ChainsBounded,
       CP!HeadsToCome, CP!BaseBound, CP!Todo, CP!Current

-----------------------------------------------------------------------------
\* A new group makes no chain longer.
LEMMA StoreGroupChains ==
  ASSUME Inv, StoreGroup
  PROVE  /\ DOMAIN db \subseteq DOMAIN db'
         /\ \A g \in DOMAIN db : db'[g].prev = db[g].prev
         /\ \A g \in DOMAIN db : ChainLength(db')[g] = ChainLength(db)[g]
<1>1. PICK g \in Groups \ DOMAIN db, room \in Rooms, row \in Row, m \in StateMaps :
        /\ db' = Insert(db, g, row)
        /\ roomOf' = Insert(roomOf, g, room)
        /\ HasRows(db') /\ WellFormed(db')
        /\ Collapse(db') = Insert(Collapse(db), g, m)
  BY StoreGroupStates
<1>2. DOMAIN db' = DOMAIN db \cup {g} /\ \A h \in DOMAIN db : db'[h] = db[h]
  BY <1>1 DEF Insert
<1>3. HasRows(db) /\ WellFormed(db)
  BY DEF Inv, StoredInv
<1>4. \A h \in DOMAIN db : db[h].prev # NoGroup => db[h].prev \in DOMAIN db
  BY <1>3 DEF WellFormed
<1> DEFINE part == DOMAIN db
<1>5. \A h \in part : ChainLength(db')[h] = ChainLength(db)[h]
  <2>1. /\ part \subseteq DOMAIN db /\ part \subseteq DOMAIN db'
        /\ \A h \in part : /\ db'[h].prev = db[h].prev
                           /\ db[h].prev # NoGroup => db[h].prev \in part
    BY <1>2, <1>4
  <2> HIDE DEF part
  <2>2. QED BY <1>1, <1>3, <2>1, PartChains
<1>6. QED BY <1>2, <1>5

LEMMA StoreGroupChainsInv ==
  ASSUME Inv, ChainsInv, StoreGroup
  PROVE  ChainsInv'
<1>1. /\ DOMAIN db \subseteq DOMAIN db'
      /\ \A g \in DOMAIN db : db'[g].prev = db[g].prev
      /\ \A g \in DOMAIN db : ChainLength(db')[g] = ChainLength(db)[g]
  BY StoreGroupChains
<1>2. UNCHANGED <<saved, pc, pending, job, orig, levels, newMap, base>>
  BY DEF StoreGroup, process, compressor
<1>3. ASSUME NEW ls, Bounded(ls, db)
      PROVE  Bounded(ls, db')
  <2>1. \A head \in Heads(ls) : head \in DOMAIN db
    BY <1>3 DEF Bounded, Heads
  <2>2. QED BY <1>1, <1>3, <2>1, KeepBounded
<1>4. \A r \in Rooms : Bounded(saved'[r], db')
  BY <1>2, <1>3 DEF ChainsInv
<1>5. pc \in Finding => Bounded(levels', db')
  BY <1>2, <1>3 DEF ChainsInv
<1>6. pc \in Working => CP!ChainInv' /\ CP!RangeKept'
  BY <1>2, ChainRests DEF ChainsInv
<1>7. pc \in Working => LostBounded'
  BY <1>1, <1>2 DEF ChainsInv, LostBounded
<1>8. SentInv'
  <2>1. DOMAIN orig \subseteq DOMAIN db
    BY DEF Inv, MapInv
  <2>2. QED BY <1>1, <1>2, <2>1 DEF ChainsInv, SentInv
<1>9. QED BY <1>2, <1>4, <1>5, <1>6, <1>7, <1>8 DEF ChainsInv
-----------------------------------------------------------------------------
\* The map is loaded: its chains are those of the tables.
LEMMA AllLoadedChainsInv ==
  ASSUME Inv, ChainsInv, AllLoaded
  PROVE  ChainsInv'
<1> USE DEF Finding, Working
<1>1. /\ UNCHANGED <<tables, job, compressor>>
      /\ pc = "missing" /\ pc' = "compress"
  BY DEF AllLoaded
<1>2. /\ IsGroupMap(orig) /\ levels \in Seq(Level)
      /\ newMap = <<>> /\ base = NoGroup
      /\ DOMAIN orig \subseteq DOMAIN db
      /\ \A g \in DOMAIN orig : orig[g].prev = db[g].prev
  BY <1>1, SameTypes DEF Inv, TypeOK, ChunkTypes, MapInv
<1>3. WellFormed(orig) /\ \A head \in Heads(levels), g \in DOMAIN orig :
                             orig[g].in_range => head < g
  <2>1. CP!Inv' /\ newMap' = <<>> /\ base' = NoGroup /\ orig' = orig /\ levels' = levels
    BY <1>1, <1>2, AllLoadedInv DEF Inv, ChunkInv, compressor
  <2>2. CP!WellFormed(orig)
    BY <2>1 DEF CP!Inv
  <2>3. \A head \in Heads(levels), g \in DOMAIN orig : orig[g].in_range => head < g
    <3>1. SUFFICES ASSUME NEW head \in Heads(levels), NEW g \in DOMAIN orig, orig[g].in_range
                   PROVE  head < g
      OBVIOUS
    <3>2. job.start # NoGroup /\ head =< job.start /\ AfterStart(g)
      BY <1>1, <3>1 DEF Inv, JobInv, MapInv, HeadsUpTo
    <3>3. head \in Groups /\ job.start \in Groups /\ g \in Groups
      BY <1>2, <3>2, HeadsAreGroups DEF IsGroupMap, Inv, TypeOK, OptGroup
    <3>4. QED BY <3>2, <3>3, NoGroupAssumption, MaxGroupAssumption DEF AfterStart, Groups
  <2>4. QED BY <2>2, <2>3, SameWords
<1>4. HasRows(orig) /\ HasRows(db) /\ WellFormed(db)
  BY <1>2, EntriesAreRows DEF Inv, StoredInv
<1>5. \A g \in DOMAIN orig : ChainLength(orig)[g] = ChainLength(db)[g]
  <2> DEFINE part == DOMAIN orig
  <2>1. /\ part \subseteq DOMAIN orig /\ part \subseteq DOMAIN db
        /\ \A g \in part : /\ orig[g].prev = db[g].prev
                           /\ db[g].prev # NoGroup => db[g].prev \in part
    BY <1>2, <1>3 DEF WellFormed
  <2> HIDE DEF part
  <2>2. \A g \in part : ChainLength(orig)[g] = ChainLength(db)[g]
    BY <1>3, <1>4, <2>1, PartChains
  <2>3. QED BY <2>2 DEF part
<1>6. Bounded(levels, db)
  BY <1>1 DEF ChainsInv
<1>7. CP!ChainInv
  <2>1. \A i \in DOMAIN levels :
          levels[i].head \in DOMAIN orig =>
            CP!ChainLength(orig)[levels[i].head] =< CP!AllowedLength(levels, i)
    <3>1. SUFFICES ASSUME NEW i \in DOMAIN levels, levels[i].head \in DOMAIN orig
                   PROVE  ChainLength(orig)[levels[i].head] =< AllowedLength(levels, i)
      BY SameChainWords
    <3>2. levels[i].head # NoGroup
      BY <1>2, <3>1, NoGroupAssumption DEF IsGroupMap, Groups
    <3>3. QED BY <1>5, <1>6, <3>1, <3>2 DEF Bounded
  <2>2. CP!ChainLevels(levels)
    BY <1>6 DEF Bounded
  <2>3. /\ levels \in Seq(CP!Level)
        /\ \A head \in CP!Heads(levels), g \in DOMAIN orig : orig[g].in_range => head < g
        /\ DOMAIN orig \subseteq CP!Groups
    BY <1>2, <1>3, SameWords DEF IsGroupMap, Groups, CP!Groups
  <2>4. QED
    BY <1>2, <2>1, <2>2, <2>3, CP!CallChains, KeysFinite, KeysAssumption, NoEventAssumption,
       MaxGroupAssumption, NoGroupAssumption
<1>8. CP!RangeKept
  BY <1>2, EmptyMap DEF CP!RangeKept
<1>9. LostBounded
  <2>1. SUFFICES ASSUME NEW i \in DOMAIN levels, levels[i].head # NoGroup
                 PROVE  /\ levels[i].head \in DOMAIN db
                        /\ job.start # NoGroup /\ levels[i].head =< job.start
                        /\ ChainLength(db)[levels[i].head] =< AllowedLength(levels, i)
    BY DEF LostBounded
  <2>2. levels[i].head \in Heads(levels)
    BY <2>1 DEF Heads
  <2>3. QED BY <1>1, <1>6, <2>1, <2>2 DEF Inv, JobInv, HeadsUpTo, Bounded
<1>10. CP!ChainInv' /\ CP!RangeKept' /\ LostBounded'
  BY <1>1, <1>7, <1>8, <1>9, ChainRests DEF tables, compressor, LostBounded
<1>11. SentInv'
  BY <1>1, <1>2 DEF tables, compressor, SentInv
<1>12. QED BY <1>1, <1>10, <1>11 DEF tables, ChainsInv

\* The compressor keeps the lengths true, and leaves alone the levels whose
\* heads have not been loaded.
LEMMA CompressChainsInv ==
  ASSUME Inv, CopyInv, ChainsInv, Compress
  PROVE  ChainsInv'
<1> USE DEF Finding, Working
<1>1. UNCHANGED <<tables, process>> /\ pc = "compress" /\ CP!Next
  BY SameActions DEF Compress
<1>2. CP!Inv /\ CP!CopiesKept /\ CP!ChainInv /\ CP!RangeKept /\ LostBounded
  BY <1>1 DEF Inv, ChunkInv, CopyInv, ChainsInv
<1>3. CP!ChainInv' /\ CP!RangeKept'
  BY <1>1, <1>2, CP!NextChains, CP!NextRange, KeysFinite, KeysAssumption, NoEventAssumption,
     MaxGroupAssumption, NoGroupAssumption
<1>4. orig' = orig
  BY <1>2, ChunkSteps DEF Compress
<1>5. /\ DOMAIN levels' = DOMAIN levels
      /\ \A i \in DOMAIN levels :
           levels'[i].head \notin DOMAIN orig =>
             /\ levels'[i].head = levels[i].head
             /\ CP!AllowedLength(levels', i) = CP!AllowedLength(levels, i)
  BY <1>1, <1>2, CP!OtherHeads, KeysFinite, KeysAssumption, NoEventAssumption,
     MaxGroupAssumption, NoGroupAssumption
<1>6. \A i \in DOMAIN levels :
        levels'[i].head \notin DOMAIN orig =>
          AllowedLength(levels', i) = AllowedLength(levels, i)
  BY <1>5, SameChainWords
<1>7. LostBounded'
  BY <1>1, <1>2, <1>4, <1>5, <1>6 DEF tables, process, LostBounded
<1>8. SentInv'
  BY <1>1, <1>4 DEF tables, process, ChainsInv, SentInv
<1>9. QED BY <1>1, <1>3, <1>7, <1>8 DEF tables, process, ChainsInv

\* Before anything is sent, the rows that do not change are in the tables.
LEMMA AcceptChainsInv ==
  ASSUME Inv, ChainsInv, Accept
  PROVE  ChainsInv'
<1> USE DEF Finding, Working
<1>1. /\ UNCHANGED <<tables, job, compressor>>
      /\ pc = "compress" /\ pc' = "send"
      /\ pending' = ChangedGroups
  BY DEF Accept
<1>2. DOMAIN newMap = DOMAIN orig
  BY <1>1, AcceptInv DEF Inv, ChunkInv, compressor
<1>3. \A g \in DOMAIN orig \ ChangedGroups : db[g].prev = newMap[g].prev
  BY <1>1 DEF ChainsInv, SentInv, ChangedGroups
<1>4. SentInv'
  BY <1>1, <1>2, <1>3 DEF tables, compressor, SentInv
<1>5. CP!ChainInv' /\ CP!RangeKept' /\ LostBounded'
  BY <1>1, ChainRests DEF tables, compressor, ChainsInv, LostBounded
<1>6. QED BY <1>1, <1>4, <1>5 DEF tables, ChainsInv

-----------------------------------------------------------------------------
\* A group that is sent is on no chain but those of its room after the start
\* of the chunk.
LEMMA SendGroupChains ==
  ASSUME Inv, CopyInv, SendGroup, NEW f, Belong(f)
  PROVE  /\ DOMAIN db' = DOMAIN db
         /\ \A h \in DOMAIN db :
              f[h] # job.room \/ (job.start # NoGroup /\ h =< job.start) =>
                ChainLength(db')[h] = ChainLength(db)[h]
<1>1. PICK g \in pending :
        db' = [db EXCEPT ![g] = [prev |-> newMap[g].prev, delta |-> newMap[g].delta]]
  <2>1. pending \in SUBSET Nat /\ pending # {}
    BY MaxGroupAssumption DEF SendGroup, Inv, TypeOK, MapInv, Groups
  <2>2. Min(pending) \in pending
    BY <2>1, MinLeast
  <2>3. QED BY <2>2 DEF SendGroup
<1>2. g \in DOMAIN orig /\ orig[g].in_range
  BY DEF Inv, TypeOK, CopyInv, SendGroup
<1>3. f[g] = job.room /\ (job.start = NoGroup \/ g > job.start)
  BY <1>2 DEF Belong, Inv, MapInv, AfterStart
<1>4. /\ HasRows(db) /\ WellFormed(db)
      /\ HasRows(db') /\ WellFormed(db')
  BY SendStates DEF Inv, StoredInv
<1>5. DOMAIN db' = DOMAIN db /\ \A h \in DOMAIN db : h # g => db'[h] = db[h]
  BY <1>1
<1> DEFINE part == {h \in DOMAIN db :
                      f[h] # job.room \/ (job.start # NoGroup /\ h =< job.start)}
<1>6. /\ DOMAIN db \subseteq Nat
      /\ job.start # NoGroup => job.start \in Nat
  BY MaxGroupAssumption DEF Inv, TypeOK, Groups, OptGroup
<1>7. g \notin part
  BY <1>2, <1>3, <1>6 DEF Inv, MapInv
<1>8. ASSUME NEW h \in part, db[h].prev # NoGroup
      PROVE  db[h].prev \in part
  <2>1. db[h].prev \in DOMAIN db /\ db[h].prev < h /\ f[db[h].prev] = f[h]
    BY <1>4, <1>8 DEF WellFormed, Belong
  <2>2. QED BY <1>6, <2>1
<1>9. /\ part \subseteq DOMAIN db /\ part \subseteq DOMAIN db'
      /\ \A h \in part : /\ db'[h].prev = db[h].prev
                         /\ db[h].prev # NoGroup => db[h].prev \in part
  BY <1>5, <1>7, <1>8
<1> HIDE DEF part
<1>10. \A h \in part : ChainLength(db')[h] = ChainLength(db)[h]
  BY <1>4, <1>9, PartChains
<1>11. QED BY <1>5, <1>10 DEF part

LEMMA SendGroupChainsInv ==
  ASSUME Inv, RoomInv, CopyInv, ChainsInv, SendGroup
  PROVE  ChainsInv'
<1> USE DEF Finding, Working
<1>1. PICK f : Belong(f)
  BY DEF RoomInv
<1>2. /\ DOMAIN db' = DOMAIN db
      /\ \A h \in DOMAIN db :
           f[h] # job.room \/ (job.start # NoGroup /\ h =< job.start) =>
             ChainLength(db')[h] = ChainLength(db)[h]
  BY <1>1, SendGroupChains
<1>3. /\ UNCHANGED <<saved, progress, job, pc, orig, levels, newMap, base>>
      /\ pc = "send"
  BY DEF SendGroup, compressor
<1>4. ASSUME NEW r \in Rooms
      PROVE  Bounded(saved[r], db')
  <2>1. \A head \in Heads(saved[r]) : head \in DOMAIN db /\ f[head] = r
    BY <1>1 DEF Belong
  <2>2. ASSUME NEW head \in Heads(saved[r]), r = job.room
        PROVE  job.start # NoGroup /\ head =< job.start
    <3>1. saved[r] # <<>>
      BY <2>2, EmptyMap
    <3>2. job.start = progress[r]
      BY <1>3, <2>2, <3>1 DEF Inv, JobInv
    <3>3. QED BY <2>2, <3>2 DEF Inv, StoredInv, HeadsUpTo
  <2>3. \A head \in Heads(saved[r]) :
          head \in DOMAIN db' /\ ChainLength(db')[head] = ChainLength(db)[head]
    BY <1>2, <2>1, <2>2
  <2>4. Bounded(saved[r], db)
    BY DEF ChainsInv
  <2>5. QED BY <2>3, <2>4, KeepBounded
<1>5. CP!ChainInv' /\ CP!RangeKept'
  BY <1>3, ChainRests DEF ChainsInv
<1>6. LostBounded'
  BY <1>2, <1>3 DEF ChainsInv, LostBounded
<1>7. SentInv'
  <2>1. PICK g \in pending :
          /\ db' = [db EXCEPT ![g] = [prev |-> newMap[g].prev, delta |-> newMap[g].delta]]
          /\ pending' = pending \ {g}
    <3>1. pending \in SUBSET Nat /\ pending # {}
      BY MaxGroupAssumption DEF SendGroup, Inv, TypeOK, MapInv, Groups
    <3>2. Min(pending) \in pending
      BY <3>1, MinLeast
    <3>3. QED BY <3>2 DEF SendGroup
  <2>2. DOMAIN orig \subseteq DOMAIN db
    BY DEF Inv, MapInv
  <2>3. \A h \in DOMAIN orig : db'[h].prev = IF h = g THEN newMap[h].prev ELSE db[h].prev
    BY <2>1, <2>2
  <2>4. \A h \in DOMAIN orig \ pending' : db'[h].prev = newMap[h].prev
    BY <1>3, <2>1, <2>3 DEF ChainsInv, SentInv
  <2>5. QED BY <1>3, <2>4 DEF ChainsInv, SentInv
<1>8. QED BY <1>3, <1>4, <1>5, <1>6, <1>7 DEF ChainsInv

\* The chains of a chunk that has been sent are those of the new map.
LEMMA SentChains ==
  ASSUME Inv, ChainsInv, pc = "save"
  PROVE  /\ DOMAIN newMap = DOMAIN orig
         /\ \A g \in DOMAIN newMap :
              g \in DOMAIN db /\ ChainLength(db)[g] = ChainLength(newMap)[g]
<1> DEFINE part == DOMAIN newMap
<1>1. DOMAIN newMap = DOMAIN orig /\ \A g \in DOMAIN newMap : db[g].prev = newMap[g].prev
  BY DEF ChainsInv, SentInv
<1>2. HasRows(newMap) /\ WellFormed(newMap) /\ HasRows(db) /\ WellFormed(db)
  <2>1. CP!Inv
    BY DEF Inv, ChunkInv, Working
  <2>2. QED BY <2>1, ChunkFacts, EntriesAreRows DEF Inv, StoredInv
<1>3. /\ part \subseteq DOMAIN newMap /\ part \subseteq DOMAIN db
      /\ \A g \in part : /\ db[g].prev = newMap[g].prev
                         /\ newMap[g].prev # NoGroup => newMap[g].prev \in part
  BY <1>1, <1>2 DEF WellFormed, Inv, MapInv
<1> HIDE DEF part
<1>4. \A g \in part : ChainLength(db)[g] = ChainLength(newMap)[g]
  BY <1>2, <1>3, PartChains
<1>5. QED BY <1>1, <1>3, <1>4 DEF part

\* So what is saved of the levels is true of the tables.
LEMMA LevelsBounded ==
  ASSUME Inv, ChainsInv, pc = "save"
  PROVE  Bounded(levels, db)
<1>1. CP!ChainLevels(levels) /\ CP!LengthsBoundChains /\ LostBounded
  BY DEF ChainsInv, Working, CP!ChainInv
<1>2. SUFFICES ASSUME NEW i \in DOMAIN levels, levels[i].head # NoGroup
               PROVE  /\ levels[i].head \in DOMAIN db
                      /\ ChainLength(db)[levels[i].head] =< AllowedLength(levels, i)
  BY <1>1 DEF Bounded
<1>3. CASE levels[i].head \in DOMAIN orig
  <2>1. levels[i].head \in DOMAIN newMap
    BY <1>3, SentChains
  <2>2. CP!ChainLength(newMap)[levels[i].head] =< CP!AllowedLength(levels, i)
    BY <1>1, <2>1 DEF CP!LengthsBoundChains
  <2>3. ChainLength(newMap)[levels[i].head] =< AllowedLength(levels, i)
    BY <2>2, SameChainWords
  <2>4. QED BY <2>1, <2>3, SentChains
<1>4. CASE levels[i].head \notin DOMAIN orig
  BY <1>1, <1>2, <1>4 DEF LostBounded
<1>5. QED BY <1>3, <1>4

\* Saved before the levels that a previous run left behind, levels allow what
\* they did.
LEMMA WriteChainsInv ==
  ASSUME Inv, ChainsInv, pc \in Working, NEW info \in Seq(Level), Bounded(info, db),
         WriteState(info), pc' \notin Finding \cup Working
  PROVE  ChainsInv'
<1> DEFINE room == job.room
           old  == saved[room]
           new  == info \o SubSeq(old, Len(info) + 1, Len(old))
<1>1. room \in Rooms /\ old \in Seq(Level) /\ Bounded(old, db)
  BY DEF Inv, TypeOK, ChainsInv
<1>2. /\ new \in Seq(Level)
      /\ \A i \in DOMAIN new :
           \/ /\ i \in DOMAIN info /\ new[i] = info[i]
              /\ AllowedLength(info, i) =< AllowedLength(new, i)
           \/ /\ i \in DOMAIN old /\ new[i] = old[i]
              /\ AllowedLength(old, i) =< AllowedLength(new, i)
  <2>1. info \in Seq(CP!Level) /\ old \in Seq(CP!Level)
    BY <1>1, SameWords
  <2> HIDE DEF old
  <2>2. /\ new \in Seq(CP!Level)
        /\ \A i \in DOMAIN new :
             \/ /\ i \in DOMAIN info /\ new[i] = info[i]
                /\ CP!AllowedLength(info, i) =< CP!AllowedLength(new, i)
             \/ /\ i \in DOMAIN old /\ new[i] = old[i]
                /\ CP!AllowedLength(old, i) =< CP!AllowedLength(new, i)
    BY <2>1, CP!WrittenAllows, KeysFinite, KeysAssumption, NoEventAssumption,
       MaxGroupAssumption, NoGroupAssumption
  <2>3. QED BY <2>2, SameWords, SameChainWords
<1>3. saved' = [saved EXCEPT ![room] = new] /\ db' = db
  BY DEF WriteState
<1> HIDE DEF new, old
<1>4. ASSUME NEW i \in DOMAIN new
      PROVE  /\ CP!ChainLevel(new[i])
             /\ new[i].head # NoGroup =>
                  /\ new[i].head \in DOMAIN db
                  /\ ChainLength(db)[new[i].head] =< AllowedLength(new, i)
  <2>2. HasRows(db) /\ WellFormed(db)
    BY DEF Inv, StoredInv
  <2>3. \A g \in DOMAIN db : ChainLength(db)[g] \in Nat
    BY <2>2, ChainPositive
  <2>4. AllowedLength(new, i) \in Int
    BY <1>2, <1>4, AllowedIsNumber
  <2>5. CASE /\ i \in DOMAIN info /\ new[i] = info[i]
             /\ AllowedLength(info, i) =< AllowedLength(new, i)
    <3>1. AllowedLength(info, i) \in Int
      BY <2>5, AllowedIsNumber
    <3>2. QED BY <2>3, <2>4, <2>5, <3>1 DEF Bounded, CP!ChainLevels
  <2>6. CASE /\ i \in DOMAIN old /\ new[i] = old[i]
             /\ AllowedLength(old, i) =< AllowedLength(new, i)
    <3>1. AllowedLength(old, i) \in Int
      BY <1>1, <2>6, AllowedIsNumber
    <3>2. QED BY <1>1, <2>3, <2>4, <2>6, <3>1 DEF Bounded, CP!ChainLevels
  <2>7. QED BY <1>2, <1>4, <2>5, <2>6
<1>5. Bounded(new, db)
  BY <1>4 DEF Bounded, CP!ChainLevels
<1> HIDE DEF room
<1>6. \A r \in Rooms : Bounded(saved'[r], db')
  BY <1>1, <1>3, <1>5 DEF ChainsInv, Inv, TypeOK
<1>7. SentInv'
  BY DEF SentInv, Working
<1>8. QED BY <1>6, <1>7 DEF ChainsInv

LEMMA NextChainsInv ==
  ASSUME Inv, RoomInv, CopyInv, ChainsInv, [Next]_vars
  PROVE  ChainsInv'
<1> USE DEF Finding, Working
<1>1. CASE StoreGroup
  BY <1>1, StoreGroupChainsInv
<1>2. CASE ReadState
  <2>1. /\ UNCHANGED <<saved, db>> /\ pc' = "find" /\ job.room \in Rooms
        /\ levels' \in {args.default_levels, saved[job.room]}
    BY <1>2 DEF ReadState, tables, Inv, TypeOK
  <2>2. Bounded(levels', db')
    BY <2>1, DefaultBounded DEF ChainsInv
  <2>3. QED BY <2>1, <2>2 DEF ChainsInv, SentInv
<1>3. CASE /\ UNCHANGED <<saved, db, levels>>
           /\ pc \in Finding /\ pc' \in Finding
  BY <1>3 DEF ChainsInv, SentInv
<1>4. CASE AllLoaded
  BY <1>4, AllLoadedChainsInv
<1>5. CASE Compress
  BY <1>5, CompressChainsInv
<1>6. CASE Accept
  BY <1>6, AcceptChainsInv
<1>7. CASE SendGroup
  BY <1>7, SendGroupChainsInv
<1>8. CASE Abort \/ AllSent
  <2>1. /\ UNCHANGED <<tables, job, pending, compressor>>
        /\ pc \in Working /\ pc' \in {"skip", "save"}
        /\ pc' = "save" => pc = "send" /\ pending = {}
    BY <1>8 DEF Abort, AllSent
  <2>2. CP!ChainInv' /\ CP!RangeKept' /\ LostBounded'
    BY <2>1, ChainRests DEF tables, compressor, ChainsInv, LostBounded
  <2>3. SentInv'
    BY <2>1 DEF tables, compressor, ChainsInv, SentInv
  <2>4. QED BY <2>1, <2>2, <2>3 DEF tables, ChainsInv
<1>9. CASE SaveState
  <2>1. Bounded(levels, db) /\ levels \in Seq(Level)
    BY <1>9, LevelsBounded, SameTypes DEF SaveState, Inv, TypeOK, ChunkTypes
  <2>2. QED
    BY <1>9, <2>1, WriteChainsInv DEF SaveState, ChunkDone, Stop
<1>10. CASE SkipChunk
  <2>1. Bounded(args.default_levels, db) /\ args.default_levels \in Seq(Level)
    BY DefaultBounded, DefaultLevels
  <2>2. QED
    BY <1>10, <2>1, WriteChainsInv DEF SkipChunk, ChunkDone, Stop
<1>11. CASE UNCHANGED <<saved, db>> /\ pc' \notin Finding \cup Working
  BY <1>11 DEF ChainsInv, SentInv
<1>12. CASE UNCHANGED vars
  BY <1>12, ChainRests
     DEF vars, tables, process, compressor, ChainsInv, SentInv, LostBounded
<1>13. QED
  BY <1>1, <1>2, <1>3, <1>4, <1>5, <1>6, <1>7, <1>8, <1>9, <1>10, <1>11, <1>12
     DEF Next, Start, Step, Crash, tables, process, compressor, End, Stop, PickRoom,
         NoRoomLeft, SaveLowest, CannotReadState, FindMaxGroup, NothingFound,
         LoadLevelHeads, GetInitialData, GetMissing, Panic

-----------------------------------------------------------------------------
\* What the two theorems rest on.
LEMMA ChainsHold == EdgesStayInRooms => (Spec => [](Inv /\ ChainsInv))
<1> SUFFICES ASSUME EdgesStayInRooms PROVE Spec => [](Inv /\ ChainsInv)
  OBVIOUS
<1>1. Init => RoomInv
  BY InitRoom
<1>2. Inv /\ RoomInv /\ CopyInv /\ ChainsInv /\ [Next]_vars => ChainsInv'
  BY NextChainsInv
<1>3. QED
  BY <1>1, <1>2, NextRoom, InitCopy, NextCopy, InitChainsInv, InitInv, NextInv, PTL DEF Spec

\* What is saved of the levels of a room bounds the chains of their heads, in
\* every crash, in a chunk that is done again or skipped, and whatever levels
\* previous runs have left behind (write_room_compressor_state).
THEOREM SavedLengthsAreBounds ==
  ASSUME EdgesStayInRooms
  PROVE  Spec => []SavedLengthsBoundChains
<1>1. Inv /\ ChainsInv => SavedLengthsBoundChains
  BY DEF ChainsInv, Bounded, SavedLengthsBoundChains
<1>2. Spec => [](Inv /\ ChainsInv)
  BY ChainsHold
<1>3. QED BY <1>1, <1>2, PTL

\* The groups of a chunk that has been sent have chains in the database that
\* are as short as the sizes of the levels add up to ("the sum of the sizes is
\* the upper bound on number of iterations", the help of -l in
\* synapse_auto_compressor/src/main.rs).
THEOREM SizesBoundSentChains ==
  ASSUME EdgesStayInRooms
  PROVE  Spec => []SentChainsBounded
<1>1. Inv /\ ChainsInv => SentChainsBounded
  <2>1. SUFFICES ASSUME Inv, ChainsInv, pc = "save", NEW g \in DOMAIN orig, orig[g].in_range
                 PROVE  ChainLength(db)[g] =< MaxChain(levels)
    BY DEF SentChainsBounded
  <2>2. g \in DOMAIN newMap /\ ChainLength(db)[g] = ChainLength(newMap)[g]
    BY <2>1, SentChains
  <2>3. newMap[g].in_range /\ CP!ChainsBounded
    BY <2>1, <2>2 DEF ChainsInv, Working, CP!RangeKept, CP!ChainInv
  <2>4. CP!ChainLength(newMap)[g] =< CP!MaxChain(levels)
    BY <2>2, <2>3 DEF CP!ChainsBounded
  <2>5. QED BY <2>2, <2>4, SameChainWords
<1>2. Spec => [](Inv /\ ChainsInv)
  BY ChainsHold
<1>3. QED BY <1>1, <1>2, PTL
=============================================================================
