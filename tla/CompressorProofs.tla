-------------------------- MODULE CompressorProofs --------------------------
(***************************************************************************)
(* The compressor keeps the state of every group, for all maps and levels  *)
(* it can be called with.                                                  *)
(*                                                                         *)
(* The invariant does not follow the chains.  It says of every row of the  *)
(* new map, on its own, that it leads from the original state of its       *)
(* predecessor to the original state of its group (Solves); the lemmas of  *)
(* StateGroupsProofs turn that into a statement about whole chains, of the *)
(* new map and of every mix of the two maps.                               *)
(***************************************************************************)
EXTENDS Compressor, StateGroupsProofs, FiniteSetTheorems

\* The new map is made of the oldest groups of the original one.
Prefix ==
  /\ DOMAIN newMap \subseteq DOMAIN orig
  /\ \A g \in DOMAIN newMap, h \in Todo : g < h

\* The heads are older than the groups still to be compressed; while get_delta
\* runs, they may be the current group, and the bases it tries are older.
HeadsBelow ==
  /\ \A head \in Heads(levels), g \in Todo :
       orig[g].in_range => head < g \/ (base # NoGroup /\ head = Current)
  /\ base # NoGroup => Todo # {} /\ base < Current

Inv ==
  /\ TypeOK
  /\ WellFormed(orig)
  /\ WellFormed(newMap)
  /\ Prefix
  /\ Solves(Original, newMap)
  /\ HeadsBelow

-----------------------------------------------------------------------------
\* The group the loop is at is the oldest one that is left.
LEMMA CurrentLeast ==
  ASSUME TypeOK, Todo # {}
  PROVE  /\ Current \in Todo
         /\ Current \in DOMAIN orig
         /\ Current \in Groups
         /\ Current \in Nat
         /\ \A g \in Todo : Current =< g
<1>1. Todo \in SUBSET Groups
  BY DEF Todo, TypeOK, IsGroupMap
<1>2. Groups \in SUBSET Nat
  BY MaxGroupAssumption DEF Groups
<1>3. Current \in Todo /\ \A g \in Todo : Current =< g
  BY <1>1, <1>2, MinLeast DEF Current
<1>4. QED BY <1>1, <1>2, <1>3 DEF Todo

\* Placing a group turns levels into levels, whose heads are the group and old
\* heads.
LEMMA PlaceHeads ==
  ASSUME NEW ls \in Seq(Level), NEW g \in Groups
  PROVE  /\ Place(ls, g) \in Seq(Level)
         /\ Heads(Place(ls, g)) \subseteq Heads(ls) \cup {g}
<1> DEFINE placed == Place(ls, g)
<1>1. \A i \in DOMAIN ls : ls[i] \in Level
  OBVIOUS
<1>2. DOMAIN placed = DOMAIN ls
  BY DEF Place
<1>3. \A i \in DOMAIN ls : placed[i] \in Level /\ placed[i].head \in {g, ls[i].head}
  <2>1. SUFFICES ASSUME NEW i \in DOMAIN ls
                 PROVE  placed[i] \in Level /\ placed[i].head \in {g, ls[i].head}
    OBVIOUS
  <2>2. ls[i] \in [max : Nat, len : Nat, head : OptGroup] /\ g \in OptGroup
    BY <1>1 DEF Level, OptGroup
  <2>3. CASE Visited(ls, i)
    <3>1. placed[i] = Update(ls[i], g, HasSpace(ls[i]))
      BY <2>3 DEF Place
    <3>2. QED BY <2>2, <3>1 DEF Update, Level
  <2>4. CASE ~ Visited(ls, i)
    <3>1. placed[i] = ls[i]
      BY <2>4 DEF Place
    <3>2. QED BY <1>1, <3>1
  <2>5. QED BY <2>3, <2>4
<1>4. placed \in Seq(Level)
  <2>1. Len(ls) \in Nat /\ DOMAIN ls = 1 .. Len(ls)
    OBVIOUS
  <2>2. placed \in [1 .. Len(ls) -> Level]
    <3>1. placed = [i \in DOMAIN ls |-> placed[i]]
      BY DEF Place
    <3> HIDE DEF placed
    <3>2. QED BY <1>3, <2>1, <3>1
  <2>3. QED BY <2>1, <2>2 
<1>5. Heads(placed) \subseteq Heads(ls) \cup {g}
  BY <1>2, <1>3 DEF Heads
<1>6. QED BY <1>4, <1>5

\* The candidate is a head.
LEMMA CandidateIsHead ==
  ASSUME NEW ls \in Seq(Level), Candidate(ls) # NoGroup
  PROVE  Candidate(ls) \in Heads(ls) /\ Candidate(ls) \in Groups
<1>1. Chosen(ls) # {}
  BY DEF Candidate
<1>2. PICK i \in Chosen(ls) : Candidate(ls) = ls[i].head
  BY <1>1 DEF Candidate
<1>3. i \in DOMAIN ls
  BY DEF Chosen
<1>4. ls[i] \in Level
  BY <1>3
<1>5. ls[i].head \in OptGroup
  BY <1>4 DEF Level
<1>6. QED BY <1>2, <1>3, <1>5 DEF Heads, OptGroup

\* The size of a state map is a number.
LEMMA SizeType ==
  ASSUME NEW m
  PROVE  Size(m) \in Nat
<1>1. {k \in Keys : m[k] # NoEvent} \subseteq Keys
  OBVIOUS
<1>2. QED BY <1>1, KeysAssumption, FS_Subset, FS_CardinalityType DEF Size

-----------------------------------------------------------------------------
\* A row that leads from the original state of a group already stored, or from
\* nothing, to the original state of the current group may be added to the new
\* map.
RowIsRight(entry) ==
  /\ entry \in Entries
  /\ entry.prev # NoGroup => entry.prev \in DOMAIN newMap /\ entry.prev < Current
  /\ Original[Current] = IF entry.prev = NoGroup
                         THEN entry.delta
                         ELSE Extend(Original[entry.prev], entry.delta)

\* With it the new map stays well formed and keeps the states.
LEMMA InsertKeeps ==
  ASSUME Inv, Todo # {}, NEW entry, RowIsRight(entry)
  PROVE  LET map == Insert(newMap, Current, entry)
         IN  /\ IsGroupMap(map)
             /\ WellFormed(map)
             /\ Solves(Original, map)
             /\ DOMAIN map = DOMAIN newMap \cup {Current}
<1> DEFINE map == Insert(newMap, Current, entry)
<1>1. Current \in Groups /\ Current \notin DOMAIN newMap
  BY CurrentLeast DEF Inv, Todo
<1>2. DOMAIN map = DOMAIN newMap \cup {Current}
  BY DEF Insert
<1>3. map[Current] = entry /\ \A g \in DOMAIN newMap : map[g] = newMap[g]
  BY <1>1 DEF Insert
<1>4. IsGroupMap(newMap) /\ WellFormed(newMap) /\ Solves(Original, newMap)
  BY DEF Inv, TypeOK
<1>5. map = [g \in DOMAIN map |-> map[g]]
  BY DEF Insert
<1> HIDE DEF map
<1>6. IsGroupMap(map)
  <2>1. \A g \in DOMAIN map : map[g] \in Entries
    BY <1>2, <1>3, <1>4 DEF RowIsRight, IsGroupMap
  <2>2. DOMAIN map \subseteq Groups
    BY <1>1, <1>2, <1>4 DEF IsGroupMap
  <2>3. QED BY <2>1, <2>2, <1>5 DEF IsGroupMap
<1>7. WellFormed(map)
  BY <1>2, <1>3, <1>4 DEF WellFormed, RowIsRight
<1>8. Solves(Original, map)
  <2>1. ASSUME NEW g \in DOMAIN map
        PROVE  Original[g] = IF map[g].prev = NoGroup
                             THEN map[g].delta
                             ELSE Extend(Original[map[g].prev], map[g].delta)
    <3>1. CASE g = Current
      BY <3>1, <1>3 DEF RowIsRight
    <3>2. CASE g \in DOMAIN newMap
      BY <3>2, <1>3, <1>4 DEF Solves
    <3>3. QED BY <3>1, <3>2, <1>2
  <2>2. QED BY <2>1 DEF Solves
<1>9. QED BY <1>2, <1>6, <1>7, <1>8 DEF map

\* A step that adds such a row to the new map, and at most the current group to
\* the heads, keeps the invariant.
LEMMA FinishKeepsInv ==
  ASSUME Inv, Todo # {}, NEW entry, RowIsRight(entry),
         newMap' = Insert(newMap, Current, entry),
         orig' = orig,
         levels' \in Seq(Level),
         Heads(levels') \subseteq Heads(levels) \cup {Current},
         base' = NoGroup,
         stats' \in [resets : Nat, resetsSize : Nat, changed : Nat],
         panicked' \in BOOLEAN
  PROVE  Inv'
<1>1. /\ IsGroupMap(newMap')
      /\ WellFormed(newMap')
      /\ Solves(Original, newMap')
      /\ DOMAIN newMap' = DOMAIN newMap \cup {Current}
  BY InsertKeeps
<1>2. Original' = Original
  BY DEF Original
<1>3. TypeOK'
  BY <1>1 DEF Inv, TypeOK, OptGroup
<1>4. Todo' = Todo \ {Current}
  BY <1>1 DEF Todo
<1>5. /\ Current \in Todo /\ Current \in Nat /\ Current \in DOMAIN orig
      /\ \A g \in Todo : Current =< g
  BY CurrentLeast DEF Inv
<1>6. Todo \subseteq Nat
  BY MaxGroupAssumption DEF Inv, TypeOK, Todo, IsGroupMap, Groups
<1>7. \A g \in Todo' : Current < g
  BY <1>4, <1>5, <1>6
<1>8. Prefix'
  BY <1>1, <1>4, <1>5, <1>7 DEF Inv, Prefix
<1>9. HeadsBelow'
  BY <1>4, <1>7 DEF Inv, HeadsBelow
<1>10. QED BY <1>1, <1>2, <1>3, <1>8, <1>9 DEF Inv

\* In the original map, too, every row leads to the state of its group.
LEMMA OriginalSolves ==
  ASSUME Inv
  PROVE  /\ Solves(Original, orig)
         /\ \A g \in DOMAIN orig : Original[g] \in StateMaps
BY EntriesAreRows, CollapseSolves, CollapseType DEF Inv, TypeOK, Original

\* A group that keeps its row keeps its state.
LEMMA KeptRow ==
  ASSUME Inv, Todo # {}
  PROVE  /\ RowIsRight(orig[Current])
         /\ orig[Current].in_range => RowIsRight(Entry(orig[Current].prev, orig[Current].delta))
<1>1. Current \in DOMAIN orig /\ Current \in Nat /\ \A g \in Todo : Current =< g
  BY CurrentLeast DEF Inv
<1>2. orig[Current] \in Entries
  BY <1>1 DEF Inv, TypeOK, IsGroupMap
<1>3. ASSUME orig[Current].prev # NoGroup
      PROVE  orig[Current].prev \in DOMAIN newMap /\ orig[Current].prev < Current
  <2>1. orig[Current].prev \in DOMAIN orig /\ orig[Current].prev < Current
    BY <1>1, <1>3 DEF Inv, WellFormed
  <2>2. orig[Current].prev \in Nat
    BY <2>1, MaxGroupAssumption DEF Inv, TypeOK, IsGroupMap, Groups
  <2>3. orig[Current].prev \notin Todo
    BY <1>1, <2>1, <2>2
  <2>4. QED BY <2>1, <2>3 DEF Todo
<1>4. Original[Current] = IF orig[Current].prev = NoGroup
                          THEN orig[Current].delta
                          ELSE Extend(Original[orig[Current].prev], orig[Current].delta)
  BY <1>1, OriginalSolves DEF Solves
<1>5. RowIsRight(orig[Current])
  BY <1>2, <1>3, <1>4 DEF RowIsRight
<1>6. RowIsRight(Entry(orig[Current].prev, orig[Current].delta))
  BY <1>2, <1>3, <1>4 DEF RowIsRight, Entry, Entries
<1>7. QED BY <1>5, <1>6

\* A group stored in full keeps its state.
LEMMA FullRow ==
  ASSUME Inv, Todo # {}
  PROVE  RowIsRight(Entry(NoGroup, Original[Current]))
<1>1. Original[Current] \in StateMaps
  BY CurrentLeast, OriginalSolves DEF Inv
<1>2. QED BY <1>1 DEF RowIsRight, Entry, Entries, OptGroup

\* A base older than the current group that is in the original map is in the
\* new map.
LEMMA BaseStored ==
  ASSUME Inv, base # NoGroup, base \in DOMAIN orig
  PROVE  base \in DOMAIN newMap
<1>1. Todo # {} /\ base < Current /\ base \in Nat
  BY MaxGroupAssumption DEF Inv, HeadsBelow, TypeOK, IsGroupMap, Groups
<1>2. base \notin Todo
  BY <1>1, CurrentLeast DEF Inv
<1>3. QED BY <1>2 DEF Todo

\* A group stored as a delta from a base that fits keeps its state.
LEMMA DeltaRow ==
  ASSUME Inv, base # NoGroup, base \in DOMAIN orig, BaseFits
  PROVE  RowIsRight(Entry(base, DeltaFrom(Original[base], Original[Current])))
<1>1. Todo # {} /\ base < Current
  BY DEF Inv, HeadsBelow
<1>2. base \in DOMAIN newMap /\ base \in OptGroup
  BY BaseStored DEF Inv, TypeOK
<1>3. Original[base] \in StateMaps /\ Original[Current] \in StateMaps
  BY <1>1, CurrentLeast, OriginalSolves DEF Inv
<1> DEFINE delta == DeltaFrom(Original[base], Original[Current])
<1>4. delta \in StateMaps /\ Extend(Original[base], delta) = Original[Current]
  BY <1>3, DeltaType, DeltaRestores DEF BaseFits
<1> HIDE DEF delta
<1>5. RowIsRight(Entry(base, delta))
  BY <1>1, <1>2, <1>4 DEF RowIsRight, Entry, Entries
<1>6. QED BY <1>5 DEF delta

-----------------------------------------------------------------------------
\* A legal call starts in the invariant.
LEMMA CallInv ==
  ASSUME IsGroupMap(orig), WellFormed(orig), levels \in Seq(Level),
         \A head \in Heads(levels), g \in DOMAIN orig :
           orig[g].in_range => head < g,
         newMap = <<>>, base = NoGroup, stats = NoStats, panicked = FALSE
  PROVE  Inv
<1>1. DOMAIN newMap = {}
  OBVIOUS
<1>2. IsGroupMap(newMap)
  BY <1>1 DEF IsGroupMap
<1>3. TypeOK
  BY <1>2 DEF TypeOK, NoStats, OptGroup
<1>4. WellFormed(newMap) /\ Solves(Original, newMap) /\ Prefix
  BY <1>1 DEF WellFormed, Solves, Prefix
<1>5. HeadsBelow
  BY DEF HeadsBelow, Todo
<1>6. QED BY <1>3, <1>4, <1>5 DEF Inv

\* The compressor starts in the invariant.
LEMMA InitInv == Init => Inv
<1>1. SUFFICES ASSUME Init PROVE Inv
  OBVIOUS
<1>2. PICK call \in Calls : orig = call.map /\ levels = call.levels
  BY <1>1 DEF Init
<1>3. /\ IsGroupMap(orig)
      /\ WellFormed(orig)
      /\ levels \in Seq(Level)
      /\ \A head \in Heads(levels), g \in DOMAIN orig :
           orig[g].in_range => head < g
  BY <1>2, CallsAssumption
<1>4. QED BY <1>1, <1>3, CallInv DEF Init

\* Every step keeps the invariant.
LEMMA NextInv == Inv /\ [Next]_vars => Inv'
<1> SUFFICES ASSUME Inv, [Next]_vars PROVE Inv'
  OBVIOUS
<1> USE DEF AtGroup, InRange, AtBase, Finish
<1>1. CASE CopyOutOfRange
  BY <1>1, KeptRow, FinishKeepsInv DEF CopyOutOfRange, Inv, TypeOK
<1>2. ASSUME InRange
      PROVE  /\ Current \in Groups
             /\ Place(levels, Current) \in Seq(Level)
             /\ Heads(Place(levels, Current)) \subseteq Heads(levels) \cup {Current}
  BY <1>2, CurrentLeast, PlaceHeads DEF Inv, TypeOK
<1>3. CASE KeepEntry
  <2>1. RowIsRight(Entry(orig[Current].prev, orig[Current].delta))
    BY <1>3, KeptRow DEF KeepEntry
  <2>2. QED BY <1>2, <1>3, <2>1, FinishKeepsInv DEF KeepEntry, Inv, TypeOK
<1>4. CASE StoreFull
  <2>1. RowIsRight(Entry(NoGroup, Original[Current]))
    BY <1>4, FullRow DEF StoreFull
  <2>2. stats' \in [resets : Nat, resetsSize : Nat, changed : Nat]
    BY <1>4 DEF StoreFull, Inv, TypeOK
  <2>3. QED BY <1>2, <1>4, <2>1, <2>2, FinishKeepsInv DEF StoreFull, Inv, TypeOK
<1>5. CASE StartDelta
  <2>1. Candidate(levels) \in Heads(levels) /\ Candidate(levels) \in Groups
    BY <1>5, CandidateIsHead DEF StartDelta, Inv, TypeOK
  <2>2. Original' = Original /\ Todo' = Todo /\ Current' = Current
    BY <1>5 DEF StartDelta, Original, Todo, Current
  <2>3. stats' \in [resets : Nat, resetsSize : Nat, changed : Nat]
    BY <1>5 DEF StartDelta, Inv, TypeOK
  <2>4. TypeOK'
    BY <1>2, <1>5, <2>1, <2>3 DEF StartDelta, Inv, TypeOK, OptGroup
  <2>5. Prefix'
    BY <1>5, <2>2 DEF StartDelta, Inv, Prefix
  <2>6. HeadsBelow'
    <3>1. Current \in Todo /\ Current \in Nat /\ \A g \in Todo : g \in Nat /\ Current =< g
      BY <1>5, CurrentLeast, MaxGroupAssumption
         DEF StartDelta, Inv, TypeOK, Todo, IsGroupMap, Groups
    <3>2. \A head \in Heads(levels), g \in Todo : orig[g].in_range => head < g
      BY <1>5 DEF StartDelta, Inv, HeadsBelow
    <3>3. base' # NoGroup
      BY <1>5 DEF StartDelta
    <3>4. base' < Current
      BY <1>5, <2>1, <3>1, <3>2 DEF StartDelta
    <3>5. \A head \in Heads(levels'), g \in Todo :
            orig[g].in_range => head < g \/ head = Current
      BY <1>2, <1>5, <3>2 DEF StartDelta
    <3>6. QED BY <1>5, <2>2, <3>1, <3>3, <3>4, <3>5 DEF StartDelta, HeadsBelow
  <2>7. QED BY <1>5, <2>2, <2>4, <2>5, <2>6 DEF StartDelta, Inv
<1>6. CASE UseBase
  <2>1. RowIsRight(Entry(base, DeltaFrom(Original[base], Original[Current])))
    BY <1>6, DeltaRow DEF UseBase
  <2>2. QED BY <1>6, <2>1, FinishKeepsInv DEF UseBase, Inv, TypeOK, HeadsBelow
<1>7. CASE WalkUp
  <2>1. base \in DOMAIN newMap /\ base \in Nat
    BY <1>7, BaseStored, MaxGroupAssumption DEF WalkUp, Inv, TypeOK, IsGroupMap, Groups
  <2>2. base' \in DOMAIN newMap /\ base' < base /\ base' # NoGroup
    BY <1>7, <2>1 DEF WalkUp, Inv, WellFormed
  <2>3. Todo # {} /\ base < Current /\ Current \in Nat
    BY <1>7, CurrentLeast DEF WalkUp, Inv, HeadsBelow
  <2>4. base' < Current /\ base' \in Groups
    BY <2>1, <2>2, <2>3, MaxGroupAssumption DEF Inv, TypeOK, IsGroupMap, Groups
  <2>5. Original' = Original /\ Todo' = Todo /\ Current' = Current
    BY <1>7 DEF WalkUp, Original, Todo, Current
  <2>6. TypeOK'
    BY <1>7, <2>4 DEF WalkUp, Inv, TypeOK, OptGroup
  <2>7. HeadsBelow'
    BY <1>7, <2>2, <2>3, <2>4, <2>5 DEF WalkUp, Inv, HeadsBelow
  <2>8. QED BY <1>7, <2>5, <2>6, <2>7 DEF WalkUp, Inv, Prefix
<1>8. CASE ForcedReset
  <2>1. Todo # {}
    BY <1>8 DEF ForcedReset, Inv, HeadsBelow
  <2>2. RowIsRight(Entry(NoGroup, Original[Current]))
    BY <2>1, FullRow
  <2>3. stats' \in [resets : Nat, resetsSize : Nat, changed : Nat]
    BY <1>8, SizeType DEF ForcedReset, Inv, TypeOK
  <2>4. QED BY <1>8, <2>1, <2>2, <2>3, FinishKeepsInv DEF ForcedReset, Inv, TypeOK
<1>9. CASE MissingBase
  <2>1. Original' = Original /\ Todo' = Todo /\ Current' = Current
    BY <1>9 DEF MissingBase, Original, Todo, Current
  <2>2. QED BY <1>9, <2>1 DEF MissingBase, Inv, TypeOK, Prefix, HeadsBelow
<1>10. CASE UNCHANGED vars
  <2>1. Original' = Original /\ Todo' = Todo /\ Current' = Current
    BY <1>10 DEF vars, Original, Todo, Current
  <2>2. QED BY <1>10, <2>1 DEF vars, Inv, TypeOK, Prefix, HeadsBelow
<1>11. QED
  BY <1>1, <1>3, <1>4, <1>5, <1>6, <1>7, <1>8, <1>9, <1>10 DEF Next

\* A step leaves the original map alone, and a new head is a group in range.
LEMMA NextKeeps ==
  ASSUME Inv, Next
  PROVE  /\ orig' = orig
         /\ \A head \in Heads(levels') :
              head \in Heads(levels) \/ (head \in DOMAIN orig /\ orig[head].in_range)
<1>1. orig' = orig
  BY DEF Next, CopyOutOfRange, KeepEntry, StoreFull, StartDelta, UseBase, WalkUp,
         ForcedReset, MissingBase
<1>2. CASE levels' = levels
  BY <1>1, <1>2
<1>3. CASE InRange /\ levels' = Place(levels, Current)
  <2>1. Current \in Groups /\ Current \in DOMAIN orig
    BY <1>3, CurrentLeast DEF Inv, InRange, AtGroup
  <2>2. Heads(levels') \subseteq Heads(levels) \cup {Current}
    BY <1>3, <2>1, PlaceHeads DEF Inv, TypeOK
  <2>3. QED BY <1>1, <1>3, <2>1, <2>2 DEF InRange
<1>4. levels' = levels \/ (InRange /\ levels' = Place(levels, Current))
  BY DEF Next, CopyOutOfRange, KeepEntry, StoreFull, StartDelta, UseBase, WalkUp,
         ForcedReset, MissingBase
<1>5. QED BY <1>2, <1>3, <1>4

\* A group out of range keeps its row, and get_delta is not called for it.
CopiesKept ==
  /\ \A g \in DOMAIN newMap : orig[g].in_range \/ newMap[g] = orig[g]
  /\ base # NoGroup => orig[Current].in_range

\* No step changes that.
LEMMA NextCopies ==
  ASSUME Inv, CopiesKept, Next
  PROVE  CopiesKept'
<1> USE DEF AtGroup, InRange, AtBase, Finish
<1>1. ASSUME NEW entry, newMap' = Insert(newMap, Current, entry),
             orig' = orig, base' = NoGroup,
             orig[Current].in_range \/ entry = orig[Current]
      PROVE  CopiesKept'
  <2>1. DOMAIN newMap' = DOMAIN newMap \cup {Current}
    BY <1>1 DEF Insert
  <2>2. \A g \in DOMAIN newMap' :
          newMap'[g] = IF g = Current THEN entry ELSE newMap[g]
    BY <1>1 DEF Insert
  <2>3. QED BY <1>1, <2>1, <2>2 DEF CopiesKept
<1>2. ASSUME orig' = orig, newMap' = newMap, base' # NoGroup => orig[Current].in_range
      PROVE  CopiesKept'
  BY <1>2 DEF CopiesKept, Current, Todo
<1>3. CASE CopyOutOfRange
  BY <1>1, <1>3 DEF CopyOutOfRange
<1>4. CASE KeepEntry
  BY <1>1, <1>4 DEF KeepEntry
<1>5. CASE StoreFull
  BY <1>1, <1>5 DEF StoreFull
<1>6. CASE StartDelta
  BY <1>2, <1>6 DEF StartDelta
<1>7. CASE UseBase
  BY <1>1, <1>7 DEF UseBase, CopiesKept
<1>8. CASE WalkUp
  BY <1>2, <1>8 DEF WalkUp, CopiesKept
<1>9. CASE ForcedReset
  BY <1>1, <1>9 DEF ForcedReset, CopiesKept
<1>10. CASE MissingBase
  BY <1>2, <1>10 DEF MissingBase, CopiesKept
<1>11. QED
  BY <1>3, <1>4, <1>5, <1>6, <1>7, <1>8, <1>9, <1>10 DEF Next

\* The inductive invariant holds in all states of the compressor, whatever it
\* is called with (create_new_tree, get_delta).
THEOREM InvIsInvariant == Spec => []Inv
BY InitInv, NextInv, PTL DEF Spec

\* The variables keep their types, whatever the compressor is called with.
THEOREM TypeCorrect == Spec => []TypeOK
<1>1. Inv => TypeOK
  BY DEF Inv
<1>2. QED BY <1>1, InvIsInvariant, PTL

-----------------------------------------------------------------------------
\* Compression never changes the state of a group.
LEMMA InvStatesMatch == Inv => StatesMatch
<1> SUFFICES ASSUME Inv PROVE StatesMatch
  OBVIOUS
<1>1. IsGroupMap(newMap) /\ WellFormed(newMap) /\ Solves(Original, newMap)
  BY DEF Inv, TypeOK
<1>2. Solves(Collapse(newMap), newMap)
  BY <1>1, EntriesAreRows, CollapseSolves
<1>3. \A g \in DOMAIN newMap : Collapse(newMap)[g] = Original[g]
  BY <1>1, <1>2, EntriesAreRows, SolutionsAgree
<1>4. QED BY <1>3 DEF StatesMatch

\* For every map and all levels the compressor can be called with, no step
\* changes the state of a group (create_new_tree, get_delta).
THEOREM CompressionKeepsStates == Spec => []StatesMatch
BY InvStatesMatch, InvIsInvariant, PTL

\* Each row is right on its own, so any mix of rows is.
LEMMA InvPartialWriteSafe == Inv => PartialWriteSafe
<1> SUFFICES ASSUME Inv, NEW groups \in SUBSET DOMAIN newMap
             PROVE  \A g \in DOMAIN orig : Collapse(Overlay(groups))[g] = Original[g]
  BY DEF PartialWriteSafe
<1> DEFINE mix == Overlay(groups)
<1>1. DOMAIN mix = DOMAIN orig /\ mix = [g \in DOMAIN mix |-> mix[g]]
  BY DEF Overlay
<1>2. \A g \in DOMAIN orig : IF g \in groups
                             THEN g \in DOMAIN newMap /\ mix[g] = newMap[g]
                             ELSE mix[g] = orig[g]
  BY DEF Overlay
<1> HIDE DEF mix
<1>3. IsGroupMap(mix)
  <2>1. \A g \in DOMAIN orig : mix[g] \in Entries
    BY <1>2 DEF Inv, TypeOK, IsGroupMap
  <2>2. QED BY <1>1, <2>1 DEF Inv, TypeOK, IsGroupMap
<1>4. WellFormed(mix)
  BY <1>1, <1>2 DEF Inv, WellFormed, Prefix
<1>5. Solves(Original, mix)
  <2>1. Solves(Original, orig) /\ Solves(Original, newMap)
    BY OriginalSolves DEF Inv
  <2>2. QED BY <1>1, <1>2, <2>1 DEF Solves
<1>6. Solves(Collapse(mix), mix)
  BY <1>3, <1>4, EntriesAreRows, CollapseSolves
<1>7. \A g \in DOMAIN mix : Collapse(mix)[g] = Original[g]
  BY <1>3, <1>4, <1>5, <1>6, EntriesAreRows, SolutionsAgree
<1>8. QED BY <1>1, <1>7 DEF mix

\* Whichever of the new rows have reached the database, every group has the
\* state it had (send_changes_to_db commits group by group).
THEOREM PartialWritesKeepStates == Spec => []PartialWriteSafe
BY InvPartialWriteSafe, InvIsInvariant, PTL

\* The index new_state_group_map[&prev_sg] of get_delta never fails.
THEOREM BasesAreStored == Spec => []BaseIsStored
<1>1. Inv => BaseIsStored
  BY BaseStored DEF Inv, HeadsBelow, BaseIsStored
<1>2. QED BY <1>1, InvIsInvariant, PTL

-----------------------------------------------------------------------------
\* With the heads in the map, the bases get_delta tries are in it.
BasesLoaded ==
  /\ Heads(levels) \subseteq DOMAIN orig
  /\ base # NoGroup => base \in DOMAIN orig
  /\ NoPanic

\* Every step of the compressor stays within the map.
LEMMA NextBasesLoaded == Inv /\ BasesLoaded /\ [Next]_vars => BasesLoaded'
<1> SUFFICES ASSUME Inv, BasesLoaded, [Next]_vars PROVE BasesLoaded'
  OBVIOUS
<1>1. CASE UNCHANGED vars
  BY <1>1 DEF vars, BasesLoaded, NoPanic
<1>2. CASE Next
  <2>1. orig' = orig /\ Heads(levels') \subseteq DOMAIN orig
    BY <1>2, NextKeeps DEF BasesLoaded
  <2>2. base' # NoGroup => base' \in DOMAIN orig
    <3>1. CASE StartDelta
      <4>1. Candidate(levels) \in Heads(levels)
        BY <3>1, CandidateIsHead DEF StartDelta, Inv, TypeOK
      <4>2. QED BY <3>1, <4>1 DEF StartDelta, BasesLoaded
    <3>2. CASE WalkUp
      <4>1. base \in DOMAIN newMap
        BY <3>2, BaseStored DEF WalkUp, AtBase
      <4>2. newMap[base].prev \in DOMAIN newMap
        BY <3>2, <4>1 DEF WalkUp, Inv, WellFormed
      <4>3. QED BY <3>2, <4>2 DEF WalkUp, Inv, Prefix
    <3>3. CASE base' = base \/ base' = NoGroup
      BY <3>3 DEF BasesLoaded
    <3>4. QED
      BY <1>2, <3>1, <3>2, <3>3
         DEF Next, CopyOutOfRange, KeepEntry, StoreFull, UseBase, ForcedReset, MissingBase
  <2>3. panicked' = panicked
    BY <1>2 DEF Next, CopyOutOfRange, KeepEntry, StoreFull, StartDelta, UseBase, WalkUp,
                ForcedReset, MissingBase, AtBase, BasesLoaded
  <2>4. QED BY <2>1, <2>2, <2>3 DEF BasesLoaded, NoPanic
<1>3. QED BY <1>1, <1>2

\* If the heads it is called with are in the map, the compressor never panics:
\* the documented duty of load_map_from_db is all that create_new_tree,
\* get_delta and collapse_state_maps need.
THEOREM LoadedHeadsSuffice ==
  ASSUME \A call \in Calls : Heads(call.levels) \subseteq DOMAIN call.map
  PROVE  Spec => []NoPanic
<1>1. Init => BasesLoaded
  BY DEF Init, BasesLoaded, NoPanic
<1>2. BasesLoaded => NoPanic
  BY DEF BasesLoaded
<1>3. QED BY <1>1, <1>2, NextBasesLoaded, InvIsInvariant, PTL DEF Spec

-----------------------------------------------------------------------------
\* A level that can be saved and read back, whatever is placed on it.
SoundLevel(level) ==
  /\ level.max >= 1
  /\ level.len =< level.max
  /\ level.head = NoGroup <=> level.len = 0

\* Higher levels have older heads.
HeadsOrdered(ls) ==
  \A i \in DOMAIN ls : \A j \in 1 .. i - 1 :
    ls[i].head # NoGroup => ls[j].head # NoGroup /\ ls[j].head >= ls[i].head

SoundLevels(ls) == \A i \in DOMAIN ls : SoundLevel(ls[i])

\* Placing a group newer than all heads keeps the levels sound.
LEMMA PlaceSound ==
  ASSUME NEW ls \in Seq(Level), NEW g \in Groups, SoundLevels(ls)
  PROVE  SoundLevels(Place(ls, g))
<1>1. SUFFICES ASSUME NEW i \in DOMAIN ls PROVE SoundLevel(Place(ls, g)[i])
  BY DEF SoundLevels, Place
<1>2. /\ ls[i] \in [max : Nat, len : Nat, head : OptGroup]
      /\ SoundLevel(ls[i])
  <2>1. ls[i] \in Level
    OBVIOUS
  <2>2. QED BY <2>1 DEF Level, SoundLevels
<1>3. CASE Visited(ls, i)
  <2>1. Place(ls, g)[i] = Update(ls[i], g, HasSpace(ls[i]))
    BY <1>3 DEF Place
  <2>2. g # NoGroup
    BY NoGroupAssumption DEF Groups
  <2>3. QED BY <1>2, <2>1, <2>2 DEF Update, HasSpace, SoundLevel
<1>4. CASE ~ Visited(ls, i)
  BY <1>2, <1>4 DEF Place
<1>5. QED BY <1>3, <1>4

\* ... and ordered.
LEMMA PlaceOrdered ==
  ASSUME NEW ls \in Seq(Level), NEW g \in Groups, HeadsOrdered(ls),
         \A head \in Heads(ls) : head < g
  PROVE  HeadsOrdered(Place(ls, g))
<1> DEFINE placed == Place(ls, g)
<1>1. SUFFICES ASSUME NEW i \in DOMAIN ls, NEW j \in 1 .. i - 1, placed[i].head # NoGroup
               PROVE  placed[j].head # NoGroup /\ placed[j].head >= placed[i].head
  BY DEF HeadsOrdered, Place
<1>2. j \in DOMAIN ls /\ i \in Nat /\ j \in Nat /\ j < i
  OBVIOUS
<1>3. g \in Nat /\ g # NoGroup
  BY MaxGroupAssumption, NoGroupAssumption DEF Groups
<1>4. \A k \in DOMAIN ls : placed[k].head = IF Visited(ls, k) THEN g ELSE ls[k].head
  BY DEF Place, Update
<1>5. \A k \in DOMAIN ls : ls[k].head # NoGroup => ls[k].head \in Nat /\ ls[k].head < g
  <2>1. SUFFICES ASSUME NEW k \in DOMAIN ls, ls[k].head # NoGroup
                 PROVE  ls[k].head \in Nat /\ ls[k].head < g
    OBVIOUS
  <2>2. ls[k] \in Level
    OBVIOUS
  <2>3. ls[k].head \in OptGroup
    BY <2>2 DEF Level
  <2>4. ls[k].head \in Heads(ls)
    BY <2>1 DEF Heads
  <2>5. QED BY <2>1, <2>3, <2>4, MaxGroupAssumption DEF OptGroup, Groups
<1>6. Visited(ls, i) => Visited(ls, j)
  BY <1>2 DEF Visited
<1> HIDE DEF placed
<1>7. CASE Visited(ls, j)
  BY <1>1, <1>2, <1>3, <1>4, <1>5, <1>7
<1>8. CASE ~ Visited(ls, j)
  <2>1. placed[i].head = ls[i].head /\ placed[j].head = ls[j].head
    BY <1>2, <1>4, <1>6, <1>8
  <2>2. QED BY <1>1, <2>1 DEF HeadsOrdered
<1>9. QED BY <1>7, <1>8

\* A step keeps sound levels sound.
LEMMA NextSound == Inv /\ SoundLevels(levels) /\ [Next]_vars => SoundLevels(levels)'
<1> SUFFICES ASSUME Inv, SoundLevels(levels), [Next]_vars PROVE SoundLevels(levels')
  OBVIOUS
<1>1. CASE levels' = levels
  BY <1>1
<1>2. CASE InRange /\ levels' = Place(levels, Current)
  BY <1>2, CurrentLeast, PlaceSound DEF InRange, AtGroup, Inv, TypeOK
<1>3. QED
  BY <1>1, <1>2 DEF Next, vars, CopyOutOfRange, KeepEntry, StoreFull, StartDelta, UseBase,
                    WalkUp, ForcedReset, MissingBase

\* ... and ordered.
LEMMA NextOrdered == Inv /\ HeadsOrdered(levels) /\ [Next]_vars => HeadsOrdered(levels)'
<1> SUFFICES ASSUME Inv, HeadsOrdered(levels), [Next]_vars PROVE HeadsOrdered(levels')
  OBVIOUS
<1>1. CASE levels' = levels
  BY <1>1
<1>2. CASE InRange /\ levels' = Place(levels, Current)
  <2>1. Current \in Groups /\ Current \in Todo
    BY <1>2, CurrentLeast DEF InRange, AtGroup, Inv
  <2>2. \A head \in Heads(levels) : head < Current
    BY <1>2, <2>1 DEF InRange, AtGroup, Inv, HeadsBelow
  <2>3. QED BY <1>2, <2>1, <2>2, PlaceOrdered DEF Inv, TypeOK
<1>3. QED
  BY <1>1, <1>2 DEF Next, vars, CopyOutOfRange, KeepEntry, StoreFull, StartDelta, UseBase,
                    WalkUp, ForcedReset, MissingBase

\* Levels of positive size that could be restored once can be restored after
\* every group (Level::update, restore of src/compressor.rs): the levels a
\* run exports are good for the next one.
THEOREM LevelsStayRestorable ==
  ASSUME \A call \in Calls : SoundLevels(call.levels) /\ HeadsOrdered(call.levels)
  PROVE  Spec => []LevelsRestorable
<1>1. Init => SoundLevels(levels) /\ HeadsOrdered(levels)
  BY DEF Init
<1>2. SoundLevels(levels) /\ HeadsOrdered(levels) => LevelsRestorable
  BY DEF SoundLevels, SoundLevel, HeadsOrdered, LevelsRestorable
<1>3. QED BY <1>1, <1>2, NextSound, NextOrdered, InvIsInvariant, PTL DEF Spec

-----------------------------------------------------------------------------
\* The changes that are counted: get_delta runs for one that is in the
\* statistics and not yet in the new map.
ChangesCounted ==
  Cardinality(Changed) + (IF base = NoGroup THEN 0 ELSE 1) =< stats.changed

\* The changes are finitely many.
LEMMA ChangedFinite ==
  ASSUME Inv
  PROVE  IsFiniteSet(Changed) /\ Cardinality(Changed) \in Nat
<1>1. IsFiniteSet(Groups)
  BY MaxGroupAssumption, FS_Interval DEF Groups
<1>2. Changed \subseteq Groups
  BY DEF Changed, Inv, TypeOK, IsGroupMap
<1>3. QED BY <1>1, <1>2, FS_Subset, FS_CardinalityType

\* A group that is stored adds one change, or none if it keeps its row.
LEMMA ChangedGrows ==
  ASSUME Inv, Todo # {}, NEW entry, newMap' = Insert(newMap, Current, entry), orig' = orig
  PROVE  /\ Cardinality(Changed) \in Nat /\ Cardinality(Changed') \in Nat
         /\ Cardinality(Changed') =< Cardinality(Changed) + 1
         /\ entry = orig[Current] => Changed' = Changed
<1>1. Current \notin DOMAIN newMap
  BY CurrentLeast DEF Inv, Todo
<1>2. DOMAIN newMap' = DOMAIN newMap \cup {Current}
  BY DEF Insert
<1>3. \A g \in DOMAIN newMap' : newMap'[g] = IF g = Current THEN entry ELSE newMap[g]
  BY DEF Insert
<1>4. Changed' = IF entry = orig[Current] THEN Changed ELSE Changed \cup {Current}
  BY <1>1, <1>2, <1>3 DEF Changed
<1>5. IsFiniteSet(Changed)
  BY ChangedFinite
<1>6. /\ IsFiniteSet(Changed \cup {Current})
      /\ Cardinality(Changed \cup {Current}) =
           IF Current \in Changed THEN Cardinality(Changed) ELSE Cardinality(Changed) + 1
  BY <1>5, FS_AddElement
<1>7. Cardinality(Changed) \in Nat
  BY <1>5, FS_CardinalityType
<1>8. QED BY <1>4, <1>6, <1>7

\* Every step counts what it changes.
LEMMA NextCounted == Inv /\ ChangesCounted /\ [Next]_vars => ChangesCounted'
<1> SUFFICES ASSUME Inv, ChangesCounted, [Next]_vars PROVE ChangesCounted'
  OBVIOUS
<1> USE DEF AtGroup, InRange, AtBase, Finish
<1>1. stats.changed \in Nat
  BY DEF Inv, TypeOK
<1>2. CASE orig' = orig /\ newMap' = newMap /\ base' = base /\ stats' = stats
  BY <1>2 DEF ChangesCounted, Changed
<1>3. CASE CopyOutOfRange
  <2>1. Changed' = Changed
    BY <1>3, ChangedGrows DEF CopyOutOfRange
  <2>2. QED BY <1>3, <2>1 DEF CopyOutOfRange, ChangesCounted
<1>4. CASE KeepEntry
  <2>1. orig[Current] \in Entries
    BY <1>4, CurrentLeast DEF KeepEntry, Inv, TypeOK, IsGroupMap
  <2>2. Entry(orig[Current].prev, orig[Current].delta) = orig[Current]
    BY <1>4, <2>1 DEF KeepEntry, Entry, Entries
  <2>3. Changed' = Changed
    BY <1>4, <2>2, ChangedGrows DEF KeepEntry
  <2>4. QED BY <1>4, <2>3 DEF KeepEntry, ChangesCounted
<1>5. CASE StoreFull
  <2>1. /\ Cardinality(Changed) \in Nat /\ Cardinality(Changed') \in Nat
        /\ Cardinality(Changed') =< Cardinality(Changed) + 1
    BY <1>5, ChangedGrows DEF StoreFull
  <2>2. base = NoGroup /\ base' = NoGroup /\ stats'.changed = stats.changed + 1
    BY <1>1, <1>5 DEF StoreFull, Inv, TypeOK
  <2>3. QED BY <1>1, <2>1, <2>2 DEF ChangesCounted
<1>6. CASE StartDelta
  <2>1. Changed' = Changed
    BY <1>6 DEF StartDelta, Changed
  <2>2. base = NoGroup /\ base' # NoGroup /\ stats'.changed = stats.changed + 1
    BY <1>1, <1>6 DEF StartDelta, Inv, TypeOK
  <2>3. Cardinality(Changed) \in Nat
    BY <1>6, ChangedFinite DEF StartDelta
  <2>4. QED BY <1>1, <2>1, <2>2, <2>3 DEF ChangesCounted
<1>7. ASSUME NEW entry, AtBase, Todo # {}, orig' = orig, base' = NoGroup,
             newMap' = Insert(newMap, Current, entry), stats'.changed = stats.changed
      PROVE  ChangesCounted'
  <2>1. /\ Cardinality(Changed) \in Nat /\ Cardinality(Changed') \in Nat
        /\ Cardinality(Changed') =< Cardinality(Changed) + 1
    BY <1>7, ChangedGrows
  <2>2. QED BY <1>1, <1>7, <2>1 DEF ChangesCounted
<1>8. AtBase => Todo # {}
  BY DEF Inv, HeadsBelow
<1>9. CASE UseBase
  BY <1>7, <1>8, <1>9 DEF UseBase
<1>10. CASE ForcedReset
  BY <1>7, <1>8, <1>10 DEF ForcedReset
<1>11. CASE WalkUp
  BY <1>11 DEF WalkUp, ChangesCounted, Changed
<1>12. QED
  BY <1>2, <1>3, <1>4, <1>5, <1>6, <1>9, <1>10, <1>11 DEF Next, MissingBase, vars

\* The statistics count every group whose rows change, for all maps and levels
\* (create_new_tree).
THEOREM CountsCoverChanges == Spec => []CountCoversChanges
<1>1. Init => ChangesCounted
  <2>1. SUFFICES ASSUME Init PROVE ChangesCounted
    OBVIOUS
  <2>2. Changed = {}
    BY <2>1 DEF Init, Changed
  <2>3. Cardinality(Changed) = 0
    BY <2>2, FS_EmptySet
  <2>4. QED BY <2>1, <2>3 DEF Init, NoStats, ChangesCounted
<1>2. Inv /\ ChangesCounted => CountCoversChanges
  <2>1. Inv => Cardinality(Changed) \in Nat
    BY ChangedFinite
  <2>2. QED BY <2>1 DEF ChangesCounted, CountCoversChanges
<1>3. QED BY <1>1, <1>2, NextCounted, InvIsInvariant, PTL DEF Spec

-----------------------------------------------------------------------------
\* A bound on the steps that are left: for each group to come at most one to
\* get to it and one for each older group as a base.
Rank ==
  IF panicked
  THEN 0
  ELSE 1 + Cardinality(Todo) * (MaxGroup + 2) + (IF base = NoGroup THEN MaxGroup + 1 ELSE base)

\* It is a natural number.
LEMMA RankType ==
  ASSUME Inv
  PROVE  /\ IsFiniteSet(Todo) /\ Cardinality(Todo) \in Nat
         /\ Cardinality(Todo) * (MaxGroup + 2) \in Nat
         /\ base # NoGroup => base \in 1 .. MaxGroup
         /\ Rank \in Nat
<1>1. MaxGroup \in Nat
  BY MaxGroupAssumption
<1>2. IsFiniteSet(Groups)
  BY <1>1, FS_Interval DEF Groups
<1>3. Todo \subseteq Groups
  BY DEF Todo, Inv, TypeOK, IsGroupMap
<1>4. IsFiniteSet(Todo) /\ Cardinality(Todo) \in Nat
  BY <1>2, <1>3, FS_Subset, FS_CardinalityType
<1>5. base # NoGroup => base \in 1 .. MaxGroup
  BY DEF Inv, TypeOK, OptGroup, Groups
<1>6. Cardinality(Todo) * (MaxGroup + 2) \in Nat
  BY <1>1, <1>4
<1>7. Rank \in Nat
  BY <1>1, <1>5, <1>6 DEF Rank
<1>8. QED BY <1>4, <1>5, <1>6, <1>7

\* Storing a group leaves one less to come.
LEMMA TodoFalls ==
  ASSUME Inv, Todo # {}, NEW entry, newMap' = Insert(newMap, Current, entry), orig' = orig
  PROVE  Cardinality(Todo') = Cardinality(Todo) - 1
<1>1. Todo' = Todo \ {Current}
  BY DEF Todo, Insert
<1>2. Current \in Todo
  BY CurrentLeast DEF Inv
<1>3. QED BY <1>1, <1>2, RankType, FS_RemoveElement

\* Every step brings the end closer.
LEMMA RankFalls == Inv /\ Next => Rank' < Rank
<1> SUFFICES ASSUME Inv, Next PROVE Rank' < Rank
  OBVIOUS
<1> DEFINE n == Cardinality(Todo)
           w == MaxGroup + 2
<1>1. MaxGroup \in Nat /\ w \in Nat /\ n \in Nat /\ n * w \in Nat /\ MaxGroup' = MaxGroup
  BY RankType, MaxGroupAssumption
<1>2. base # NoGroup => base \in 1 .. MaxGroup
  BY RankType
<1>3. ~ panicked
  BY DEF Next, CopyOutOfRange, KeepEntry, StoreFull, StartDelta, UseBase, WalkUp, ForcedReset,
         MissingBase, InRange, AtGroup, AtBase
<1>4. Rank = 1 + n * w + (IF base = NoGroup THEN MaxGroup + 1 ELSE base)
  BY <1>3 DEF Rank
<1>5. ASSUME NEW entry, Todo # {}, newMap' = Insert(newMap, Current, entry), orig' = orig,
             base' = NoGroup, panicked' = panicked
      PROVE  Rank' < Rank
  <2>1. Cardinality(Todo') = n - 1
    BY <1>5, TodoFalls
  <2>2. (n - 1) * w = n * w - w
    BY <1>1
  <2>3. Rank' = 1 + (n * w - w) + (MaxGroup + 1)
    BY <1>3, <1>5, <2>1, <2>2 DEF Rank
  <2>4. QED BY <1>1, <1>2, <1>4, <2>3
<1>6. ASSUME Todo' = Todo, panicked' = panicked, base' # NoGroup,
             base' \in 1 .. MaxGroup, base = NoGroup \/ base' < base
      PROVE  Rank' < Rank
  <2>1. Rank' = 1 + n * w + base'
    BY <1>3, <1>6 DEF Rank
  <2>2. QED BY <1>1, <1>2, <1>4, <1>6, <2>1
<1>7. AtBase => Todo # {}
  BY DEF AtBase, Inv, HeadsBelow
<1>8. CASE CopyOutOfRange \/ KeepEntry \/ StoreFull
  BY <1>5, <1>8 DEF CopyOutOfRange, KeepEntry, StoreFull, InRange, AtGroup, Finish
<1>9. CASE UseBase \/ ForcedReset
  BY <1>5, <1>7, <1>9 DEF UseBase, ForcedReset, Finish
<1>10. CASE StartDelta
  <2>1. base' \in Groups
    BY <1>10, CandidateIsHead DEF StartDelta, Inv, TypeOK
  <2>2. QED BY <1>6, <1>10, <2>1 DEF StartDelta, InRange, AtGroup, Todo, Groups
<1>11. CASE WalkUp
  <2>1. base \in DOMAIN newMap
    BY <1>11, BaseStored DEF WalkUp, AtBase
  <2>2. newMap[base].prev \in Groups /\ newMap[base].prev < base
    BY <1>11, <2>1 DEF WalkUp, Inv, TypeOK, IsGroupMap, WellFormed
  <2>3. QED BY <1>6, <1>11, <2>2 DEF WalkUp, Todo, Groups
<1>12. CASE MissingBase
  BY <1>1, <1>2, <1>4, <1>12 DEF MissingBase, Rank
<1>13. QED
  BY <1>8, <1>9, <1>10, <1>11, <1>12 DEF Next

\* Compressing ends after a number of steps that is known when it begins,
\* for all maps and levels: the rank is a natural number and every step of the
\* loops of create_new_tree and get_delta makes it smaller.
THEOREM StepsRunOut == Spec => [](Rank \in Nat) /\ [][Rank' < Rank]_vars
<1>1. Inv => Rank \in Nat
  BY RankType
<1>2. Inv /\ [Next]_vars => [Rank' < Rank]_vars
  BY RankFalls
<1>3. QED BY <1>1, <1>2, InvIsInvariant, PTL DEF Spec
=============================================================================
