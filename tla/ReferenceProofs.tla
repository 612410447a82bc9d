--------------------------- MODULE ReferenceProofs ---------------------------
(***************************************************************************)
(* The compressor computes what CompressorReference says, and computes it  *)
(* again from any mix of its input and its output.                         *)
(*                                                                         *)
(* Where Compressor keeps levels that it changes as it goes, the reference *)
(* has a function from groups to levels, and where get_delta walks, a set  *)
(* of bases; the invariant relates the one to the other.                   *)
(*                                                                         *)
(* On lines of groups it computes what the arithmetic says: the levels     *)
(* count the groups they are offered like the digits of a number, and the  *)
(* invariant says which digits the number of the current group has.        *)
(***************************************************************************)
EXTENDS CompressorReference, CompressorProofs

-----------------------------------------------------------------------------
\* Placing a group leaves the sizes of the levels as they are.
LEMMA PlaceSizes ==
  ASSUME NEW ls \in Seq(Level), NEW g
  PROVE  /\ DOMAIN Place(ls, g) = DOMAIN ls
         /\ \A i \in DOMAIN ls : Place(ls, g)[i].max = ls[i].max
BY DEF Place, Update

\* So the levels a run started from can be told from those it has.
LEMMA SameInitial ==
  ASSUME NEW ls \in Seq(Level), NEW g, levels = ls, levels' = Place(ls, g) \/ levels' = ls
  PROVE  Initial' = Initial
<1>1. [i \in DOMAIN levels' |-> levels'[i].max] = [i \in DOMAIN levels |-> levels[i].max]
  BY PlaceSizes
<1>2. QED BY <1>1 DEF Initial

\* Those levels are empty.
LEMMA InitialEmpty ==
  ASSUME levels \in Seq(Level)
  PROVE  Initial \in Seq(Level) /\ Heads(Initial) = {}
<1> DEFINE n == Len(levels)
<1>1. n \in Nat /\ DOMAIN levels = 1 .. n /\ \A i \in 1 .. n : levels[i] \in Level
  OBVIOUS
<1>2. \A i \in 1 .. n : levels[i].max \in Nat
  BY <1>1 DEF Level
<1>3. Initial = [i \in 1 .. n |-> NewLevel(levels[i].max)]
  BY <1>1 DEF Initial, Fresh
<1>4. \A i \in 1 .. n : NewLevel(levels[i].max) \in Level
  BY <1>2 DEF NewLevel, Level, OptGroup
<1> HIDE DEF n
<1>5. Initial \in [1 .. n -> Level]
  BY <1>3, <1>4
<1>6. Initial \in Seq(Level)
  BY <1>1, <1>5
<1>7. \A i \in DOMAIN Initial : Initial[i].head = NoGroup
  BY <1>3 DEF NewLevel
<1>8. QED BY <1>6, <1>7 DEF Heads

\* The last group placed before another is older, and one of the map.
LEMMA LastPlaced ==
  ASSUME NEW map, HasRows(map), NEW g, Placed(map, g) # {}
  PROVE  /\ Max(Placed(map, g)) \in Placed(map, g)
         /\ \A h \in Placed(map, g) : h =< Max(Placed(map, g))
         /\ Max(Placed(map, g)) \in DOMAIN map
         /\ Max(Placed(map, g)) \in Groups
         /\ Max(Placed(map, g)) < g
<1>1. Placed(map, g) \in SUBSET Groups
  BY DEF Placed, HasRows
<1>2. Max(Placed(map, g)) \in Placed(map, g) /\ \A h \in Placed(map, g) : Max(Placed(map, g)) >= h
  BY <1>1, MaxGreatest
<1>3. Placed(map, g) \in SUBSET Nat
  BY <1>1, MaxGroupAssumption DEF Groups
<1>4. QED BY <1>1, <1>2, <1>3 DEF Placed

\* The levels of the reference are defined, group by group.
LEMMA LevelsAtSolves ==
  ASSUME NEW map, HasRows(map), NEW first \in Seq(Level)
  PROVE  \A g \in DOMAIN map :
           /\ LevelsAt(map, first)[g] \in Seq(Level)
           /\ LevelsAt(map, first)[g] =
                IF Placed(map, g) = {}
                THEN first
                ELSE Place(LevelsAt(map, first)[Max(Placed(map, g))], Max(Placed(map, g)))
<1> DEFINE D     == DOMAIN map
           S     == Seq(Level)
           root  == {g \in D : Placed(map, g) = {}}
           start == [g \in root |-> first]
           pred  == [g \in D \ root |-> Max(Placed(map, g))]
           step  == [g \in D |-> [ls \in S |->
                       IF Placed(map, g) = {} THEN ls ELSE Place(ls, Max(Placed(map, g)))]]
           IsAt(f) == f = [g \in D |-> IF Placed(map, g) = {}
                                       THEN first
                                       ELSE Place(f[Max(Placed(map, g))], Max(Placed(map, g)))]
<1>1. D \in SUBSET Nat /\ MaxGroup + 1 \in Nat /\ \A g \in D : g < MaxGroup + 1
  BY MaxGroupAssumption DEF HasRows, Groups
<1>2. root \in SUBSET D /\ start \in [root -> S]
  OBVIOUS
<1>3. pred \in [D \ root -> D] /\ \A g \in D \ root : pred[g] < g
  BY LastPlaced
<1>4. step \in [D -> [S -> S]]
  <2>1. \A g \in D : \A ls \in S :
          Placed(map, g) # {} => Place(ls, Max(Placed(map, g))) \in S
    BY LastPlaced, PlaceHeads
  <2>2. QED BY <2>1
<1>5. PICK f \in [D -> S] :
        \A g \in D : f[g] = IF g \in root THEN start[g] ELSE step[g][f[pred[g]]]
  <2>1. IsRecursion(D, MaxGroup + 1, S, root, start, pred, step)
    <3> HIDE DEF D, S, root, start, pred, step
    <3>1. QED BY <1>1, <1>2, <1>3, <1>4 DEF IsRecursion
  <2> HIDE DEF D, S, root, start, pred, step
  <2>2. QED BY <2>1, RecursionExists
<1>6. \A g \in D :
        f[g] = IF Placed(map, g) = {}
               THEN first
               ELSE Place(f[Max(Placed(map, g))], Max(Placed(map, g)))
  <2>1. \A g \in D \ root : f[pred[g]] \in S
    <3> HIDE DEF D, S, root, pred
    <3>1. QED BY <1>3
  <2>2. QED BY <1>5, <2>1
<1>7. IsAt(f)
  BY <1>6
<1> DEFINE F == CHOOSE h : IsAt(h)
<1>8. LevelsAt(map, first) = F
  BY DEF LevelsAt
<1>9. IsAt(F)
  BY <1>7
<1> HIDE DEF F
<1>10. \A g \in D :
         F[g] = IF Placed(map, g) = {}
                THEN first
                ELSE Place(F[Max(Placed(map, g))], Max(Placed(map, g)))
  BY <1>9
<1>11. \A g \in D : F[g] \in S
  <2> DEFINE Bad == {g \in D : F[g] \notin S}
  <2>1. SUFFICES ASSUME Bad # {} PROVE FALSE
    OBVIOUS
  <2>2. PICK g \in Bad : \A h \in Bad : g =< h
    <3>1. Bad \in SUBSET Nat
      BY <1>1
    <3> HIDE DEF Bad
    <3>2. QED BY <2>1, <3>1, MinNat
  <2>3. CASE Placed(map, g) = {}
    BY <1>10, <2>2, <2>3
  <2>4. CASE Placed(map, g) # {}
    <3> DEFINE last == Max(Placed(map, g))
    <3>1. last \in D /\ last \in Groups /\ last < g
      BY <2>4, LastPlaced
    <3>2. last \in Nat /\ g \in Nat
      BY <1>1, <2>2, <3>1
    <3>3. F[last] \in S
      BY <2>2, <3>1, <3>2
    <3>4. Place(F[last], last) \in S
      BY <3>1, <3>3, PlaceHeads
    <3>5. F[g] = Place(F[last], last)
      BY <1>10, <2>2, <2>4
    <3>6. QED BY <2>2, <3>4, <3>5
  <2>5. QED BY <2>3, <2>4
<1>12. QED BY <1>8, <1>10, <1>11

\* The heads of the levels at a group are groups placed before.
LEMMA HeadsAt ==
  ASSUME NEW map, HasRows(map), NEW first \in Seq(Level), Heads(first) = {}
  PROVE  \A g \in DOMAIN map : Heads(LevelsAt(map, first)[g]) \subseteq Placed(map, g)
<1> DEFINE Bad == {g \in DOMAIN map : ~ (Heads(LevelsAt(map, first)[g]) \subseteq Placed(map, g))}
<1>1. SUFFICES ASSUME Bad # {} PROVE FALSE
  OBVIOUS
<1>2. DOMAIN map \in SUBSET Nat
  BY MaxGroupAssumption DEF HasRows, Groups
<1>3. PICK g \in Bad : \A h \in Bad : g =< h
  <2> HIDE DEF Bad
  <2>1. Bad \in SUBSET Nat
    BY <1>2 DEF Bad
  <2>2. QED BY <1>1, <2>1, MinNat
<1>4. CASE Placed(map, g) = {}
  <2>1. LevelsAt(map, first)[g] = first
    BY <1>4, LevelsAtSolves
  <2>2. QED BY <2>1
<1>5. CASE Placed(map, g) # {}
  <2> DEFINE last == Max(Placed(map, g))
             ls   == LevelsAt(map, first)[last]
  <2>1. last \in Placed(map, g) /\ last \in DOMAIN map /\ last \in Groups /\ last < g
    BY <1>5, LastPlaced
  <2>2. last \in Nat /\ g \in Nat
    BY <1>2, <2>1
  <2>3. Heads(ls) \subseteq Placed(map, last)
    <3> HIDE DEF last, ls
    <3>1. last \notin Bad
      BY <1>3, <2>1, <2>2
    <3>2. QED BY <2>1, <3>1 DEF ls
  <2>4. Placed(map, last) \subseteq Placed(map, g)
    <3> HIDE DEF last
    <3>1. \A h \in DOMAIN map : h < last => h < g
      BY <1>2, <2>1, <2>2
    <3>2. QED BY <3>1 DEF Placed
  <2>5. Heads(Place(ls, last)) \subseteq Heads(ls) \cup {last}
    BY <2>1, LevelsAtSolves, PlaceHeads
  <2>6. LevelsAt(map, first)[g] = Place(ls, last)
    BY <1>5, LevelsAtSolves
  <2> HIDE DEF last, ls
  <2>7. Heads(LevelsAt(map, first)[g]) \subseteq Placed(map, g)
    BY <2>1, <2>3, <2>4, <2>5, <2>6
  <2>8. QED BY <2>7
<1>6. QED BY <1>4, <1>5

\* The levels depend on which groups are in range, and on nothing else of a
\* map.
LEMMA SameLevelsAt ==
  ASSUME NEW map, HasRows(map), NEW other, HasRows(other), DOMAIN other = DOMAIN map,
         \A g \in DOMAIN map : other[g].in_range = map[g].in_range,
         NEW first \in Seq(Level)
  PROVE  \A g \in DOMAIN map : LevelsAt(other, first)[g] = LevelsAt(map, first)[g]
<1> DEFINE Bad == {g \in DOMAIN map : LevelsAt(other, first)[g] # LevelsAt(map, first)[g]}
<1>1. SUFFICES ASSUME Bad # {} PROVE FALSE
  OBVIOUS
<1>2. DOMAIN map \in SUBSET Nat
  BY MaxGroupAssumption DEF HasRows, Groups
<1>3. PICK g \in Bad : \A h \in Bad : g =< h
  <2> HIDE DEF Bad
  <2>1. Bad \in SUBSET Nat
    BY <1>2 DEF Bad
  <2>2. QED BY <1>1, <2>1, MinNat
<1>4. Placed(other, g) = Placed(map, g)
  BY DEF Placed
<1>5. CASE Placed(map, g) = {}
  BY <1>3, <1>4, <1>5, LevelsAtSolves
<1>6. CASE Placed(map, g) # {}
  <2> DEFINE last == Max(Placed(map, g))
  <2>1. last \in DOMAIN map /\ last < g
    BY <1>6, LastPlaced
  <2>2. last \in Nat /\ g \in Nat
    BY <1>2, <2>1
  <2>3. LevelsAt(other, first)[last] = LevelsAt(map, first)[last]
    <3> HIDE DEF last
    <3>1. last \notin Bad
      BY <1>3, <2>1, <2>2
    <3>2. QED BY <2>1, <3>1
  <2>4. LevelsAt(other, first)[g] = LevelsAt(map, first)[g]
    BY <1>4, <1>6, <2>3, LevelsAtSolves
  <2>5. QED BY <2>4
<1>7. QED BY <1>5, <1>6

-----------------------------------------------------------------------------
\* The chain of a group is the group and the chain of its predecessor.
LEMMA AncestrySolves ==
  ASSUME NEW map, HasRows(map), WellFormed(map)
  PROVE  \A g \in DOMAIN map :
           Ancestry(map)[g] =
             {g} \cup (IF map[g].prev = NoGroup THEN {} ELSE Ancestry(map)[map[g].prev])
<1> DEFINE S     == SUBSET Nat
           start == [g \in DOMAIN map |-> {g}]
           step  == [g \in DOMAIN map |-> [T \in S |-> {g} \cup T]]
           IsChain(f) == f = [g \in DOMAIN map |->
             {g} \cup (IF map[g].prev = NoGroup THEN {} ELSE f[map[g].prev])]
<1>1. DOMAIN map \in SUBSET Nat
  BY MaxGroupAssumption DEF HasRows, Groups
<1>2. start \in [DOMAIN map -> S] /\ step \in [DOMAIN map -> [S -> S]]
  BY <1>1
<1>3. PICK f \in [DOMAIN map -> S] : \A g \in DOMAIN map :
        f[g] = IF map[g].prev = NoGroup THEN start[g] ELSE step[g][f[map[g].prev]]
  <2>1. IsMapRecursion(map, S, start, step)
    BY <1>2 DEF IsMapRecursion
  <2> HIDE DEF S, start, step
  <2>2. QED BY <2>1, MapRecursion
<1>4. \A g \in DOMAIN map :
        f[g] = {g} \cup (IF map[g].prev = NoGroup THEN {} ELSE f[map[g].prev])
  <2>1. \A g \in DOMAIN map : map[g].prev # NoGroup => f[map[g].prev] \in S
    BY DEF WellFormed
  <2>2. \A g \in DOMAIN map : map[g].prev # NoGroup => f[g] = {g} \cup f[map[g].prev]
    BY <1>3, <2>1
  <2>3. \A g \in DOMAIN map : map[g].prev = NoGroup => f[g] = {g}
    BY <1>3
  <2>4. QED BY <2>2, <2>3
<1>5. IsChain(f)
  BY <1>4
<1> DEFINE F == CHOOSE h : IsChain(h)
<1>6. Ancestry(map) = F
  BY DEF Ancestry
<1>7. IsChain(F)
  BY <1>5
<1> HIDE DEF F
<1>8. \A g \in DOMAIN map :
        F[g] = {g} \cup (IF map[g].prev = NoGroup THEN {} ELSE F[map[g].prev])
  BY <1>7
<1>9. QED BY <1>6, <1>8

\* A chain is made of older groups.
LEMMA AncestryOlder ==
  ASSUME NEW map, HasRows(map), WellFormed(map)
  PROVE  \A g \in DOMAIN map :
           /\ g \in Ancestry(map)[g]
           /\ Ancestry(map)[g] \subseteq DOMAIN map
           /\ \A h \in Ancestry(map)[g] : h =< g
<1> DEFINE Ok(g) == Ancestry(map)[g] \subseteq DOMAIN map /\ \A h \in Ancestry(map)[g] : h =< g
           Bad == {g \in DOMAIN map : ~ Ok(g)}
<1>1. DOMAIN map \in SUBSET Nat
  BY MaxGroupAssumption DEF HasRows, Groups
<1>2. Bad = {}
  <2>1. SUFFICES ASSUME Bad # {} PROVE FALSE
    OBVIOUS
  <2>2. PICK g \in Bad : \A h \in Bad : g =< h
    <3> HIDE DEF Bad
    <3>1. Bad \in SUBSET Nat
      BY <1>1 DEF Bad
    <3>2. QED BY <2>1, <3>1, MinNat
  <2>3. g \in DOMAIN map /\ g \in Nat /\ ~ Ok(g)
    BY <1>1, <2>2
  <2>4. CASE map[g].prev = NoGroup
    <3>1. Ancestry(map)[g] = {g}
      BY <2>3, <2>4, AncestrySolves
    <3>2. g =< g
      BY <2>3
    <3>3. QED BY <2>3, <3>1, <3>2
  <2>5. CASE map[g].prev # NoGroup
    <3> DEFINE prev == map[g].prev
    <3>1. prev \in DOMAIN map /\ prev < g /\ prev \in Nat
      BY <1>1, <2>3, <2>5 DEF WellFormed
    <3>2. Ok(prev)
      <4> HIDE DEF Ok, prev
      <4>1. prev \notin Bad
        BY <2>2, <2>3, <3>1
      <4>2. QED BY <3>1, <4>1
    <3>3. Ancestry(map)[g] = {g} \cup Ancestry(map)[prev]
      BY <2>3, <2>5, AncestrySolves
    <3> HIDE DEF prev
    <3>4. \A h \in Ancestry(map)[prev] : h \in Nat /\ h =< g
      BY <1>1, <2>3, <3>1, <3>2
    <3>5. Ok(g)
      BY <2>3, <3>2, <3>3, <3>4
    <3>6. QED BY <2>3, <3>5
  <2>6. QED BY <2>4, <2>5
<1>3. \A g \in DOMAIN map : Ok(g)
  BY <1>2
<1>4. QED BY <1>3, AncestrySolves

\* A chain goes through the chains of all its groups.
LEMMA AncestryWithin ==
  ASSUME NEW map, HasRows(map), WellFormed(map)
  PROVE  \A g \in DOMAIN map : \A h \in Ancestry(map)[g] :
           Ancestry(map)[h] \subseteq Ancestry(map)[g]
<1> DEFINE Ok(g) == \A h \in Ancestry(map)[g] : Ancestry(map)[h] \subseteq Ancestry(map)[g]
           Bad == {g \in DOMAIN map : ~ Ok(g)}
<1>1. SUFFICES ASSUME Bad # {} PROVE FALSE
  OBVIOUS
<1>2. Bad \in SUBSET Nat
  BY GroupMapRows
<1>3. PICK g \in Bad : \A h \in Bad : g =< h
  <2> HIDE DEF Bad
  <2> QED BY <1>1, <1>2, MinNat
<1>4. map[g].prev # NoGroup => Ok(map[g].prev)
  <2>1. ASSUME map[g].prev # NoGroup
        PROVE  map[g].prev \in DOMAIN map /\ map[g].prev \in Nat /\ map[g].prev < g
    BY <2>1, GroupMapRows DEF WellFormed
  <2> HIDE DEF Ok
  <2>2. ASSUME map[g].prev # NoGroup PROVE map[g].prev \notin Bad
    BY <2>1, <2>2, <1>2, <1>3
  <2>3. QED BY <2>1, <2>2
<1>5. Ancestry(map)[g] = {g} \cup (IF map[g].prev = NoGroup THEN {} ELSE Ancestry(map)[map[g].prev])
  BY AncestrySolves
<1>6. Ok(g)
  BY <1>4, <1>5
<1>7. QED BY <1>6

\* The chains of a map are those of a larger one.
LEMMA PartAncestry ==
  ASSUME NEW map, HasRows(map), WellFormed(map),
         NEW other, HasRows(other), WellFormed(other),
         DOMAIN map \subseteq DOMAIN other,
         \A g \in DOMAIN map : other[g].prev = map[g].prev
  PROVE  \A g \in DOMAIN map : Ancestry(other)[g] = Ancestry(map)[g]
<1> DEFINE Bad == {g \in DOMAIN map : Ancestry(other)[g] # Ancestry(map)[g]}
<1>1. SUFFICES ASSUME Bad # {} PROVE FALSE
  OBVIOUS
<1>2. Bad \in SUBSET Nat
  BY GroupMapRows
<1>3. PICK g \in Bad : \A h \in Bad : g =< h
  <2> HIDE DEF Bad
  <2> QED BY <1>1, <1>2, MinNat
<1>4. map[g].prev # NoGroup => Ancestry(other)[map[g].prev] = Ancestry(map)[map[g].prev]
  <2>1. ASSUME map[g].prev # NoGroup
        PROVE  map[g].prev \in DOMAIN map /\ map[g].prev \in Nat /\ map[g].prev < g
    BY <2>1, GroupMapRows DEF WellFormed
  <2>2. ASSUME map[g].prev # NoGroup PROVE map[g].prev \notin Bad
    BY <2>1, <2>2, <1>2, <1>3
  <2>3. QED BY <2>1, <2>2
<1>5. Ancestry(other)[g] = Ancestry(map)[g]
  <2>1. /\ Ancestry(map)[g] =
             {g} \cup (IF map[g].prev = NoGroup THEN {} ELSE Ancestry(map)[map[g].prev])
        /\ Ancestry(other)[g] =
             {g} \cup (IF other[g].prev = NoGroup THEN {} ELSE Ancestry(other)[other[g].prev])
    BY AncestrySolves
  <2>2. QED BY <2>1, <1>4
<1>6. QED BY <1>5

-----------------------------------------------------------------------------
\* The head the levels offer a group, and the row the reference gives it.
HeadOf(g) == Candidate(LevelsAt(orig, Initial)[g])

RefRow(g) ==
  IF orig[g].in_range /\ HeadOf(g) # orig[g].prev
  THEN NewestRow(Bases(newMap, Original, HeadOf(g), g), Original, g)
  ELSE orig[g]

\* The groups placed so far, and the levels with the last of them.
Compressed == {g \in DOMAIN newMap : orig[g].in_range}

LevelsNow ==
  IF Compressed = {}
  THEN Initial
  ELSE Place(LevelsAt(orig, Initial)[Max(Compressed)], Max(Compressed))

\* get_delta is on the chain of the head it was given, and no base that fits
\* has been passed.
WalkInv ==
  base # NoGroup =>
    /\ orig[Current].in_range
    /\ HeadOf(Current) \notin {NoGroup, orig[Current].prev}
    /\ base \in Ancestry(newMap)[HeadOf(Current)]
    /\ \A b \in Ancestry(newMap)[HeadOf(Current)] :
         Fits(Original[b], Original[Current]) => b \in Ancestry(newMap)[base]

RefInv ==
  /\ levels = IF base = NoGroup
              THEN LevelsNow
              ELSE Place(LevelsAt(orig, Initial)[Current], Current)
  /\ \A g \in DOMAIN newMap : newMap[g] = RefRow(g)
  /\ WalkInv

\* The types that are needed all over.
LEMMA RefTypes ==
  ASSUME Inv
  PROVE  /\ HasRows(orig) /\ HasRows(newMap) /\ WellFormed(orig) /\ WellFormed(newMap)
         /\ levels \in Seq(Level)
         /\ Initial \in Seq(Level) /\ Heads(Initial) = {}
         /\ DOMAIN newMap \subseteq DOMAIN orig
         /\ DOMAIN orig \in SUBSET Groups /\ Groups \in SUBSET Nat
BY EntriesAreRows, InitialEmpty, MaxGroupAssumption
   DEF Inv, TypeOK, Prefix, IsGroupMap, Groups

\* Max of a set that has a greatest element is that element.
LEMMA MaxIs ==
  ASSUME NEW T \in SUBSET Groups, NEW x \in T, \A y \in T : y =< x
  PROVE  Max(T) = x
<1>1. Max(T) \in T /\ \A y \in T : Max(T) >= y
  BY MaxGreatest
<1>2. \A y \in T : y \in Nat
  BY MaxGroupAssumption DEF Groups
<1>3. Max(T) =< x /\ Max(T) >= x /\ Max(T) \in Nat /\ x \in Nat
  BY <1>1, <1>2
<1>4. QED BY <1>3

\* When the loop is at a group, the levels are what the reference has there.
LEMMA LevelsHere ==
  ASSUME Inv, Todo # {}
  PROVE  LevelsNow = LevelsAt(orig, Initial)[Current]
<1>1. Placed(orig, Current) = Compressed
  <2>1. ASSUME NEW g \in DOMAIN orig PROVE g < Current <=> g \in DOMAIN newMap
    <3>1. Current \in Todo /\ Current \in Nat /\ \A h \in Todo : Current =< h
      BY CurrentLeast DEF Inv
    <3>2. g \in Nat
      BY RefTypes
    <3>3. g \in DOMAIN newMap => g < Current
      BY <3>1 DEF Inv, Prefix
    <3>4. g \notin DOMAIN newMap => ~ (g < Current)
      BY <3>1, <3>2 DEF Todo
    <3>5. QED BY <3>3, <3>4
  <2>2. QED BY <2>1, RefTypes DEF Placed, Compressed
<1>2. Current \in DOMAIN orig
  BY CurrentLeast DEF Inv
<1>3. QED BY <1>1, <1>2, RefTypes, LevelsAtSolves DEF LevelsNow

\* The head that is offered to a group is in the new map when the loop gets
\* there.
LEMMA HeadStored ==
  ASSUME Inv, NEW g \in DOMAIN orig, HeadOf(g) # NoGroup,
         g \in DOMAIN newMap \/ g = Current
  PROVE  HeadOf(g) \in DOMAIN newMap /\ HeadOf(g) < g
<1> DEFINE head == HeadOf(g)
<1>1. LevelsAt(orig, Initial)[g] \in Seq(Level)
  BY RefTypes, LevelsAtSolves
<1>2. head \in Heads(LevelsAt(orig, Initial)[g])
  BY <1>1, CandidateIsHead DEF HeadOf
<1>3. head \in DOMAIN orig /\ head < g
  BY <1>2, RefTypes, HeadsAt DEF Placed
<1>4. head \in Nat /\ g \in Nat
  BY <1>3, RefTypes
<1> HIDE DEF head
<1>5. head \notin Todo
  <2>1. SUFFICES ASSUME head \in Todo PROVE FALSE
    OBVIOUS
  <2>2. Current \in Nat /\ Current =< head
    BY <2>1, CurrentLeast DEF Inv
  <2>3. g \in DOMAIN newMap => g < head
    BY <2>1 DEF Inv, Prefix
  <2>4. QED BY <1>3, <1>4, <2>2, <2>3
<1>6. head \in DOMAIN newMap
  BY <1>3, <1>5 DEF Todo
<1>7. QED BY <1>3, <1>6 DEF head

-----------------------------------------------------------------------------
\* A step that gives the current group the row of the reference keeps the
\* invariant.
LEMMA FinishRef ==
  ASSUME Inv, Inv', RefInv, Todo # {}, orig' = orig, base' = NoGroup,
         newMap' = Insert(newMap, Current, RefRow(Current)),
         levels' = IF orig[Current].in_range
                   THEN Place(LevelsAt(orig, Initial)[Current], Current)
                   ELSE LevelsNow,
         Initial' = Initial
  PROVE  RefInv'
<1>1. /\ Current \in Todo /\ Current \in DOMAIN orig /\ Current \notin DOMAIN newMap
      /\ Current \in Groups
  BY CurrentLeast DEF Inv, Todo
<1>2. /\ DOMAIN newMap' = DOMAIN newMap \cup {Current}
      /\ newMap'[Current] = RefRow(Current)
      /\ \A g \in DOMAIN newMap : newMap'[g] = newMap[g]
  BY <1>1 DEF Insert
<1>3. Original' = Original
  BY DEF Original
<1>4. \A g : HeadOf(g)' = HeadOf(g)
  BY DEF HeadOf
<1>5. levels' = LevelsNow'
  <2>1. CASE orig[Current].in_range
    <3>1. Compressed' = Compressed \cup {Current}
      BY <1>2, <2>1 DEF Compressed
    <3>2. Compressed' \in SUBSET Groups /\ Current \in Compressed'
      BY <1>1, <3>1, RefTypes DEF Compressed
    <3>3. \A g \in Compressed' : g =< Current
      <4>1. \A g \in Compressed : g \in Nat /\ g < Current
        BY <1>1, RefTypes DEF Compressed, Inv, Prefix
      <4>2. Current \in Nat
        BY <1>1, RefTypes
      <4>3. QED BY <3>1, <4>1, <4>2
    <3>4. Max(Compressed') = Current
      <4> DEFINE T == Compressed'
      <4>1. T \in SUBSET Groups /\ Current \in T /\ \A g \in T : g =< Current
        BY <3>2, <3>3
      <4> HIDE DEF T
      <4>2. Max(T) = Current
        BY <4>1, MaxIs
      <4>3. QED BY <4>2 DEF T
    <3>5. LevelsNow' = Place(LevelsAt(orig, Initial)[Current], Current)
      BY <3>2, <3>4 DEF LevelsNow
    <3>6. QED BY <2>1, <3>5
  <2>2. CASE ~ orig[Current].in_range
    <3>1. Compressed' = Compressed
      BY <1>2, <2>2 DEF Compressed
    <3>2. LevelsNow' = LevelsNow
      BY <3>1 DEF LevelsNow
    <3>3. QED BY <2>2, <3>2
  <2>3. QED BY <2>1, <2>2
<1>6. ASSUME NEW g \in DOMAIN newMap' PROVE RefRow(g)' = RefRow(g)
  <2>1. g \in DOMAIN orig /\ (g \in DOMAIN newMap \/ g = Current)
    BY <1>1, <1>2, RefTypes
  <2>2. HeadOf(g) # NoGroup => Ancestry(newMap')[HeadOf(g)] = Ancestry(newMap)[HeadOf(g)]
    <3>1. /\ HasRows(newMap) /\ WellFormed(newMap)
          /\ HasRows(newMap') /\ WellFormed(newMap')
      <4>1. IsGroupMap(newMap')
        BY DEF Inv, TypeOK
      <4>2. QED BY <4>1, RefTypes, EntriesAreRows DEF Inv
    <3>2. \A h \in DOMAIN newMap : Ancestry(newMap')[h] = Ancestry(newMap)[h]
      BY <1>2, <3>1, PartAncestry
    <3>3. QED BY <2>1, <3>2, HeadStored
  <2>3. Bases(newMap', Original, HeadOf(g), g) = Bases(newMap, Original, HeadOf(g), g)
    BY <2>2 DEF Bases
  <2>4. RefRow(g)' = IF orig[g].in_range /\ HeadOf(g) # orig[g].prev
                     THEN NewestRow(Bases(newMap', Original, HeadOf(g), g), Original, g)
                     ELSE orig[g]
    BY <1>3, <1>4 DEF RefRow
  <2>5. QED BY <2>3, <2>4 DEF RefRow
<1>7. \A g \in DOMAIN newMap' : newMap'[g] = RefRow(g)'
  BY <1>2, <1>6 DEF RefInv
<1>8. QED BY <1>5, <1>7 DEF RefInv, WalkInv

\* The compressor starts where the reference does.
LEMMA InitRef ==
  ASSUME newMap = <<>>, base = NoGroup, levels = Initial
  PROVE  RefInv
<1>1. DOMAIN newMap = {}
  OBVIOUS
<1>2. Compressed = {}
  BY <1>1 DEF Compressed
<1>3. QED BY <1>1, <1>2 DEF RefInv, WalkInv, LevelsNow

\* Every step of the compressor is one of the reference.
LEMMA NextRef ==
  ASSUME Inv, Inv', RefInv, BasesLoaded, Next
  PROVE  RefInv'
<1> USE DEF AtGroup, InRange, AtBase, Finish
<1> DEFINE here == LevelsAt(orig, Initial)[Current]
<1>1. Initial' = Initial
  <2>1. levels' = levels \/ levels' = Place(levels, Current)
    BY DEF Next, CopyOutOfRange, KeepEntry, StoreFull, StartDelta, UseBase, WalkUp,
           ForcedReset, MissingBase
  <2>2. QED BY <2>1, RefTypes, SameInitial
<1>2. Todo # {}
  BY DEF Next, CopyOutOfRange, KeepEntry, StoreFull, StartDelta, UseBase, WalkUp,
         ForcedReset, MissingBase, Inv, HeadsBelow
<1>3. base = NoGroup => levels = here /\ levels = LevelsNow
  BY <1>2, LevelsHere DEF RefInv
<1>4. base # NoGroup =>
        /\ levels = Place(here, Current) /\ WalkInv
        /\ base \in DOMAIN newMap
  BY BaseStored DEF RefInv, BasesLoaded
<1>5. /\ Current \in DOMAIN orig
      /\ HeadOf(Current) = Candidate(here)
      /\ HeadOf(Current) # NoGroup => HeadOf(Current) \in DOMAIN newMap
  BY <1>2, CurrentLeast, HeadStored DEF HeadOf, Inv
<1> HIDE DEF here
<1>6. ASSUME orig' = orig, base' = NoGroup, newMap' = Insert(newMap, Current, RefRow(Current)),
             levels' = IF orig[Current].in_range THEN Place(here, Current) ELSE LevelsNow
      PROVE  RefInv'
  BY <1>1, <1>2, <1>6, FinishRef DEF here
<1>7. CASE CopyOutOfRange
  BY <1>3, <1>6, <1>7 DEF CopyOutOfRange, RefRow
<1>8. CASE KeepEntry
  <2>1. RefRow(Current) = orig[Current]
    BY <1>3, <1>5, <1>8 DEF KeepEntry, RefRow
  <2>2. Entry(orig[Current].prev, orig[Current].delta) = orig[Current]
    <3>1. orig[Current] \in Entries
      BY <1>5 DEF Inv, TypeOK, IsGroupMap
    <3>2. QED BY <1>8, <3>1 DEF KeepEntry, Entry, Entries
  <2>3. QED BY <1>3, <1>6, <1>8, <2>1, <2>2 DEF KeepEntry
<1>9. CASE StoreFull
  <2>1. RefRow(Current) = Entry(NoGroup, Original[Current])
    BY <1>3, <1>5, <1>9 DEF StoreFull, RefRow, Bases, NewestRow
  <2>2. QED BY <1>3, <1>6, <1>9, <2>1 DEF StoreFull
<1>10. CASE StartDelta
  <2>1. /\ orig' = orig /\ newMap' = newMap /\ base' = HeadOf(Current)
        /\ HeadOf(Current) \notin {NoGroup, orig[Current].prev}
        /\ orig[Current].in_range
        /\ levels' = Place(here, Current)
    BY <1>3, <1>5, <1>10 DEF StartDelta
  <2>2. Current' = Current /\ Original' = Original /\ \A g : HeadOf(g)' = HeadOf(g)
    BY <1>1, <2>1 DEF Current, Todo, Original, HeadOf
  <2>3. \A g \in DOMAIN newMap : RefRow(g)' = RefRow(g)
    BY <2>1, <2>2 DEF RefRow
  <2>4. HeadOf(Current) \in Ancestry(newMap)[HeadOf(Current)]
    BY <1>5, <2>1, RefTypes, AncestryOlder
  <2>5. WalkInv'
    BY <2>1, <2>2, <2>4 DEF WalkInv
  <2>6. levels' = Place(LevelsAt(orig, Initial)[Current], Current)'
    BY <1>1, <2>1, <2>2 DEF here
  <2>7. QED BY <2>1, <2>3, <2>5, <2>6 DEF RefInv
<1>11. ASSUME AtBase
       PROVE  RefRow(Current) = NewestRow(Bases(newMap, Original, HeadOf(Current), Current),
                                          Original, Current)
  BY <1>4, <1>11 DEF RefRow, WalkInv
<1>12. CASE UseBase
  <2> DEFINE bases == Bases(newMap, Original, HeadOf(Current), Current)
  <2>1. base \in bases /\ \A b \in bases : b \in Ancestry(newMap)[base]
    BY <1>4, <1>12 DEF UseBase, BaseFits, Bases, WalkInv
  <2>2. \A b \in bases : b \in DOMAIN newMap /\ b =< base
    BY <1>4, <1>12, <2>1, RefTypes, AncestryOlder DEF UseBase
  <2>3. bases \in SUBSET Groups
    BY <2>2, RefTypes
  <2> HIDE DEF bases
  <2>4. Max(bases) = base
    BY <2>1, <2>2, <2>3, MaxIs
  <2>5. RefRow(Current) = Entry(base, DeltaFrom(Original[base], Original[Current]))
    BY <1>11, <1>12, <2>1, <2>4 DEF UseBase, NewestRow, bases
  <2>6. levels' = Place(here, Current) /\ orig[Current].in_range
    BY <1>4, <1>12 DEF UseBase, WalkInv
  <2>7. QED BY <1>6, <1>12, <2>5, <2>6 DEF UseBase
<1>13. CASE WalkUp
  <2>1. /\ orig' = orig /\ newMap' = newMap /\ base' = newMap[base].prev
        /\ levels' = levels /\ base # NoGroup /\ base' # NoGroup
        /\ ~ Fits(Original[base], Original[Current])
    BY <1>13 DEF WalkUp, BaseFits
  <2>2. Current' = Current /\ Original' = Original /\ \A g : HeadOf(g)' = HeadOf(g)
    BY <1>1, <2>1 DEF Current, Todo, Original, HeadOf
  <2>3. \A g \in DOMAIN newMap : RefRow(g)' = RefRow(g)
    BY <2>1, <2>2 DEF RefRow
  <2>4. Ancestry(newMap)[base] = {base} \cup Ancestry(newMap)[base']
    BY <1>4, <2>1, RefTypes, AncestrySolves
  <2>5. base' \in Ancestry(newMap)[HeadOf(Current)]
    <3>1. HeadOf(Current) \in DOMAIN newMap
      BY <1>4, <1>5, <2>1 DEF WalkInv
    <3>2. base' \in Ancestry(newMap)[base']
      BY <1>4, <2>1, RefTypes, AncestryOlder DEF WellFormed
    <3>3. Ancestry(newMap)[base] \subseteq Ancestry(newMap)[HeadOf(Current)]
      BY <1>4, <2>1, <3>1, RefTypes, AncestryWithin DEF WalkInv
    <3>4. QED BY <2>4, <3>2, <3>3
  <2>6. WalkInv'
    BY <1>4, <2>1, <2>2, <2>4, <2>5 DEF WalkInv
  <2>7. levels' = Place(LevelsAt(orig, Initial)[Current], Current)'
    BY <1>1, <1>4, <2>1, <2>2 DEF here
  <2>8. QED BY <2>1, <2>3, <2>6, <2>7 DEF RefInv
<1>14. CASE ForcedReset
  <2>1. Ancestry(newMap)[base] = {base}
    BY <1>4, <1>14, RefTypes, AncestrySolves DEF ForcedReset
  <2>2. Bases(newMap, Original, HeadOf(Current), Current) = {}
    BY <1>4, <1>14, <2>1 DEF ForcedReset, BaseFits, Bases, WalkInv
  <2>3. RefRow(Current) = Entry(NoGroup, Original[Current])
    BY <1>11, <1>14, <2>2 DEF ForcedReset, NewestRow
  <2>4. levels' = Place(here, Current) /\ orig[Current].in_range
    BY <1>4, <1>14 DEF ForcedReset, WalkInv
  <2>5. QED BY <1>6, <1>14, <2>3, <2>4 DEF ForcedReset
<1>15. CASE MissingBase
  BY <1>15 DEF MissingBase, BasesLoaded
<1>16. QED
  BY <1>7, <1>8, <1>9, <1>10, <1>12, <1>13, <1>14, <1>15 DEF Next

-----------------------------------------------------------------------------
\* The groups in range are in range in every mix of the two maps, which has the
\* states of the original map.
LEMMA MixIsLikeOriginal ==
  ASSUME Inv, RefInv, CopiesKept, Done, NEW groups \in SUBSET DOMAIN orig
  PROVE  /\ HasRows(Overlay(groups))
         /\ DOMAIN Overlay(groups) = DOMAIN orig
         /\ \A g \in DOMAIN orig : Overlay(groups)[g].in_range = orig[g].in_range
         /\ Collapse(Overlay(groups)) = Original
<1> DEFINE mix == Overlay(groups)
<1>1. DOMAIN newMap = DOMAIN orig
  BY RefTypes DEF Done, Todo
<1>2. /\ DOMAIN mix = DOMAIN orig
      /\ \A g \in DOMAIN orig : mix[g] = IF g \in groups THEN newMap[g] ELSE orig[g]
  BY DEF Overlay
<1> HIDE DEF mix
<1>3. HasRows(mix)
  BY <1>1, <1>2, RefTypes DEF HasRows
<1>4. WellFormed(mix)
  BY <1>1, <1>2, RefTypes DEF WellFormed
<1>5. \A g \in DOMAIN orig : newMap[g].in_range = orig[g].in_range
  <2>1. SUFFICES ASSUME NEW g \in DOMAIN orig PROVE newMap[g].in_range = orig[g].in_range
    OBVIOUS
  <2>2. newMap[g] = RefRow(g)
    BY <1>1 DEF RefInv
  <2>3. CASE orig[g].in_range /\ HeadOf(g) # orig[g].prev
    BY <2>2, <2>3 DEF RefRow, NewestRow, Entry
  <2>4. CASE ~ (orig[g].in_range /\ HeadOf(g) # orig[g].prev)
    BY <2>2, <2>4 DEF RefRow
  <2>5. QED BY <2>3, <2>4
<1>6. Collapse(mix) = Original
  <2>1. \A g \in DOMAIN orig : Collapse(mix)[g] = Original[g]
    BY <1>1, InvPartialWriteSafe DEF PartialWriteSafe, mix
  <2>2. Collapse(mix) = [g \in DOMAIN orig |-> Collapse(mix)[g]]
    BY <1>2, <1>3, <1>4, CollapseSolves
  <2>3. Original = [g \in DOMAIN orig |-> Original[g]]
    BY RefTypes, CollapseSolves DEF Original
  <2>4. QED BY <2>1, <2>2, <2>3
<1>7. QED BY <1>2, <1>3, <1>5, <1>6 DEF mix

\* So the reference makes of the mix what it made of the original map.
LEMMA DoneRepeats ==
  ASSUME Inv, RefInv, CopiesKept
  PROVE  RunningAgainRepeats
<1> SUFFICES ASSUME Done, NEW groups \in SUBSET DOMAIN orig
             PROVE  IsCompression(newMap, Overlay(groups))
  BY DEF RunningAgainRepeats
<1> DEFINE mix     == Overlay(groups)
           head(g) == Candidate(LevelsAt(mix, Initial)[g])
<1>1. /\ HasRows(mix) /\ DOMAIN mix = DOMAIN orig
      /\ \A g \in DOMAIN orig : mix[g].in_range = orig[g].in_range
      /\ Collapse(mix) = Original
  BY MixIsLikeOriginal
<1>2. DOMAIN newMap = DOMAIN orig
  BY RefTypes DEF Done, Todo
<1>3. \A g \in DOMAIN orig : mix[g] = IF g \in groups THEN newMap[g] ELSE orig[g]
  BY DEF Overlay
<1> HIDE DEF mix
<1>4. \A g \in DOMAIN orig : head(g) = HeadOf(g)
  BY <1>1, RefTypes, SameLevelsAt DEF HeadOf
<1> HIDE DEF head
<1>5. ASSUME NEW g \in DOMAIN orig
      PROVE  newMap[g] = IF mix[g].in_range /\ head(g) # mix[g].prev
                         THEN NewestRow(Bases(newMap, Original, head(g), g), Original, g)
                         ELSE mix[g]
  <2>1. newMap[g] = RefRow(g)
    BY <1>2 DEF RefInv
  <2>2. CASE orig[g].in_range /\ HeadOf(g) # orig[g].prev
    <3>1. newMap[g] = NewestRow(Bases(newMap, Original, HeadOf(g), g), Original, g)
      BY <2>1, <2>2 DEF RefRow
    <3>2. g \notin groups => mix[g] = orig[g]
      BY <1>3
    <3>3. g \in groups => mix[g] = newMap[g]
      BY <1>3
    <3>4. QED BY <1>1, <1>4, <2>2, <3>1, <3>2, <3>3
  <2>3. CASE ~ (orig[g].in_range /\ HeadOf(g) # orig[g].prev)
    <3>1. newMap[g] = orig[g]
      BY <2>1, <2>3 DEF RefRow
    <3>2. mix[g] = orig[g]
      BY <1>3, <3>1
    <3>3. QED BY <1>4, <2>3, <3>1, <3>2
  <2>4. QED BY <2>2, <2>3
<1>6. QED BY <1>1, <1>5 DEF IsCompression, head, mix

\* The reference is followed in every state.
RefAll == RefInv /\ BasesLoaded /\ CopiesKept

\* Every step follows it.
LEMMA NextRefAll == Inv /\ Inv' /\ RefAll /\ [Next]_vars => RefAll'
<1> SUFFICES ASSUME Inv, Inv', RefAll, [Next]_vars PROVE RefAll'
  OBVIOUS
<1>1. BasesLoaded'
  BY NextBasesLoaded DEF RefAll
<1>2. CASE Next
  BY <1>1, <1>2, NextRef, NextCopies DEF RefAll
<1>3. CASE UNCHANGED vars
  <2>1. CopiesKept'
    BY <1>3 DEF vars, RefAll, CopiesKept, Current, Todo
  <2>2. Initial' = Initial
    BY <1>3 DEF vars, Initial
  <2>3. RefInv'
    BY <1>3, <2>2 DEF vars, RefAll, RefInv, WalkInv, LevelsNow, Compressed, RefRow, HeadOf,
                      Current, Todo, Original
  <2>4. QED BY <1>1, <2>1, <2>3 DEF RefAll
<1>4. QED BY <1>2, <1>3

\* Empty levels.
IsFresh(ls) == ls = Fresh([i \in DOMAIN ls |-> ls[i].max])

\* A call with empty levels starts where the reference does.
LEMMA InitRefAll ==
  ASSUME \A call \in Calls : IsFresh(call.levels), Init
  PROVE  RefAll
<1>1. PICK call \in Calls : orig = call.map /\ levels = call.levels
  BY DEF Init
<1>2. levels = Initial /\ levels \in Seq(Level)
  BY <1>1, CallsAssumption DEF IsFresh, Initial
<1>3. RefInv
  BY <1>2, InitRef DEF Init
<1>4. Heads(levels) = {}
  BY <1>2, InitialEmpty
<1>5. QED BY <1>3, <1>4 DEF RefAll, BasesLoaded, NoPanic, CopiesKept, Init

\* For every map, and all sizes of levels that start empty: from any mix of
\* old and new rows a run makes the rows it made from the old ones, so that a
\* run that died halfway is made good by the next (create_new_tree, get_delta,
\* send_changes_to_db).
THEOREM RepeatsFromAnyMix ==
  ASSUME \A call \in Calls : IsFresh(call.levels)
  PROVE  Spec => []RunningAgainRepeats
<1>1. Init => RefAll
  BY InitRefAll
<1>2. Inv /\ RefAll => RunningAgainRepeats
  BY DoneRepeats DEF RefAll
<1>3. QED BY <1>1, <1>2, NextRefAll, InvIsInvariant, PTL DEF Spec

-----------------------------------------------------------------------------
\* A recursion along a sequence of length L.
IsSequenceRecursion(L, S, first, step) ==
  L \in Nat /\ first \in S /\ step \in [1 .. L -> [S -> S]]

\* It has a solution.
LEMMA SequenceRecursion ==
  ASSUME NEW L, NEW S, NEW first, NEW step, IsSequenceRecursion(L, S, first, step)
  PROVE  \E f \in [1 .. L -> S] :
           \A i \in 1 .. L : f[i] = IF i = 1 THEN first ELSE step[i][f[i - 1]]
<1> USE DEF IsSequenceRecursion
<1> DEFINE D     == 1 .. L
           root  == {i \in D : i = 1}
           start == [i \in root |-> first]
           pred  == [i \in D \ root |-> i - 1]
<1>1. D \in SUBSET Nat /\ L + 1 \in Nat /\ \A i \in D : i < L + 1
  OBVIOUS
<1>2. root \in SUBSET D /\ start \in [root -> S]
  OBVIOUS
<1>3. pred \in [D \ root -> D] /\ \A i \in D \ root : pred[i] < i
  OBVIOUS
<1>4. \E f \in [D -> S] :
        \A i \in D : f[i] = IF i \in root THEN start[i] ELSE step[i][f[pred[i]]]
  <2>1. step \in [D -> [S -> S]]
    OBVIOUS
  <2> HIDE DEF D, root, start, pred
  <2>2. IsRecursion(D, L + 1, S, root, start, pred, step)
    BY <1>1, <1>2, <1>3, <2>1 DEF IsRecursion
  <2>3. QED BY <2>2, RecursionExists
<1>5. QED BY <1>4

\* The sizes of levels that can hold a group.
Sizes == Seq(Nat \ {0})

\* The distances between the groups the levels are offered are defined.
LEMMA DistancesSolve ==
  ASSUME NEW sizes \in Sizes
  PROVE  /\ Distances(sizes) \in [DOMAIN sizes -> Int]
         /\ \A i \in DOMAIN sizes :
              Distances(sizes)[i] =
                IF i = 1 THEN 1 ELSE Distances(sizes)[i - 1] * sizes[i - 1]
<1> DEFINE L    == Len(sizes)
           step == [i \in 1 .. L |-> [d \in Int |-> IF i = 1 THEN d ELSE d * sizes[i - 1]]]
           IsIt(f) == f = [i \in DOMAIN sizes |->
                             IF i = 1 THEN 1 ELSE f[i - 1] * sizes[i - 1]]
<1>1. L \in Nat /\ DOMAIN sizes = 1 .. L /\ \A i \in 1 .. L : sizes[i] \in Nat \ {0}
  BY DEF Sizes
<1>2. step \in [1 .. L -> [Int -> Int]]
  <2>1. \A i \in 1 .. L : i = 1 \/ (i - 1 \in 1 .. L /\ sizes[i - 1] \in Nat)
    BY <1>1
  <2>2. QED BY <2>1
<1>3. PICK f \in [1 .. L -> Int] :
        \A i \in 1 .. L : f[i] = IF i = 1 THEN 1 ELSE step[i][f[i - 1]]
  <2>1. IsSequenceRecursion(L, Int, 1, step)
    BY <1>1, <1>2 DEF IsSequenceRecursion
  <2> HIDE DEF L, step
  <2>2. QED BY <2>1, SequenceRecursion
<1>4. \A i \in 1 .. L : f[i] = IF i = 1 THEN 1 ELSE f[i - 1] * sizes[i - 1]
  <2>1. \A i \in 1 .. L : i = 1 \/ f[i - 1] \in Int
    BY <1>1
  <2>2. QED BY <1>3, <2>1
<1>5. IsIt(f)
  BY <1>1, <1>4
<1> DEFINE F == CHOOSE h : IsIt(h)
<1>6. Distances(sizes) = F
  BY DEF Distances
<1>7. IsIt(F)
  BY <1>5
<1> HIDE DEF F
<1>8. DOMAIN F = 1 .. L /\ F = [i \in 1 .. L |-> F[i]]
  BY <1>1, <1>7
<1>9. \A i \in 1 .. L : F[i] = IF i = 1 THEN 1 ELSE F[i - 1] * sizes[i - 1]
  BY <1>1, <1>7
<1>10. \A i \in 1 .. L : F[i] \in Int
  <2> DEFINE Bad == {i \in 1 .. L : F[i] \notin Int}
  <2>1. SUFFICES ASSUME Bad # {} PROVE FALSE
    OBVIOUS
  <2>2. PICK i \in Bad : \A j \in Bad : i =< j
    <3>1. Bad \in SUBSET Nat
      OBVIOUS
    <3> HIDE DEF Bad
    <3>2. QED BY <2>1, <3>1, MinNat
  <2>3. i # 1
    BY <1>9, <2>2
  <2>4. i - 1 \in 1 .. L /\ i - 1 \notin Bad
    <3>1. i \in 1 .. L /\ i \in Int
      BY <2>2
    <3>2. i - 1 \in 1 .. L /\ i - 1 < i
      BY <1>1, <2>3, <3>1
    <3> HIDE DEF Bad
    <3>3. QED BY <2>2, <3>1, <3>2
  <2>5. F[i - 1] \in Int /\ sizes[i - 1] \in Nat
    BY <1>1, <2>4
  <2>6. F[i] = F[i - 1] * sizes[i - 1]
    BY <1>9, <2>2, <2>3
  <2>7. QED BY <2>2, <2>5, <2>6
<1>11. QED BY <1>1, <1>6, <1>8, <1>9, <1>10

\* The recursion of Offered, one step.
LEMMA OfferedSolves ==
  ASSUME NEW sizes \in Sizes, NEW n \in Nat
  PROVE  \A i \in DOMAIN sizes :
           Offered(n, sizes)[i] =
             IF i = 1
             THEN n
             ELSE IF Offered(n, sizes)[i - 1] > 0 /\ Offered(n, sizes)[i - 1] % sizes[i - 1] = 0
                  THEN Offered(n, sizes)[i - 1] \div sizes[i - 1] - 1
                  ELSE 0
<1> DEFINE L    == Len(sizes)
           pass(q, i) == IF q > 0 /\ q % sizes[i - 1] = 0 THEN q \div sizes[i - 1] - 1 ELSE 0
           step == [i \in 1 .. L |-> [q \in Int |-> IF i = 1 THEN q ELSE pass(q, i)]]
           IsIt(f) == f = [i \in DOMAIN sizes |-> IF i = 1 THEN n ELSE pass(f[i - 1], i)]
<1>1. L \in Nat /\ DOMAIN sizes = 1 .. L /\ \A i \in 1 .. L : sizes[i] \in Nat \ {0}
  BY DEF Sizes
<1>2. step \in [1 .. L -> [Int -> Int]]
  <2>1. \A i \in 1 .. L : i = 1 \/ (i - 1 \in 1 .. L /\ sizes[i - 1] \in Nat \ {0})
    BY <1>1
  <2>2. ASSUME NEW i \in 1 .. L, i # 1, NEW q \in Int PROVE pass(q, i) \in Int
    <3> DEFINE m == sizes[i - 1]
    <3>1. m \in Nat \ {0}
      BY <2>1, <2>2
    <3> HIDE DEF m
    <3>2. q \div m \in Int
      BY <3>1
    <3>3. QED BY <3>2 DEF m
  <2> HIDE DEF pass
  <2>3. QED BY <2>2
<1>3. PICK f \in [1 .. L -> Int] :
        \A i \in 1 .. L : f[i] = IF i = 1 THEN n ELSE step[i][f[i - 1]]
  <2>1. IsSequenceRecursion(L, Int, n, step)
    BY <1>1, <1>2 DEF IsSequenceRecursion
  <2> HIDE DEF L, step
  <2>2. QED BY <2>1, SequenceRecursion
<1> HIDE DEF pass
<1>4. \A i \in 1 .. L : f[i] = IF i = 1 THEN n ELSE pass(f[i - 1], i)
  <2>1. \A i \in 1 .. L : i = 1 \/ f[i - 1] \in Int
    BY <1>1
  <2>2. QED BY <1>3, <2>1
<1>5. IsIt(f)
  BY <1>1, <1>4
<1> DEFINE F == CHOOSE h : IsIt(h)
<1>6. Offered(n, sizes) = F
  BY DEF Offered, pass
<1>7. IsIt(F)
  BY <1>5
<1> HIDE DEF F
<1>8. \A i \in DOMAIN sizes : F[i] = IF i = 1 THEN n ELSE pass(F[i - 1], i)
  BY <1>7
<1>9. QED BY <1>6, <1>8 DEF pass

\* Division with remainder leaves no choice.
LEMMA DivMod ==
  ASSUME NEW q \in Nat, NEW m \in Nat \ {0}, NEW r \in Nat, r < m
  PROVE  (q * m + r) \div m = q /\ (q * m + r) % m = r
<1> DEFINE x == q * m + r
           d == x \div m
           e == x % m
<1>1. x \in Nat
  OBVIOUS
<1> HIDE DEF x
<1>2. d \in Int /\ e \in Int /\ x = d * m + e /\ 0 =< e /\ e < m
  BY <1>1
<1> HIDE DEF d, e
<1>3. d * m + e = q * m + r
  BY <1>2 DEF x
<1>4. (d - q) * m = r - e
  BY <1>2, <1>3
<1>5. ~ (d - q >= 1)
  <2>1. SUFFICES ASSUME d - q >= 1 PROVE FALSE
    OBVIOUS
  <2>2. (d - q) * m >= m
    BY <1>2, <2>1
  <2>3. QED BY <1>2, <1>4, <2>2
<1>6. ~ (q - d >= 1)
  <2>1. SUFFICES ASSUME q - d >= 1 PROVE FALSE
    OBVIOUS
  <2>2. (q - d) * m >= m
    BY <1>2, <2>1
  <2>3. (q - d) * m = e - r
    BY <1>2, <1>3
  <2>4. QED BY <1>2, <2>2, <2>3
<1>7. d = q
  BY <1>2, <1>5, <1>6
<1>8. e = r
  BY <1>2, <1>3, <1>7
<1>9. QED BY <1>7, <1>8 DEF d, e, x

-----------------------------------------------------------------------------
\* The distances d go with the sizes m.
Spaced(m, d) ==
  /\ m \in Sizes
  /\ d \in [DOMAIN m -> Int]
  /\ \A i \in DOMAIN m : d[i] = IF i = 1 THEN 1 ELSE d[i - 1] * m[i - 1]

\* Level i has been offered c[i] of the first n groups, the first of which is
\* first, and the p[i]-th is the next that it is offered.  What the last level
\* passes on is counted, too.
Counted(ls, m, d, first, n, c, p) ==
  /\ DOMAIN ls = DOMAIN m
  /\ c \in [1 .. Len(m) + 1 -> Nat] /\ p \in [DOMAIN m -> Int]
  /\ c[1] = n
  /\ \A i \in DOMAIN m :
       /\ ls[i].max = m[i] /\ ls[i].len =< m[i]
       /\ c[i] = 0 <=> ls[i].len = 0
       /\ c[i] = c[i + 1] * m[i] + ls[i].len
       /\ p[i] = IF i = 1 THEN n ELSE p[i - 1] + (m[i - 1] - ls[i - 1].len) * d[i - 1]
       /\ ls[i].head = IF ls[i].len = 0 THEN NoGroup ELSE first + p[i] - d[i]

\* All that Counted needs to be so, by name.
CountedAt(ls, m, d, first, n, c, p) ==
  /\ ls \in Seq(Level) /\ Spaced(m, d) /\ first \in Int /\ n \in Nat
  /\ Counted(ls, m, d, first, n, c, p)

\* The types of a level and of the one before it.
LEMMA CountedTypes ==
  ASSUME NEW ls, NEW m, NEW d, NEW first, NEW n, NEW c, NEW p,
         CountedAt(ls, m, d, first, n, c, p), NEW i \in DOMAIN m
  PROVE  /\ i \in Nat /\ i >= 1 /\ DOMAIN m = 1 .. Len(m) /\ Len(m) \in Nat
         /\ m[i] \in Nat /\ m[i] >= 1 /\ d[i] \in Int /\ p[i] \in Int
         /\ c[i] \in Nat /\ c[i + 1] \in Nat
         /\ ls[i].len \in Nat /\ ls[i].len =< m[i] /\ ls[i].max = m[i]
         /\ i # 1 => i - 1 \in DOMAIN m
         /\ i \in DOMAIN ls /\ ls[i] \in [max : Nat, len : Nat, head : OptGroup]
<1>1. m \in Sizes
  BY DEF CountedAt, Spaced
<1>2. DOMAIN m = 1 .. Len(m) /\ Len(m) \in Nat /\ \A j \in 1 .. Len(m) : m[j] \in Nat \ {0}
  BY <1>1 DEF Sizes
<1>3. i \in DOMAIN ls /\ ls \in Seq(Level)
  BY DEF CountedAt, Counted
<1>4. ls[i] \in [max : Nat, len : Nat, head : OptGroup]
  <2>1. ls[i] \in Level
    BY <1>3
  <2>2. QED BY <2>1 DEF Level
<1>5. /\ c[i] \in Nat /\ c[i + 1] \in Nat /\ p[i] \in Int /\ d[i] \in Int
      /\ ls[i].len =< m[i] /\ ls[i].max = m[i]
  BY <1>2 DEF CountedAt, Counted, Spaced
<1>6. i \in Nat /\ i >= 1 /\ m[i] \in Nat /\ m[i] >= 1 /\ (i # 1 => i - 1 \in DOMAIN m)
  BY <1>2
<1>7. QED BY <1>2, <1>3, <1>4, <1>5, <1>6

\* The scan gets past a level if it gets there and the level is full.
LEMMA VisitedNext ==
  ASSUME NEW ls, NEW i \in Nat, i >= 1
  PROVE  /\ Visited(ls, 1)
         /\ i # 1 => (Visited(ls, i) <=> Visited(ls, i - 1) /\ ~ HasSpace(ls[i - 1]))
<1>1. \A j \in 1 .. 1 - 1 : FALSE
  OBVIOUS
<1>2. i # 1 => \A j : j \in 1 .. i - 1 <=> j \in 1 .. (i - 1) - 1 \/ j = i - 1
  OBVIOUS
<1>3. QED BY <1>1, <1>2 DEF Visited

\* The levels the scan gets to are those the n-th group is offered.
LEMMA VisitedOffered ==
  ASSUME NEW ls, NEW m, NEW d, NEW first, NEW n, NEW c, NEW p,
         CountedAt(ls, m, d, first, n, c, p)
  PROVE  \A i \in DOMAIN m :
           /\ Visited(ls, i) => p[i] = n
           /\ Offered(n, m)[i] = IF Visited(ls, i) THEN c[i] ELSE 0
<1> DEFINE q     == Offered(n, m)
           Ok(i) == /\ Visited(ls, i) => p[i] = n
                    /\ q[i] = IF Visited(ls, i) THEN c[i] ELSE 0
           Bad   == {i \in DOMAIN m : ~ Ok(i)}
<1>1. SUFFICES ASSUME Bad # {} PROVE FALSE
  OBVIOUS
<1>2. m \in Sizes /\ n \in Nat /\ Counted(ls, m, d, first, n, c, p)
  BY DEF CountedAt, Spaced
<1>3. PICK i \in Bad : \A j \in Bad : i =< j
  <2>1. Bad \in SUBSET Nat
    BY CountedTypes
  <2> HIDE DEF Bad
  <2>2. QED BY <1>1, <2>1, MinNat
<1>4. i \in DOMAIN m /\ i \in Nat /\ i >= 1 /\ ~ Ok(i)
  BY <1>3, CountedTypes
<1>5. CASE i = 1
  <2>1. Visited(ls, i) /\ c[i] = n /\ p[i] = n
    BY <1>2, <1>4, <1>5, VisitedNext DEF Counted
  <2>2. q[i] = n
    BY <1>2, <1>4, <1>5, OfferedSolves
  <2>3. QED BY <1>4, <2>1, <2>2
<1>6. CASE i # 1
  <2> DEFINE h == i - 1
  <2>1. h \in DOMAIN m /\ h \in Nat /\ h >= 1 /\ h < i
    BY <1>4, <1>6, CountedTypes
  <2>2. Ok(h)
    <3> HIDE DEF Ok, h
    <3>1. h \notin Bad
      BY <1>3, <1>4, <2>1
    <3>2. QED BY <2>1, <3>1
  <2>3. /\ c[h] = c[i] * m[h] + ls[h].len
        /\ p[i] = p[h] + (m[h] - ls[h].len) * d[h]
        /\ c[h] = 0 <=> ls[h].len = 0
    <3>1. h + 1 = i
      BY <1>4
    <3>2. QED BY <1>2, <1>4, <1>6, <2>1, <3>1 DEF Counted
  <2>4. Visited(ls, i) <=> Visited(ls, h) /\ ~ HasSpace(ls[h])
    BY <1>4, <1>6, VisitedNext
  <2>5. q[i] = IF q[h] > 0 /\ q[h] % m[h] = 0 THEN q[h] \div m[h] - 1 ELSE 0
    BY <1>2, <1>4, <1>6, OfferedSolves
  <2>6. /\ m[h] \in Nat /\ m[h] >= 1 /\ d[h] \in Int /\ c[h] \in Nat /\ p[h] \in Int
        /\ ls[h].len \in Nat /\ ls[h].len =< m[h] /\ ls[h].max = m[h]
        /\ c[i] \in Nat /\ p[i] \in Int
    BY <1>4, <2>1, CountedTypes
  <2> HIDE DEF q, h
  <2>7. HasSpace(ls[h]) <=> ls[h].len < m[h]
    BY <2>6 DEF HasSpace
  <2>8. CASE ~ Visited(ls, h)
    <3>1. q[i] = 0
      BY <2>2, <2>5, <2>8
    <3>2. QED BY <1>4, <2>4, <2>8, <3>1
  <2>9. CASE Visited(ls, h) /\ ~ HasSpace(ls[h])
    <3>1. ls[h].len = m[h] /\ q[h] = c[h]
      BY <2>2, <2>6, <2>7, <2>9
    <3>2. p[i] = n
      BY <2>2, <2>3, <2>6, <2>9, <3>1
    <3>3. c[h] = (c[i] + 1) * m[h] + 0 /\ c[h] > 0
      BY <2>3, <2>6, <3>1
    <3>4. c[h] % m[h] = 0 /\ c[h] \div m[h] = c[i] + 1
      <4>1. c[i] + 1 \in Nat /\ m[h] \in Nat \ {0} /\ 0 \in Nat /\ 0 < m[h]
        BY <2>6
      <4>2. QED BY <3>3, <4>1, DivMod
    <3>5. q[i] = c[i]
      <4>1. q[h] > 0 /\ q[h] % m[h] = 0 /\ q[h] \div m[h] = c[i] + 1
        BY <3>1, <3>3, <3>4
      <4>2. q[i] = (c[i] + 1) - 1
        BY <2>5, <4>1
      <4>3. QED BY <2>6, <4>2
    <3>6. QED BY <1>4, <2>4, <2>9, <3>2, <3>5
  <2>10. CASE Visited(ls, h) /\ HasSpace(ls[h])
    <3>1. q[h] = c[h] /\ ls[h].len < m[h]
      BY <2>2, <2>7, <2>10
    <3>2. c[h] % m[h] = ls[h].len
      <4>1. c[i] \in Nat /\ m[h] \in Nat \ {0} /\ ls[h].len \in Nat /\ ls[h].len < m[h]
        BY <2>6, <3>1
      <4>2. (c[i] * m[h] + ls[h].len) % m[h] = ls[h].len
        BY <4>1, DivMod
      <4>3. QED BY <2>3, <4>2
    <3>3. q[i] = 0
      <4>1. q[h] > 0 /\ q[h] % m[h] = 0 => ls[h].len = 0 /\ c[h] # 0
        BY <2>6, <3>1, <3>2
      <4>2. QED BY <2>3, <2>5, <4>1
    <3>4. QED BY <1>4, <2>4, <2>10, <3>3
  <2>11. QED BY <2>8, <2>9, <2>10
<1>7. QED BY <1>5, <1>6

\* Which level the scan stops at, by the numbers.
LEMMA ChosenOffered ==
  ASSUME NEW ls, NEW m, NEW d, NEW first, NEW n, NEW c, NEW p,
         CountedAt(ls, m, d, first, n, c, p), NEW i \in DOMAIN m
  PROVE  Offered(n, m)[i] % m[i] # 0 <=> i \in Chosen(ls) /\ ls[i].len # 0
<1> DEFINE q == Offered(n, m)[i]
<1>1. /\ m[i] \in Nat /\ m[i] >= 1 /\ c[i] \in Nat /\ c[i + 1] \in Nat
      /\ ls[i].len \in Nat /\ ls[i].len =< m[i] /\ ls[i].max = m[i]
      /\ i \in DOMAIN ls
  BY CountedTypes
<1>2. c[i] = c[i + 1] * m[i] + ls[i].len
  BY DEF CountedAt, Counted
<1>3. q = IF Visited(ls, i) THEN c[i] ELSE 0
  BY VisitedOffered
<1>4. HasSpace(ls[i]) <=> ls[i].len < m[i]
  BY <1>1 DEF HasSpace
<1>5. i \in Chosen(ls) <=> Visited(ls, i) /\ ls[i].len < m[i]
  BY <1>1, <1>4 DEF Chosen
<1> HIDE DEF q
<1>6. m[i] \in Nat \ {0} /\ 0 \in Nat /\ 0 < m[i] /\ c[i + 1] + 1 \in Nat
  BY <1>1
<1>7. CASE ~ Visited(ls, i)
  <2>1. q = 0 * m[i] + 0
    BY <1>1, <1>3, <1>7
  <2>2. q % m[i] = 0
    BY <1>6, <2>1, DivMod
  <2>3. QED BY <1>5, <1>7, <2>2 DEF q
<1>8. CASE Visited(ls, i) /\ ls[i].len = m[i]
  <2>1. q = (c[i + 1] + 1) * m[i] + 0
    BY <1>1, <1>2, <1>3, <1>8
  <2>2. q % m[i] = 0
    BY <1>6, <2>1, DivMod
  <2>3. QED BY <1>1, <1>5, <1>8, <2>2 DEF q
<1>9. CASE Visited(ls, i) /\ ls[i].len < m[i]
  <2>1. q = c[i + 1] * m[i] + ls[i].len
    BY <1>2, <1>3, <1>9
  <2>2. q % m[i] = ls[i].len
    BY <1>1, <1>6, <1>9, <2>1, DivMod
  <2>3. QED BY <1>5, <1>9, <2>2 DEF q
<1>10. QED BY <1>1, <1>7, <1>8, <1>9

\* The scan stops at one level at most.
LEMMA ChosenOnce ==
  ASSUME NEW ls \in Seq(Level), NEW i \in Chosen(ls), NEW j \in Chosen(ls)
  PROVE  i = j
<1>1. i \in Nat /\ j \in Nat /\ i >= 1 /\ j >= 1
  BY DEF Chosen
<1>2. ~ (i < j) /\ ~ (j < i)
  BY <1>1 DEF Chosen, Visited
<1>3. QED BY <1>1, <1>2

\* The head the levels offer the n-th group is as far back as StepBack says.
LEMMA CandidateIsBack ==
  ASSUME NEW ls, NEW m, NEW first, NEW n, NEW c, NEW p,
         CountedAt(ls, m, Distances(m), first, n, c, p), NEW g, g = first + n
  PROVE  Candidate(ls) = IF StepBack(n, m) = {} THEN NoGroup ELSE g - Max(StepBack(n, m))
<1> DEFINE d     == Distances(m)
           stops == {j \in DOMAIN m : Offered(n, m)[j] % m[j] # 0}
<1>1. ls \in Seq(Level) /\ n \in Nat /\ first \in Int /\ DOMAIN ls = DOMAIN m
  BY DEF CountedAt, Counted
<1>2. StepBack(n, m) = {d[i] : i \in stops}
  BY DEF StepBack
<1>3. stops = {i \in Chosen(ls) : ls[i].len # 0}
  <2>1. \A i \in DOMAIN m :
          Offered(n, m)[i] % m[i] # 0 <=> i \in Chosen(ls) /\ ls[i].len # 0
    BY ChosenOffered
  <2>2. Chosen(ls) \subseteq DOMAIN m
    BY <1>1 DEF Chosen
  <2>3. QED BY <2>1, <2>2
<1> HIDE DEF stops, d
<1>4. CASE Chosen(ls) = {}
  BY <1>2, <1>3, <1>4 DEF Candidate
<1>5. ASSUME NEW i \in Chosen(ls)
      PROVE  Candidate(ls) = IF StepBack(n, m) = {} THEN NoGroup ELSE g - Max(StepBack(n, m))
  <2>1. Chosen(ls) = {i}
    BY <1>1, ChosenOnce
  <2>2. Candidate(ls) = ls[i].head
    BY <2>1 DEF Candidate
  <2>3. i \in DOMAIN m /\ Visited(ls, i)
    BY <1>1 DEF Chosen
  <2>4. p[i] = n
    BY <2>3, VisitedOffered DEF d
  <2>5. ls[i].head = IF ls[i].len = 0 THEN NoGroup ELSE first + p[i] - d[i]
    BY <2>3 DEF CountedAt, Counted, d
  <2>6. CASE ls[i].len = 0
    <3>1. stops = {}
      BY <1>3, <2>1, <2>6
    <3>2. QED BY <1>2, <2>2, <2>5, <2>6, <3>1
  <2>7. CASE ls[i].len # 0
    <3>1. stops = {i}
      BY <1>3, <2>1, <2>7
    <3>2. StepBack(n, m) = {d[i]}
      BY <1>2, <3>1
    <3>3. d[i] \in Int
      BY <2>3, CountedTypes DEF d
    <3>4. Max({d[i]}) = d[i]
      BY <3>3 DEF Max
    <3>5. ls[i].head = g - d[i]
      BY <1>1, <2>4, <2>5, <2>7, <3>3
    <3>6. QED BY <2>2, <3>2, <3>4, <3>5
  <2>8. QED BY <2>6, <2>7
<1>6. QED BY <1>4, <1>5

\* Empty levels are counted from 0.
LEMMA EmptyCounted ==
  ASSUME NEW m, NEW d, NEW first \in Int, Spaced(m, d), NEW ls \in Seq(Level),
         DOMAIN ls = DOMAIN m, \A i \in DOMAIN m : ls[i] = NewLevel(m[i])
  PROVE  \E c, p : CountedAt(ls, m, d, first, 0, c, p)
<1> DEFINE L    == Len(m)
           c    == [i \in 1 .. L + 1 |-> 0]
           step == [i \in 1 .. L |->
                      [k \in Int |-> IF i = 1 THEN k ELSE k + m[i - 1] * d[i - 1]]]
<1>1. /\ L \in Nat /\ DOMAIN m = 1 .. L
      /\ \A i \in 1 .. L : m[i] \in Nat \ {0} /\ d[i] \in Int
  BY DEF Spaced, Sizes
<1>2. PICK p \in [1 .. L -> Int] :
        \A i \in 1 .. L : p[i] = IF i = 1 THEN 0 ELSE step[i][p[i - 1]]
  <2>1. step \in [1 .. L -> [Int -> Int]]
    <3>1. \A i \in 1 .. L :
            i = 1 \/ (i - 1 \in 1 .. L /\ m[i - 1] \in Nat /\ d[i - 1] \in Int)
      BY <1>1
    <3>2. QED BY <3>1
  <2>2. IsSequenceRecursion(L, Int, 0, step)
    BY <1>1, <2>1 DEF IsSequenceRecursion
  <2> HIDE DEF L, step
  <2>3. QED BY <2>2, SequenceRecursion
<1>3. \A i \in 1 .. L : p[i] = IF i = 1 THEN 0 ELSE p[i - 1] + m[i - 1] * d[i - 1]
  <2>1. \A i \in 1 .. L : i = 1 \/ i - 1 \in 1 .. L
    BY <1>1
  <2>2. p \in [1 .. L -> Int]
    BY <1>2
  <2> HIDE DEF L, c
  <2>3. \A i \in 1 .. L : i = 1 \/ p[i - 1] \in Int
    BY <2>1, <2>2
  <2>4. QED BY <1>2, <2>3
<1>4. c \in [1 .. L + 1 -> Nat] /\ c[1] = 0
  BY <1>1
<1>5. ASSUME NEW i \in DOMAIN m
      PROVE  /\ ls[i].max = m[i] /\ ls[i].len =< m[i]
             /\ c[i] = 0 <=> ls[i].len = 0
             /\ c[i] = c[i + 1] * m[i] + ls[i].len
             /\ p[i] = IF i = 1 THEN 0 ELSE p[i - 1] + (m[i - 1] - ls[i - 1].len) * d[i - 1]
             /\ ls[i].head = IF ls[i].len = 0 THEN NoGroup ELSE first + p[i] - d[i]
  <2>1. \A j \in DOMAIN m : ls[j].max = m[j] /\ ls[j].len = 0 /\ ls[j].head = NoGroup
    BY DEF NewLevel
  <2>2. i \in 1 .. L /\ i + 1 \in 1 .. L + 1 /\ i \in 1 .. L + 1
    BY <1>1
  <2>3. c[i] = 0 /\ c[i + 1] = 0 /\ m[i] \in Nat /\ m[i] >= 1
    BY <1>1, <2>2
  <2> HIDE DEF c, L
  <2>4. i # 1 => i - 1 \in DOMAIN m /\ m[i - 1] \in Nat /\ ls[i - 1].len = 0
    BY <1>1, <2>1, <2>2
  <2>5. p[i] = IF i = 1 THEN 0 ELSE p[i - 1] + (m[i - 1] - ls[i - 1].len) * d[i - 1]
    <3>1. i # 1 => m[i - 1] - ls[i - 1].len = m[i - 1]
      BY <2>4
    <3>2. QED BY <1>3, <2>2, <3>1
  <2>6. c[i] = c[i + 1] * m[i] + ls[i].len
    BY <2>1, <2>3
  <2>7. QED BY <2>1, <2>3, <2>5, <2>6
<1> HIDE DEF c, L
<1>6. Counted(ls, m, d, first, 0, c, p)
  BY <1>1, <1>2, <1>4, <1>5 DEF Counted, L
<1>7. CountedAt(ls, m, d, first, 0, c, p)
  BY <1>6 DEF CountedAt
<1>8. QED BY <1>7

\* Placing the n-th group counts it.
LEMMA PlaceCounted ==
  ASSUME NEW ls, NEW m, NEW d, NEW first, NEW n, NEW c, NEW p,
         CountedAt(ls, m, d, first, n, c, p), first + n \in Groups
  PROVE  \E c2, p2 : CountedAt(Place(ls, first + n), m, d, first, n + 1, c2, p2)
<1> DEFINE g      == first + n
           new    == Place(ls, g)
           seen(i) == Visited(ls, i)
           c2     == [i \in 1 .. Len(m) + 1 |-> IF seen(i) THEN c[i] + 1 ELSE c[i]]
           p2     == [i \in DOMAIN m |-> IF seen(i) THEN p[i] + d[i] ELSE p[i]]
<1>1. /\ ls \in Seq(Level) /\ Spaced(m, d) /\ first \in Int /\ n \in Nat
      /\ DOMAIN ls = DOMAIN m /\ c \in [1 .. Len(m) + 1 -> Nat] /\ p \in [DOMAIN m -> Int]
      /\ c[1] = n /\ Len(m) \in Nat /\ d \in [DOMAIN m -> Int]
  BY DEF CountedAt, Counted, Spaced, Sizes
<1>2. new \in Seq(Level) /\ DOMAIN new = DOMAIN m
  BY <1>1, PlaceHeads DEF Place
<1>3. ASSUME NEW i \in DOMAIN m
      PROVE  /\ i \in Nat /\ i >= 1 /\ DOMAIN m = 1 .. Len(m)
             /\ m[i] \in Nat /\ m[i] >= 1 /\ d[i] \in Int /\ p[i] \in Int
             /\ c[i] \in Nat /\ c[i + 1] \in Nat
             /\ ls[i].len \in Nat /\ ls[i].len =< m[i] /\ ls[i].max = m[i]
             /\ c[i] = 0 <=> ls[i].len = 0
             /\ c[i] = c[i + 1] * m[i] + ls[i].len
             /\ p[i] = IF i = 1 THEN n ELSE p[i - 1] + (m[i - 1] - ls[i - 1].len) * d[i - 1]
             /\ ls[i].head = IF ls[i].len = 0 THEN NoGroup ELSE first + p[i] - d[i]
             /\ HasSpace(ls[i]) <=> ls[i].len < m[i]
             /\ seen(i) => p[i] = n
             /\ seen(i + 1) <=> seen(i) /\ ~ HasSpace(ls[i])
             /\ c2[i] = (IF seen(i) THEN c[i] + 1 ELSE c[i])
             /\ c2[i + 1] = (IF seen(i + 1) THEN c[i + 1] + 1 ELSE c[i + 1])
             /\ p2[i] = (IF seen(i) THEN p[i] + d[i] ELSE p[i])
             /\ new[i] = (IF seen(i) THEN Update(ls[i], g, HasSpace(ls[i])) ELSE ls[i])
             /\ i # 1 => i - 1 \in DOMAIN m
  <2> HIDE DEF seen
  <2>1. /\ i \in Nat /\ i >= 1 /\ DOMAIN m = 1 .. Len(m) /\ Len(m) \in Nat
        /\ m[i] \in Nat /\ m[i] >= 1 /\ d[i] \in Int /\ p[i] \in Int
        /\ c[i] \in Nat /\ c[i + 1] \in Nat
        /\ ls[i].len \in Nat /\ ls[i].len =< m[i] /\ ls[i].max = m[i]
        /\ i # 1 => i - 1 \in DOMAIN m
    BY CountedTypes
  <2>2. /\ c[i] = 0 <=> ls[i].len = 0
        /\ c[i] = c[i + 1] * m[i] + ls[i].len
        /\ p[i] = IF i = 1 THEN n ELSE p[i - 1] + (m[i - 1] - ls[i - 1].len) * d[i - 1]
        /\ ls[i].head = IF ls[i].len = 0 THEN NoGroup ELSE first + p[i] - d[i]
    BY DEF CountedAt, Counted
  <2>3. HasSpace(ls[i]) <=> ls[i].len < m[i]
    BY <2>1 DEF HasSpace
  <2>4. seen(i) => p[i] = n
    BY VisitedOffered DEF seen
  <2>5. seen(i + 1) <=> seen(i) /\ ~ HasSpace(ls[i])
    <3>1. i + 1 \in Nat /\ i + 1 >= 1 /\ i + 1 # 1 /\ (i + 1) - 1 = i
      BY <2>1
    <3>2. QED BY <3>1, VisitedNext DEF seen
  <2>6. i \in 1 .. Len(m) + 1 /\ i + 1 \in 1 .. Len(m) + 1
    BY <2>1
  <2>7. new[i] = IF seen(i) THEN Update(ls[i], g, HasSpace(ls[i])) ELSE ls[i]
    BY <1>1 DEF Place, seen
  <2>8. /\ c2[i] = (IF seen(i) THEN c[i] + 1 ELSE c[i])
        /\ c2[i + 1] = (IF seen(i + 1) THEN c[i + 1] + 1 ELSE c[i + 1])
        /\ p2[i] = (IF seen(i) THEN p[i] + d[i] ELSE p[i])
    BY <2>6
  <2> HIDE DEF c2, p2, new, g
  <2>9. QED BY <2>1, <2>2, <2>3, <2>4, <2>5, <2>7, <2>8
<1>4. c2 \in [1 .. Len(m) + 1 -> Nat] /\ p2 \in [DOMAIN m -> Int]
  <2> HIDE DEF seen
  <2>1. QED BY <1>1
<1>5. c2[1] = n + 1
  <2> HIDE DEF seen
  <2>1. 1 \in 1 .. Len(m) + 1
    BY <1>1
  <2>2. seen(1)
    BY VisitedNext DEF seen
  <2>3. QED BY <1>1, <2>1, <2>2
<1> HIDE DEF new, seen, c2, p2
<1>6. ASSUME NEW i \in DOMAIN m
      PROVE  /\ new[i].max = m[i] /\ new[i].len =< m[i]
             /\ c2[i] = 0 <=> new[i].len = 0
             /\ c2[i] = c2[i + 1] * m[i] + new[i].len
             /\ new[i].head = IF new[i].len = 0 THEN NoGroup ELSE first + p2[i] - d[i]
             /\ new[i].len = IF seen(i) THEN IF HasSpace(ls[i]) THEN ls[i].len + 1 ELSE 1
                                        ELSE ls[i].len
  <2>1. /\ m[i] \in Nat /\ m[i] >= 1 /\ d[i] \in Int /\ p[i] \in Int
        /\ c[i] \in Nat /\ c[i + 1] \in Nat
        /\ ls[i].len \in Nat /\ ls[i].len =< m[i] /\ ls[i].max = m[i]
        /\ c[i] = 0 <=> ls[i].len = 0
        /\ c[i] = c[i + 1] * m[i] + ls[i].len
    BY <1>3
  <2>2. CASE ~ seen(i)
    <3>1. new[i] = ls[i] /\ c2[i] = c[i] /\ c2[i + 1] = c[i + 1] /\ p2[i] = p[i]
      BY <1>3, <2>2
    <3>2. ls[i].head = IF ls[i].len = 0 THEN NoGroup ELSE first + p[i] - d[i]
      BY <1>3
    <3>3. QED BY <2>1, <2>2, <3>1, <3>2
  <2>3. CASE seen(i)
    <3>1. /\ c2[i] = c[i] + 1 /\ p[i] = n /\ p2[i] = p[i] + d[i]
          /\ new[i] = Update(ls[i], g, HasSpace(ls[i]))
      BY <1>3, <2>3
    <3>2. new[i].max = m[i] /\ new[i].head = g
          /\ new[i].len = IF HasSpace(ls[i]) THEN ls[i].len + 1 ELSE 1
      BY <2>1, <3>1 DEF Update
    <3>3. HasSpace(ls[i]) <=> ls[i].len < m[i]
      BY <1>3
    <3>4. new[i].len >= 1 /\ new[i].len =< m[i] /\ new[i].len \in Nat
      BY <2>1, <3>2, <3>3
    <3>5. new[i].head = first + p2[i] - d[i]
      BY <1>1, <2>1, <3>1, <3>2
    <3>6. c2[i] = c2[i + 1] * m[i] + new[i].len
      <4>1. CASE HasSpace(ls[i])
        <5>1. c2[i + 1] = c[i + 1]
          BY <1>3, <4>1
        <5>2. c[i + 1] * m[i] \in Int
          BY <2>1
        <5>3. new[i].len = ls[i].len + 1
          BY <3>2, <4>1
        <5>4. QED BY <2>1, <3>1, <5>1, <5>2, <5>3
      <4>2. CASE ~ HasSpace(ls[i])
        <5>1. c2[i + 1] = c[i + 1] + 1 /\ ls[i].len = m[i]
          BY <1>3, <2>1, <2>3, <3>3, <4>2
        <5>2. (c[i + 1] + 1) * m[i] = c[i + 1] * m[i] + m[i]
          BY <2>1
        <5>3. QED BY <2>1, <3>1, <3>2, <4>2, <5>1, <5>2
      <4>3. QED BY <4>1, <4>2
    <3>7. QED BY <2>1, <2>3, <3>1, <3>2, <3>4, <3>5, <3>6
  <2>4. QED BY <2>2, <2>3
<1>7. ASSUME NEW i \in DOMAIN m
      PROVE  p2[i] = IF i = 1 THEN n + 1 ELSE p2[i - 1] + (m[i - 1] - new[i - 1].len) * d[i - 1]
  <2>1. CASE i = 1
    <3>1. seen(i)
      BY <2>1, VisitedNext DEF seen
    <3>2. d[i] = 1
      BY <1>1, <2>1 DEF Spaced
    <3>3. QED BY <1>1, <1>3, <2>1, <3>1, <3>2
  <2>2. CASE i # 1
    <3> DEFINE h == i - 1
    <3>1. h \in DOMAIN m /\ i \in Nat /\ h + 1 = i
      BY <1>3, <2>2
    <3>2. d[i] = d[h] * m[h] /\ p[i] = p[h] + (m[h] - ls[h].len) * d[h]
      BY <1>1, <1>3, <2>2 DEF Spaced
    <3> HIDE DEF h
    <3>3. /\ m[h] \in Nat /\ d[h] \in Int /\ p[h] \in Int /\ ls[h].len \in Nat
          /\ ls[h].len =< m[h] /\ p[i] \in Int /\ d[i] \in Int
      BY <1>3, <3>1
    <3>4. /\ p2[h] = (IF seen(h) THEN p[h] + d[h] ELSE p[h])
          /\ p2[i] = (IF seen(i) THEN p[i] + d[i] ELSE p[i])
          /\ seen(i) <=> seen(h) /\ ~ HasSpace(ls[h])
          /\ HasSpace(ls[h]) <=> ls[h].len < m[h]
      BY <1>3, <3>1
    <3>5. new[h].len = IF seen(h) THEN IF HasSpace(ls[h]) THEN ls[h].len + 1 ELSE 1
                                  ELSE ls[h].len
      BY <1>6, <3>1
    <3>6. p2[i] = p2[h] + (m[h] - new[h].len) * d[h]
      <4>1. CASE ~ seen(h)
        BY <3>2, <3>4, <3>5, <4>1
      <4>2. CASE seen(h) /\ HasSpace(ls[h])
        <5>1. (m[h] - ls[h].len) * d[h] = d[h] + (m[h] - (ls[h].len + 1)) * d[h]
          BY <3>3
        <5>2. (m[h] - (ls[h].len + 1)) * d[h] \in Int /\ (m[h] - ls[h].len) * d[h] \in Int
          BY <3>3
        <5>3. QED BY <3>2, <3>3, <3>4, <3>5, <4>2, <5>1, <5>2
      <4>3. CASE seen(h) /\ ~ HasSpace(ls[h])
        <5>1. new[h].len = 1
          BY <3>5, <4>3
        <5>2. ls[h].len = m[h]
          BY <3>3, <3>4, <4>3
        <5>3. (m[h] - ls[h].len) * d[h] = 0 /\ d[h] + (m[h] - 1) * d[h] = d[h] * m[h]
          BY <3>3, <5>2
        <5>4. (m[h] - 1) * d[h] \in Int
          BY <3>3
        <5>5. QED BY <3>2, <3>3, <3>4, <4>3, <5>1, <5>3, <5>4
      <4>4. QED BY <4>1, <4>2, <4>3
    <3>7. QED BY <2>2, <3>6 DEF h
  <2>3. QED BY <2>1, <2>2
<1>8. Counted(new, m, d, first, n + 1, c2, p2)
  BY <1>2, <1>4, <1>5, <1>6, <1>7 DEF Counted
<1>9. CountedAt(new, m, d, first, n + 1, c2, p2)
  BY <1>1, <1>2, <1>8 DEF CountedAt
<1>10. QED BY <1>9 DEF new

-----------------------------------------------------------------------------
\* The maps of the integration tests: consecutive groups, all to be compressed.
IsLine(map) ==
  /\ \A g \in DOMAIN map : map[g].in_range
  /\ \A g, h \in DOMAIN map : g .. h \subseteq DOMAIN map

\* Levels that can hold a group.
CanHold(ls) == \A i \in DOMAIN ls : ls[i].max >= 1

LevelSizes == [i \in DOMAIN levels |-> levels[i].max]
First      == Min(DOMAIN orig)

\* The sizes, and the numbers of the groups.
LEMMA LineTypes ==
  ASSUME Inv, CanHold(levels), NEW g \in DOMAIN orig
  PROVE  /\ Spaced(LevelSizes, Distances(LevelSizes))
         /\ DOMAIN Initial = DOMAIN LevelSizes
         /\ \A i \in DOMAIN LevelSizes : Initial[i] = NewLevel(LevelSizes[i])
         /\ First \in DOMAIN orig /\ First \in Int /\ First =< g /\ g - First \in Nat
<1>1. LevelSizes \in Sizes
  <2>1. /\ Len(levels) \in Nat /\ DOMAIN levels = 1 .. Len(levels)
        /\ \A i \in 1 .. Len(levels) : levels[i] \in Level
    BY RefTypes
  <2>2. \A i \in 1 .. Len(levels) : levels[i].max \in Nat \ {0}
    BY <2>1 DEF Level, CanHold
  <2>3. LevelSizes \in [1 .. Len(levels) -> Nat \ {0}]
    BY <2>1, <2>2 DEF LevelSizes
  <2>4. QED BY <2>1, <2>3 DEF Sizes
<1>2. Spaced(LevelSizes, Distances(LevelSizes))
  BY <1>1, DistancesSolve DEF Spaced
<1>3. /\ DOMAIN Initial = DOMAIN LevelSizes
      /\ \A i \in DOMAIN LevelSizes : Initial[i] = NewLevel(LevelSizes[i])
  BY DEF Initial, Fresh, LevelSizes
<1>4. DOMAIN orig \in SUBSET Nat
  BY RefTypes
<1>5. First \in DOMAIN orig /\ First =< g
  BY <1>4, MinLeast DEF First
<1>6. QED BY <1>2, <1>3, <1>4, <1>5

\* On consecutive groups the levels are counted at each.
LEMMA LineCounted ==
  ASSUME Inv, IsLine(orig), CanHold(levels)
  PROVE  \A g \in DOMAIN orig : \E c, p :
           CountedAt(LevelsAt(orig, Initial)[g], LevelSizes, Distances(LevelSizes),
                     First, g - First, c, p)
<1> DEFINE Ok(g) == \E c, p :
             CountedAt(LevelsAt(orig, Initial)[g], LevelSizes, Distances(LevelSizes),
                       First, g - First, c, p)
           Bad   == {g \in DOMAIN orig : ~ Ok(g)}
<1>1. SUFFICES ASSUME Bad # {} PROVE FALSE
  OBVIOUS
<1>2. HasRows(orig) /\ Initial \in Seq(Level) /\ DOMAIN orig \in SUBSET Nat
  BY RefTypes
<1>3. PICK g \in Bad : \A h \in Bad : g =< h
  <2>1. Bad \in SUBSET Nat
    BY <1>2
  <2> HIDE DEF Bad
  <2>2. QED BY <1>1, <2>1, MinNat
<1>4. g \in DOMAIN orig /\ g \in Nat /\ ~ Ok(g)
  BY <1>2, <1>3
<1>5. /\ Spaced(LevelSizes, Distances(LevelSizes))
      /\ DOMAIN Initial = DOMAIN LevelSizes
      /\ \A i \in DOMAIN LevelSizes : Initial[i] = NewLevel(LevelSizes[i])
      /\ First \in DOMAIN orig /\ First \in Int /\ First =< g
  BY <1>4, LineTypes
<1>6. CASE g = First
  <2>1. Placed(orig, g) = {}
    <3>1. \A h \in DOMAIN orig : ~ (h < g)
      BY <1>2, <1>6, MinLeast DEF First
    <3>2. QED BY <3>1 DEF Placed
  <2>2. LevelsAt(orig, Initial)[g] = Initial
    BY <1>2, <1>4, <2>1, LevelsAtSolves
  <2>3. g - First = 0
    BY <1>4, <1>6
  <2>4. \E c, p : CountedAt(Initial, LevelSizes, Distances(LevelSizes), First, 0, c, p)
    BY <1>2, <1>5, EmptyCounted
  <2>5. QED BY <1>4, <2>2, <2>3, <2>4
<1>7. CASE g # First
  <2> DEFINE h == g - 1
  <2>1. h \in DOMAIN orig /\ h \in Nat /\ h < g
    <3>1. h \in First .. g
      BY <1>2, <1>4, <1>5, <1>7
    <3>2. QED BY <1>2, <1>4, <1>5, <3>1 DEF IsLine
  <2>2. Ok(h)
    <3> HIDE DEF Ok, h
    <3>1. h \notin Bad
      BY <1>3, <1>4, <2>1
    <3>2. QED BY <2>1, <3>1
  <2>3. Placed(orig, g) # {} /\ Max(Placed(orig, g)) = h
    <3>1. h \in Placed(orig, g)
      BY <2>1 DEF Placed, IsLine
    <3>2. \A k \in Placed(orig, g) : k =< h
      BY <1>2, <1>4 DEF Placed
    <3>3. Placed(orig, g) \in SUBSET Groups
      BY RefTypes DEF Placed
    <3> HIDE DEF h
    <3>4. QED BY <3>1, <3>2, <3>3, MaxIs
  <2>4. LevelsAt(orig, Initial)[g] = Place(LevelsAt(orig, Initial)[h], h)
    BY <1>2, <1>4, <2>3, LevelsAtSolves
  <2>5. First + (h - First) = h /\ (h - First) + 1 = g - First /\ h \in Groups
    BY <1>4, <1>5, <2>1, RefTypes
  <2>6. PICK c, p : CountedAt(LevelsAt(orig, Initial)[h], LevelSizes, Distances(LevelSizes),
                              First, h - First, c, p)
    BY <2>2
  <2> HIDE DEF Ok, h
  <2>7. \E c2, p2 : CountedAt(Place(LevelsAt(orig, Initial)[h], First + (h - First)),
                              LevelSizes, Distances(LevelSizes), First, (h - First) + 1, c2, p2)
    BY <2>5, <2>6, PlaceCounted
  <2>8. Ok(g)
    BY <2>4, <2>5, <2>7 DEF Ok
  <2>9. QED BY <1>4, <2>8
<1>8. QED BY <1>6, <1>7

\* If all bases fit, a group gets the head it is offered as its predecessor.
LEMMA AllFitPrev ==
  ASSUME Inv, RefInv, IsLine(orig), NEW g \in DOMAIN newMap,
         \A h \in DOMAIN orig : h < g => Fits(Original[h], Original[g])
  PROVE  newMap[g].prev = HeadOf(g)
<1>1. newMap[g] = RefRow(g) /\ g \in DOMAIN orig /\ orig[g].in_range
  BY RefTypes DEF RefInv, IsLine
<1>2. CASE HeadOf(g) = orig[g].prev
  BY <1>1, <1>2 DEF RefRow
<1>3. CASE HeadOf(g) # orig[g].prev
  <2> DEFINE head  == HeadOf(g)
             bases == Bases(newMap, Original, head, g)
  <2>1. newMap[g] = NewestRow(bases, Original, g)
    BY <1>1, <1>3 DEF RefRow
  <2>2. CASE head = NoGroup
    BY <2>1, <2>2 DEF NewestRow, Bases, Entry
  <2>3. CASE head # NoGroup
    <3>1. head \in DOMAIN newMap /\ head < g
      BY <1>1, <2>3, HeadStored
    <3>2. /\ head \in Ancestry(newMap)[head]
          /\ Ancestry(newMap)[head] \subseteq DOMAIN newMap
          /\ \A b \in Ancestry(newMap)[head] : b =< head
      BY <3>1, RefTypes, AncestryOlder
    <3> HIDE DEF head
    <3>3. head \in bases
      BY <2>3, <3>1, <3>2, RefTypes DEF Bases
    <3>4. bases \in SUBSET Groups /\ \A b \in bases : b =< head
      BY <2>3, <3>2, RefTypes DEF Bases
    <3> HIDE DEF bases
    <3>5. Max(bases) = head
      BY <3>3, <3>4, MaxIs
    <3>6. QED BY <2>1, <3>3, <3>5 DEF NewestRow, Entry, head
  <2>4. QED BY <2>2, <2>3
<1>4. QED BY <1>2, <1>3

\* Then the predecessors are where the arithmetic has them.
LEMMA LineStructure ==
  ASSUME Inv, RefInv, IsLine(orig), CanHold(levels)
  PROVE  StructureIsCorrect
<1> DEFINE steps(g) == StepBack(g - First, LevelSizes)
<1> SUFFICES ASSUME \A g \in DOMAIN orig : \A h \in DOMAIN orig :
                      h < g => Fits(Original[h], Original[g]),
                    NEW g \in DOMAIN newMap
             PROVE  newMap[g].prev = IF steps(g) = {} THEN NoGroup ELSE g - Max(steps(g))
  BY DEF StructureIsCorrect, First, LevelSizes
<1>1. g \in DOMAIN orig /\ g \in Int
  BY RefTypes
<1>2. newMap[g].prev = HeadOf(g)
  BY <1>1, AllFitPrev
<1>3. PICK c, p : CountedAt(LevelsAt(orig, Initial)[g], LevelSizes, Distances(LevelSizes),
                            First, g - First, c, p)
  BY <1>1, LineCounted
<1>4. g = First + (g - First)
  BY <1>1, LineTypes
<1>5. HeadOf(g) = IF steps(g) = {} THEN NoGroup ELSE g - Max(steps(g))
  BY <1>3, <1>4, CandidateIsBack DEF HeadOf
<1>6. QED BY <1>2, <1>5

\* A step changes neither the map nor the sizes of the levels.
LEMMA NextLine ==
  ASSUME Inv, IsLine(orig) /\ CanHold(levels), [Next]_vars
  PROVE  IsLine(orig)' /\ CanHold(levels)'
<1>1. orig' = orig
  BY NextKeeps DEF vars
<1>2. levels' = levels \/ levels' = Place(levels, Current)
  BY DEF Next, vars, CopyOutOfRange, KeepEntry, StoreFull, StartDelta, UseBase, WalkUp,
         ForcedReset, MissingBase
<1>3. CanHold(levels')
  BY <1>2, RefTypes, PlaceSizes DEF CanHold
<1>4. QED BY <1>1, <1>3

\* For levels of all sizes and lines of groups of any length: where every
\* group can be a delta from every older one, the predecessors are those the
\* arithmetic gives (compressed_3_3_from_0_to_13_with_state of the integration
\* tests has one case of it).
THEOREM StructureFollowsSizes ==
  ASSUME \A call \in Calls :
           IsFresh(call.levels) /\ CanHold(call.levels) /\ IsLine(call.map)
  PROVE  Spec => []StructureIsCorrect
<1>1. Init => RefAll
  BY InitRefAll
<1>2. Init => IsLine(orig) /\ CanHold(levels)
  BY DEF Init
<1>3. Inv /\ RefAll /\ IsLine(orig) /\ CanHold(levels) => StructureIsCorrect
  BY LineStructure DEF RefAll
<1>4. Inv /\ IsLine(orig) /\ CanHold(levels) /\ [Next]_vars => IsLine(orig)' /\ CanHold(levels)'
  BY NextLine
<1>5. QED BY <1>1, <1>2, <1>3, <1>4, NextRefAll, InvIsInvariant, PTL DEF Spec
=============================================================================
