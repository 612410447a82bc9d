------------------------- MODULE StateGroupsProofs -------------------------
(***************************************************************************)
(* Lemmas about the operators of StateGroups: what a delta restores, and   *)
(* that the deltas of a well-formed map determine every full state.        *)
(***************************************************************************)
EXTENDS StateGroups, FiniteSetsExt, WellFoundedInduction, TLAPS

\* Groups with a predecessor and a delta: a map in memory or the tables.
HasRows(map) ==
  /\ DOMAIN map \subseteq Groups
  /\ \A g \in DOMAIN map : map[g].prev \in OptGroup /\ map[g].delta \in StateMaps

\* A nonempty set of natural numbers has a least element.
LEMMA MinNat ==
  ASSUME NEW T \in SUBSET Nat, T # {}
  PROVE  \E x \in T : \A y \in T : x =< y
<1>1. \E x \in T : \A y \in T : <<y, x>> \notin OpToRel(<, Nat)
  BY NatLessThanWellFounded, WFMin
<1>2. PICK x \in T : \A y \in T : <<y, x>> \notin OpToRel(<, Nat)
  BY <1>1
<1>3. ASSUME NEW y \in T PROVE x =< y
  <2>1. x \in Nat /\ y \in Nat
    OBVIOUS
  <2>2. ~ (y < x)
    BY <1>2, <2>1 DEF OpToRel
  <2>3. QED BY <2>1, <2>2
<1>4. QED BY <1>3

\* Min of a nonempty set of natural numbers is its least element.
LEMMA MinLeast ==
  ASSUME NEW T \in SUBSET Nat, T # {}
  PROVE  Min(T) \in T /\ \A y \in T : Min(T) =< y
<1>1. \E x \in T : \A y \in T : x =< y
  BY MinNat
<1>2. QED BY <1>1 DEF Min

\* Max of a nonempty set of groups is its greatest element.
LEMMA MaxGreatest ==
  ASSUME NEW T \in SUBSET Groups, T # {}
  PROVE  Max(T) \in T /\ \A y \in T : Max(T) >= y
<1> DEFINE Bounds == {n \in Nat : \A y \in T : n >= y}
<1>1. T \in SUBSET Nat /\ \A y \in T : y =< MaxGroup
  BY MaxGroupAssumption DEF Groups
<1>2. MaxGroup \in Bounds
  BY <1>1, MaxGroupAssumption
<1>3. PICK n \in Bounds : \A m \in Bounds : n =< m
  <2>1. Bounds \in SUBSET Nat /\ Bounds # {}
    BY <1>2
  <2> HIDE DEF Bounds
  <2>2. QED BY <2>1, MinNat
<1>4. n \in T
  <2>1. SUFFICES ASSUME n \notin T PROVE FALSE
    OBVIOUS
  <2>2. \A y \in T : y < n
    BY <1>1, <1>3, <2>1
  <2>3. PICK y \in T : TRUE
    OBVIOUS
  <2>4. n - 1 \in Bounds
    BY <1>1, <2>2, <2>3
  <2>5. QED BY <1>3, <2>4
<1>5. \E x \in T : \A y \in T : x >= y
  BY <1>3, <1>4
<1>6. QED BY <1>5 DEF Max

\* A recursion over the numbers of D, all below the bound: pred leads to
\* smaller ones until it meets a root.
IsRecursion(D, bound, S, root, start, pred, step) ==
  /\ D \in SUBSET Nat /\ bound \in Nat /\ \A x \in D : x < bound
  /\ root \in SUBSET D /\ start \in [root -> S]
  /\ pred \in [D \ root -> D] /\ \A x \in D \ root : pred[x] < x
  /\ step \in [D -> [S -> S]]

\* It has a solution.
LEMMA RecursionExists ==
  ASSUME NEW D, NEW bound, NEW S, NEW root, NEW start, NEW pred, NEW step,
         IsRecursion(D, bound, S, root, start, pred, step)
  PROVE  \E f \in [D -> S] :
           \A x \in D : f[x] = IF x \in root THEN start[x] ELSE step[x][f[pred[x]]]
<1> USE DEF IsRecursion
<1> DEFINE Below(n) == {x \in D : x < n}
           Next(f, x) == IF x \in root THEN start[x] ELSE step[x][f[pred[x]]]
           Sol(n) == \E f \in [Below(n) -> S] : \A x \in Below(n) : f[x] = Next(f, x)
           Bad == {n \in Nat : ~ Sol(n)}
<1>1. Bad = {}
  <2>1. SUFFICES ASSUME Bad # {} PROVE FALSE
    OBVIOUS
  <2>2. PICK n \in Bad : \A m \in Bad : n =< m
    <3>1. Bad \in SUBSET Nat /\ Bad # {}
      BY <2>1
    <3> HIDE DEF Bad
    <3>2. QED BY <3>1, MinNat
  <2>3. n # 0
    <3>1. Below(0) = {}
      <4>1. \A x \in D : x \in Nat /\ ~ (x < 0)
        OBVIOUS
      <4>2. QED BY <4>1
    <3>2. Sol(0)
      <4>1. [x \in {} |-> 0] \in [{} -> S]
        OBVIOUS
      <4> HIDE DEF Below
      <4>2. QED BY <3>1, <4>1
    <3> HIDE DEF Sol
    <3>3. QED BY <3>2
  <2>4. n \in Nat /\ n - 1 \in Nat /\ n - 1 < n
    BY <2>3
  <2>5. Sol(n - 1)
    <3> HIDE DEF Sol
    <3>1. n - 1 \notin Bad
      <4> HIDE DEF Bad
      <4> QED BY <2>2, <2>4
    <3>2. QED BY <3>1, <2>4
  <2>6. PICK f \in [Below(n - 1) -> S] : \A x \in Below(n - 1) : f[x] = Next(f, x)
    BY <2>5
  <2> DEFINE h == [x \in Below(n) |-> IF x < n - 1 THEN f[x] ELSE Next(f, x)]
  <2>7. ASSUME NEW x \in Below(n)
        PROVE  h[x] = Next(f, x) /\ h[x] \in S /\ Next(f, x) = Next(h, x)
    <3>1. h[x] = Next(f, x)
      <4>1. CASE x < n - 1
        <5>1. x \in Below(n - 1)
          BY <4>1
        <5> HIDE DEF Next
        <5>2. QED BY <2>6, <4>1, <5>1
      <4>2. CASE ~ (x < n - 1)
        BY <4>2
      <4>3. QED BY <4>1, <4>2
    <3>2. x \notin root => pred[x] \in Below(n - 1) /\ pred[x] \in Below(n) /\ pred[x] < n - 1
      <4>1. ASSUME x \notin root 
            PROVE  pred[x] \in D /\ pred[x] \in Nat /\ x \in Nat /\ pred[x] < x /\ x < n
        BY <4>1
      <4>2. ASSUME x \notin root PROVE pred[x] < n - 1 /\ pred[x] < n
        BY <4>1, <4>2, <2>4
      <4>3. QED BY <4>1, <4>2
    <3>3. x \notin root => h[pred[x]] = f[pred[x]] /\ f[pred[x]] \in S
      <4> HIDE DEF Next
      <4>1. QED BY <2>6, <3>2
    <3>4. Next(f, x) = Next(h, x)
      <4> HIDE DEF h
      <4>1. QED BY <3>3
    <3>5. Next(f, x) \in S
      <4>1. CASE x \in root
        BY <4>1
      <4>2. CASE x \notin root
        <5>1. step[x] \in [S -> S]
          OBVIOUS
        <5>2. QED BY <3>3, <4>2, <5>1
      <4>3. QED BY <4>1, <4>2
    <3> HIDE DEF Next, h
    <3>6. QED BY <3>1, <3>4, <3>5
  <2>8. h \in [Below(n) -> S] /\ \A x \in Below(n) : h[x] = Next(h, x)
    <3>1. \A x \in Below(n) : h[x] \in S
      <4> HIDE DEF h, Next, Below
      <4> QED BY <2>7
    <3>2. h = [x \in Below(n) |-> h[x]]
      <4> HIDE DEF Next, Below
      <4> QED OBVIOUS
    <3> HIDE DEF h, Next, Below
    <3>3. QED BY <2>7, <3>1, <3>2
  <2>9. Sol(n)
    <3> HIDE DEF h, Next, Below
    <3> QED BY <2>8
  <2> HIDE DEF Sol
  <2>10. QED BY <2>9
<1>2. Sol(bound)
  <2> HIDE DEF Sol
  <2> QED BY <1>1
<1>3. Below(bound) = D
  OBVIOUS
<1>4. QED BY <1>2, <1>3

\* Extending a state map by a delta gives a state map.
LEMMA ExtendType ==
  ASSUME NEW m \in StateMaps, NEW d \in StateMaps
  PROVE  Extend(m, d) \in StateMaps
BY DEF Extend, StateMaps

\* The delta get_delta computes is a state map.
LEMMA DeltaType ==
  ASSUME NEW c \in StateMaps, NEW m \in StateMaps
  PROVE  DeltaFrom(c, m) \in StateMaps
BY DEF DeltaFrom, StateMaps

\* The delta get_delta computes, applied to the base it was computed from,
\* gives back the state of the group: what makes Fits the right test.
LEMMA DeltaRestores ==
  ASSUME NEW c \in StateMaps, NEW m \in StateMaps, Fits(c, m)
  PROVE  Extend(c, DeltaFrom(c, m)) = m
<1>1. \A k \in Keys : Extend(c, DeltaFrom(c, m))[k] = m[k]
  BY DEF Extend, DeltaFrom, Fits, StateMaps
<1>2. Extend(c, DeltaFrom(c, m)) = [k \in Keys |-> Extend(c, DeltaFrom(c, m))[k]]
  BY DEF Extend
<1>3. m = [k \in Keys |-> m[k]]
  BY DEF StateMaps
<1>4. QED BY <1>1, <1>2, <1>3

\* The rows of a map are of the right kind, and its groups are numbers.
LEMMA GroupMapRows ==
  ASSUME NEW map, HasRows(map)
  PROVE  /\ DOMAIN map \in SUBSET Groups
         /\ \A g \in DOMAIN map :
              /\ g \in Nat
              /\ map[g].prev \in OptGroup
              /\ map[g].delta \in StateMaps
BY MaxGroupAssumption DEF HasRows, Groups

\* A map of entries has rows.
LEMMA EntriesAreRows ==
  ASSUME NEW map, IsGroupMap(map)
  PROVE  HasRows(map)
BY DEF IsGroupMap, HasRows, Entries

\* A recursion along the predecessors of a map.
IsMapRecursion(map, S, start, step) ==
  start \in [DOMAIN map -> S] /\ step \in [DOMAIN map -> [S -> S]]

\* It has a solution, if the map is well-formed.
LEMMA MapRecursion ==
  ASSUME NEW map, HasRows(map), WellFormed(map), NEW S, NEW start, NEW step,
         IsMapRecursion(map, S, start, step)
  PROVE  \E f \in [DOMAIN map -> S] : \A g \in DOMAIN map :
           f[g] = IF map[g].prev = NoGroup THEN start[g] ELSE step[g][f[map[g].prev]]
<1> DEFINE D     == DOMAIN map
           root  == {g \in D : map[g].prev = NoGroup}
           first == [g \in root |-> start[g]]
           pred  == [g \in D \ root |-> map[g].prev]
<1>1. D \in SUBSET Nat /\ MaxGroup + 1 \in Nat /\ \A g \in D : g < MaxGroup + 1
  BY MaxGroupAssumption DEF HasRows, Groups
<1>2. /\ root \in SUBSET D
      /\ pred \in [D \ root -> D]
      /\ \A g \in D \ root : pred[g] < g
  BY DEF WellFormed
<1>3. start \in [D -> S] /\ step \in [D -> [S -> S]]
  BY DEF IsMapRecursion
<1>4. \E f \in [D -> S] :
        \A g \in D : f[g] = IF g \in root THEN first[g] ELSE step[g][f[pred[g]]]
  <2>1. first \in [root -> S]
    BY <1>2, <1>3
  <2> HIDE DEF D, root, first, pred
  <2>2. IsRecursion(D, MaxGroup + 1, S, root, first, pred, step)
    BY <1>1, <1>2, <1>3, <2>1 DEF IsRecursion
  <2>3. QED BY <2>2, RecursionExists
<1>5. QED BY <1>4

\* On a well-formed map the recursion of collapse_state_maps has a solution.
LEMMA CollapseExists ==
  ASSUME NEW map, HasRows(map), WellFormed(map)
  PROVE  \E f : f = [g \in DOMAIN map |->
                       IF map[g].prev = NoGroup
                       THEN map[g].delta
                       ELSE Extend(f[map[g].prev], map[g].delta)]
<1> DEFINE start == [g \in DOMAIN map |-> map[g].delta]
           step  == [g \in DOMAIN map |-> [m \in StateMaps |-> Extend(m, map[g].delta)]]
<1>1. start \in [DOMAIN map -> StateMaps] /\ step \in [DOMAIN map -> [StateMaps -> StateMaps]]
  BY GroupMapRows, ExtendType
<1>2. PICK f \in [DOMAIN map -> StateMaps] : \A g \in DOMAIN map :
        f[g] = IF map[g].prev = NoGroup THEN start[g] ELSE step[g][f[map[g].prev]]
  <2>1. IsMapRecursion(map, StateMaps, start, step)
    BY <1>1 DEF IsMapRecursion
  <2> HIDE DEF start, step
  <2>2. QED BY <2>1, MapRecursion
<1>3. \A g \in DOMAIN map :
        f[g] = IF map[g].prev = NoGroup
               THEN map[g].delta
               ELSE Extend(f[map[g].prev], map[g].delta)
  <2>1. \A g \in DOMAIN map : map[g].prev # NoGroup => f[map[g].prev] \in StateMaps
    BY DEF WellFormed
  <2>2. QED BY <1>2, <2>1
<1>4. QED BY <1>3

\* On a well-formed map Collapse gives each group what its row asks for.
LEMMA CollapseSolves ==
  ASSUME NEW map, HasRows(map), WellFormed(map)
  PROVE  /\ Solves(Collapse(map), map)
         /\ DOMAIN Collapse(map) = DOMAIN map
         /\ Collapse(map) = [g \in DOMAIN map |-> Collapse(map)[g]]
<1> DEFINE F == CHOOSE f : f = [g \in DOMAIN map |->
                       IF map[g].prev = NoGroup
                       THEN map[g].delta
                       ELSE Extend(f[map[g].prev], map[g].delta)]
<1>1. Collapse(map) = F
  BY DEF Collapse
<1>2. F = [g \in DOMAIN map |->
                       IF map[g].prev = NoGroup
                       THEN map[g].delta
                       ELSE Extend(F[map[g].prev], map[g].delta)]
  BY CollapseExists
<1> HIDE DEF F
<1>3. F = [g \in DOMAIN map |-> F[g]]
  BY <1>2
<1>4. QED BY <1>1, <1>2, <1>3 DEF Solves

\* The deltas leave no choice: two assignments that solve the same map agree
\* on its groups.
LEMMA SolutionsAgree ==
  ASSUME NEW map, HasRows(map), WellFormed(map), NEW a, NEW b,
         Solves(a, map), Solves(b, map)
  PROVE  \A g \in DOMAIN map : a[g] = b[g]
<1> DEFINE Bad == {g \in DOMAIN map : a[g] # b[g]}
<1>1. SUFFICES ASSUME Bad # {} PROVE FALSE
  OBVIOUS
<1>2. Bad \in SUBSET Nat
  BY GroupMapRows
<1>3. PICK g \in Bad : \A h \in Bad : g =< h
  <2> HIDE DEF Bad
  <2> QED BY <1>1, <1>2, MinNat
<1>4. map[g].prev # NoGroup => a[map[g].prev] = b[map[g].prev]
  <2>1. ASSUME map[g].prev # NoGroup
        PROVE  map[g].prev \in DOMAIN map /\ map[g].prev < g
    BY <2>1 DEF WellFormed
  <2>2. ASSUME map[g].prev # NoGroup PROVE map[g].prev \notin Bad
    BY <2>1, <2>2, <1>2, <1>3
  <2>3. QED BY <2>1, <2>2
<1>5. a[g] = b[g]
  BY <1>4 DEF Solves
<1>6. QED BY <1>5

\* The full states of a well-formed map are state maps.
LEMMA CollapseType ==
  ASSUME NEW map, HasRows(map), WellFormed(map)
  PROVE  \A g \in DOMAIN map : Collapse(map)[g] \in StateMaps
<1> DEFINE Bad == {g \in DOMAIN map : Collapse(map)[g] \notin StateMaps}
<1>1. SUFFICES ASSUME Bad # {} PROVE FALSE
  OBVIOUS
<1>2. Bad \in SUBSET Nat
  BY GroupMapRows
<1>3. PICK g \in Bad : \A h \in Bad : g =< h
  <2> HIDE DEF Bad
  <2> QED BY <1>1, <1>2, MinNat
<1>4. Solves(Collapse(map), map)
  BY CollapseSolves
<1>5. CASE map[g].prev = NoGroup
  <2>1. Collapse(map)[g] = map[g].delta
    BY <1>4, <1>5 DEF Solves
  <2>2. QED BY <2>1, GroupMapRows
<1>6. CASE map[g].prev # NoGroup
  <2>1. map[g].prev \in DOMAIN map /\ map[g].prev < g
    BY <1>6 DEF WellFormed
  <2>2. Collapse(map)[map[g].prev] \in StateMaps
    BY <2>1, <1>2, <1>3
  <2>3. Collapse(map)[g] = Extend(Collapse(map)[map[g].prev], map[g].delta)
    BY <1>4, <1>6 DEF Solves
  <2>4. map[g].delta \in StateMaps
    BY GroupMapRows
  <2>5. Collapse(map)[g] \in StateMaps
    BY <2>2, <2>3, <2>4, ExtendType
  <2>6. QED BY <2>5
<1>7. QED BY <1>5, <1>6

-----------------------------------------------------------------------------
\* An assignment that solves a map is its Collapse.
LEMMA CollapseUnique ==
  ASSUME NEW map, HasRows(map), WellFormed(map), NEW a, Solves(a, map),
         a = [g \in DOMAIN map |-> a[g]]
  PROVE  Collapse(map) = a
<1>1. Solves(Collapse(map), map) /\ Collapse(map) = [g \in DOMAIN map |-> Collapse(map)[g]]
  BY CollapseSolves
<1>2. \A g \in DOMAIN map : Collapse(map)[g] = a[g]
  BY <1>1, SolutionsAgree
<1>3. QED BY <1>1, <1>2

\* The states in a part of a map, closed under predecessors, are those in the
\* map itself.
LEMMA PartCollapse ==
  ASSUME NEW map, HasRows(map), WellFormed(map),
         NEW part, HasRows(part), WellFormed(part),
         DOMAIN part \subseteq DOMAIN map,
         \A g \in DOMAIN part : part[g].prev = map[g].prev /\ part[g].delta = map[g].delta
  PROVE  \A g \in DOMAIN part : Collapse(part)[g] = Collapse(map)[g]
<1>1. Solves(Collapse(map), part)
  BY CollapseSolves DEF Solves
<1>2. Solves(Collapse(part), part)
  BY CollapseSolves
<1>3. QED BY <1>1, <1>2, SolutionsAgree

\* A new group adds its state and changes no other.
LEMMA InsertCollapse ==
  ASSUME NEW map, HasRows(map), WellFormed(map),
         NEW g \in Groups \ DOMAIN map,
         NEW row \in Row,
         row.prev # NoGroup => row.prev \in DOMAIN map /\ row.prev < g
  PROVE  /\ HasRows(Insert(map, g, row))
         /\ WellFormed(Insert(map, g, row))
         /\ \E m \in StateMaps :
              Collapse(Insert(map, g, row)) = Insert(Collapse(map), g, m)
<1> DEFINE new == Insert(map, g, row)
           m   == IF row.prev = NoGroup
                  THEN row.delta
                  ELSE Extend(Collapse(map)[row.prev], row.delta)
           a   == Insert(Collapse(map), g, m)
<1>1. Solves(Collapse(map), map) /\ DOMAIN Collapse(map) = DOMAIN map
  BY CollapseSolves
<1>2. /\ DOMAIN new = DOMAIN map \cup {g}
      /\ new[g] = row
      /\ \A h \in DOMAIN map : new[h] = map[h]
  BY DEF Insert
<1>3. /\ a = [h \in DOMAIN new |-> a[h]]
      /\ a[g] = m
      /\ \A h \in DOMAIN map : a[h] = Collapse(map)[h]
  BY <1>1, <1>2 DEF Insert
<1>4. m \in StateMaps
  <2>1. row.delta \in StateMaps
    BY DEF Row
  <2>2. row.prev # NoGroup => Collapse(map)[row.prev] \in StateMaps
    BY CollapseType
  <2>3. row.prev # NoGroup => Extend(Collapse(map)[row.prev], row.delta) \in StateMaps
    BY <2>1, <2>2, ExtendType
  <2>4. QED BY <2>1, <2>3
<1> HIDE DEF new, a
<1>5. HasRows(new)
  BY <1>2 DEF HasRows, Row
<1>6. WellFormed(new)
  BY <1>2 DEF WellFormed
<1>7. Solves(a, new)
  <2>1. ASSUME NEW h \in DOMAIN map
        PROVE  a[h] = IF new[h].prev = NoGroup
                      THEN new[h].delta
                      ELSE Extend(a[new[h].prev], new[h].delta)
    <3>1. map[h].prev # NoGroup => a[map[h].prev] = Collapse(map)[map[h].prev]
      BY <1>3 DEF WellFormed
    <3>2. QED BY <1>1, <1>2, <1>3, <3>1 DEF Solves
  <2>2. a[g] = IF new[g].prev = NoGroup
               THEN new[g].delta
               ELSE Extend(a[new[g].prev], new[g].delta)
    BY <1>2, <1>3
  <2>3. QED BY <1>2, <2>1, <2>2 DEF Solves
<1>8. Collapse(new) = a
  BY <1>3, <1>5, <1>6, <1>7, CollapseUnique
<1>9. QED BY <1>4, <1>5, <1>6, <1>8 DEF new, a

\* Rows that ask for the states that are there replace rows and change nothing.
LEMMA ReplaceCollapse ==
  ASSUME NEW map, HasRows(map), WellFormed(map),
         NEW g \in DOMAIN map,
         NEW row \in Row,
         row.prev # NoGroup => row.prev \in DOMAIN map /\ row.prev < g,
         Collapse(map)[g] = IF row.prev = NoGroup
                            THEN row.delta
                            ELSE Extend(Collapse(map)[row.prev], row.delta)
  PROVE  /\ HasRows([map EXCEPT ![g] = row])
         /\ WellFormed([map EXCEPT ![g] = row])
         /\ Collapse([map EXCEPT ![g] = row]) = Collapse(map)
<1> DEFINE new == [map EXCEPT ![g] = row]
<1>1. /\ DOMAIN new = DOMAIN map
      /\ new[g] = row
      /\ \A h \in DOMAIN map \ {g} : new[h] = map[h]
  OBVIOUS
<1>2. /\ Solves(Collapse(map), map)
      /\ Collapse(map) = [h \in DOMAIN map |-> Collapse(map)[h]]
  BY CollapseSolves
<1> HIDE DEF new
<1>3. HasRows(new)
  BY <1>1 DEF HasRows, Row
<1>4. WellFormed(new)
  BY <1>1 DEF WellFormed
<1>5. Solves(Collapse(map), new)
  BY <1>1, <1>2 DEF Solves
<1>6. Collapse(new) = Collapse(map)
  BY <1>1, <1>2, <1>3, <1>4, <1>5, CollapseUnique
<1>7. QED BY <1>3, <1>4, <1>6 DEF new

-----------------------------------------------------------------------------
\* On a well-formed map the lengths of the chains are defined.
LEMMA ChainExists ==
  ASSUME NEW map, HasRows(map), WellFormed(map)
  PROVE  \E f : f = [g \in DOMAIN map |->
                       IF map[g].prev = NoGroup THEN 1 ELSE 1 + f[map[g].prev]]
<1> DEFINE start == [g \in DOMAIN map |-> 1]
           step  == [g \in DOMAIN map |-> [n \in Nat |-> 1 + n]]
<1>1. start \in [DOMAIN map -> Nat] /\ step \in [DOMAIN map -> [Nat -> Nat]]
  OBVIOUS
<1>2. PICK f \in [DOMAIN map -> Nat] : \A g \in DOMAIN map :
        f[g] = IF map[g].prev = NoGroup THEN start[g] ELSE step[g][f[map[g].prev]]
  <2>1. IsMapRecursion(map, Nat, start, step)
    BY <1>1 DEF IsMapRecursion
  <2> HIDE DEF start, step
  <2>2. QED BY <2>1, MapRecursion
<1>3. \A g \in DOMAIN map :
        f[g] = IF map[g].prev = NoGroup THEN 1 ELSE 1 + f[map[g].prev]
  <2>1. \A g \in DOMAIN map : map[g].prev # NoGroup => f[map[g].prev] \in Nat
    BY DEF WellFormed
  <2>2. QED BY <1>2, <2>1
<1>4. QED BY <1>3

\* A chain is one longer than that of the predecessor.
LEMMA ChainSolves ==
  ASSUME NEW map, HasRows(map), WellFormed(map)
  PROVE  \A g \in DOMAIN map :
           ChainLength(map)[g] =
             IF map[g].prev = NoGroup THEN 1 ELSE 1 + ChainLength(map)[map[g].prev]
<1> DEFINE F == CHOOSE f : f = [g \in DOMAIN map |->
                       IF map[g].prev = NoGroup THEN 1 ELSE 1 + f[map[g].prev]]
<1>1. ChainLength(map) = F
  BY DEF ChainLength
<1>2. F = [g \in DOMAIN map |-> IF map[g].prev = NoGroup THEN 1 ELSE 1 + F[map[g].prev]]
  BY ChainExists
<1> HIDE DEF F
<1>3. \A g \in DOMAIN map : F[g] = IF map[g].prev = NoGroup THEN 1 ELSE 1 + F[map[g].prev]
  BY <1>2
<1>4. QED BY <1>1, <1>3

\* A chain has a group at least.
LEMMA ChainPositive ==
  ASSUME NEW map, HasRows(map), WellFormed(map)
  PROVE  \A g \in DOMAIN map : ChainLength(map)[g] \in Nat /\ ChainLength(map)[g] >= 1
<1> DEFINE Ok(g) == ChainLength(map)[g] \in Nat /\ ChainLength(map)[g] >= 1
           Bad == {g \in DOMAIN map : ~ Ok(g)}
<1>1. SUFFICES ASSUME Bad # {} PROVE FALSE
  OBVIOUS
<1>2. Bad \in SUBSET Nat
  BY GroupMapRows
<1>3. PICK g \in Bad : \A h \in Bad : g =< h
  <2> HIDE DEF Bad
  <2> QED BY <1>1, <1>2, MinNat
<1>4. map[g].prev # NoGroup => Ok(map[g].prev)
  <2>1. ASSUME map[g].prev # NoGroup
        PROVE  map[g].prev \in DOMAIN map /\ map[g].prev < g
    BY <2>1 DEF WellFormed
  <2> HIDE DEF Ok
  <2>2. ASSUME map[g].prev # NoGroup PROVE map[g].prev \notin Bad
    BY <2>1, <2>2, <1>2, <1>3
  <2>3. QED BY <2>1, <2>2
<1>5. Ok(g)
  BY <1>4, ChainSolves
<1>6. QED BY <1>5

\* Chains are as long in one map as in another that agrees on a set of groups
\* with their predecessors.
LEMMA PartChains ==
  ASSUME NEW map, HasRows(map), WellFormed(map),
         NEW other, HasRows(other), WellFormed(other),
         NEW part, part \subseteq DOMAIN map, part \subseteq DOMAIN other,
         \A g \in part : /\ other[g].prev = map[g].prev
                         /\ map[g].prev # NoGroup => map[g].prev \in part
  PROVE  \A g \in part : ChainLength(other)[g] = ChainLength(map)[g]
<1> DEFINE Bad == {g \in part : ChainLength(other)[g] # ChainLength(map)[g]}
<1>1. SUFFICES ASSUME Bad # {} PROVE FALSE
  OBVIOUS
<1>2. Bad \in SUBSET Nat
  BY GroupMapRows
<1>3. PICK g \in Bad : \A h \in Bad : g =< h
  <2> HIDE DEF Bad
  <2> QED BY <1>1, <1>2, MinNat
<1>4. map[g].prev # NoGroup => ChainLength(other)[map[g].prev] = ChainLength(map)[map[g].prev]
  <2>1. ASSUME map[g].prev # NoGroup
        PROVE  map[g].prev \in part /\ map[g].prev \in Nat /\ map[g].prev < g
    BY <2>1, GroupMapRows DEF WellFormed
  <2>2. ASSUME map[g].prev # NoGroup PROVE map[g].prev \notin Bad
    BY <2>1, <2>2, <1>2, <1>3
  <2>3. QED BY <2>1, <2>2
<1>5. ChainLength(other)[g] = ChainLength(map)[g]
  <2>1. /\ ChainLength(map)[g] =
             IF map[g].prev = NoGroup THEN 1 ELSE 1 + ChainLength(map)[map[g].prev]
        /\ ChainLength(other)[g] =
             IF other[g].prev = NoGroup THEN 1 ELSE 1 + ChainLength(other)[other[g].prev]
    BY ChainSolves
  <2>2. QED BY <2>1, <1>4
<1>6. QED BY <1>5
=============================================================================
