------------------------ MODULE CompressorReference ------------------------
(***************************************************************************)
(* What the compressor computes, without its loops: the map it builds from *)
(* empty levels as a relation between maps, and as plain arithmetic for a  *)
(* map in which every group can be a delta from every older one.           *)
(***************************************************************************)
EXTENDS Compressor

Fresh(sizes) == [i \in DOMAIN sizes |-> NewLevel(sizes[i])]

\* The levels a call with empty levels started from.
Initial == Fresh([i \in DOMAIN levels |-> levels[i].max])

\* The groups create_new_tree has placed on the levels when it gets to g.
Placed(map, g) == {h \in DOMAIN map : h < g /\ map[h].in_range}

\* What has become of the levels first by then.
LevelsAt(map, first) ==
  LET at[g \in DOMAIN map] ==
        IF Placed(map, g) = {}
        THEN first
        ELSE LET last == Max(Placed(map, g)) IN Place(at[last], last)
  IN  at

\* A group and those on the chain of its predecessors.
Ancestry(map) ==
  LET ancestry[g \in DOMAIN map] ==
        {g} \cup (IF map[g].prev = NoGroup THEN {} ELSE ancestry[map[g].prev])
  IN  ancestry

\* The groups on the chain of head that fit as a base of g.
Bases(new, full, head, g) ==
  IF head = NoGroup THEN {} ELSE {b \in Ancestry(new)[head] : Fits(full[b], full[g])}

\* The row of a group that is based on the newest of them.
NewestRow(bases, full, g) ==
  IF bases = {}
  THEN Entry(NoGroup, full[g])
  ELSE Entry(Max(bases), DeltaFrom(full[Max(bases)], full[g]))

\* new is what the compressor makes of map: the predecessor of a group is the
\* newest one that fits on the chain the levels ask for.
IsCompression(new, map) ==
  LET full    == Collapse(map)
      head(g) == Candidate(LevelsAt(map, Initial)[g])
  IN  \A g \in DOMAIN map :
        new[g] = IF map[g].in_range /\ head(g) # map[g].prev
                 THEN NewestRow(Bases(new, full, head(g), g), full, g)
                 ELSE map[g]

\* A run that dies after any of its groups were sent is made good by the next
\* one: from the mix of old and new rows, and from the finished result, the
\* compressor with empty levels computes the very rows it computed before.
RunningAgainRepeats ==
  Done => \A groups \in SUBSET DOMAIN orig : IsCompression(newMap, Overlay(groups))

-----------------------------------------------------------------------------
\* The n-th group, counted from 0, is the q-th that the i-th level is offered,
\* or it does not get that far.  A level passes on each group it restarts
\* with.
Offered(n, sizes) ==
  LET q[i \in DOMAIN sizes] ==
        IF i = 1
        THEN n
        ELSE IF q[i - 1] > 0 /\ q[i - 1] % sizes[i - 1] = 0
             THEN q[i - 1] \div sizes[i - 1] - 1
             ELSE 0
  IN  q

\* How far apart the groups are that each level is offered.
Distances(sizes) ==
  LET d[i \in DOMAIN sizes] == IF i = 1 THEN 1 ELSE d[i - 1] * sizes[i - 1]
  IN  d

\* How far back the predecessor of the n-th group is, as a set of at most one.
StepBack(n, sizes) ==
  {Distances(sizes)[i] : i \in {j \in DOMAIN sizes : Offered(n, sizes)[j] % sizes[j] # 0}}

\* "This generates the correct compressed structure with 3,3 levels.  Note:
\* only correct structure when no impossible predecessors" (map_builder.rs in
\* compressor_integration_tests): the same for all sizes, and all maps of
\* consecutive groups.
StructureIsCorrect ==
  LET sizes    == [i \in DOMAIN levels |-> levels[i].max]
      steps(g) == StepBack(g - Min(DOMAIN orig), sizes)
  IN  (\A g \in DOMAIN orig : \A h \in DOMAIN orig : h < g => Fits(Original[h], Original[g]))
        => \A g \in DOMAIN newMap :
             newMap[g].prev = IF steps(g) = {} THEN NoGroup ELSE g - Max(steps(g))
=============================================================================
