---------------------------- MODULE MCCompressor ----------------------------
(***************************************************************************)
(* Small sets of calls on which TLC runs the compressor.                   *)
(***************************************************************************)
EXTENDS CompressorReference

CONSTANTS e1, e2, k1, k2   \* events and keys

\* Every choice of predecessors that are older than the group.
PrevChoices(domain) ==
  {prev \in [domain -> domain \cup {NoGroup}] :
     \A g \in domain : prev[g] # NoGroup => prev[g] < g}

MapsOver(domain, ranges, deltas) ==
  {[g \in domain |-> [in_range |-> range[g], prev |-> prev[g], delta |-> delta[g]]] :
     range \in ranges, prev \in PrevChoices(domain), delta \in [domain -> deltas]}

Delta(v1, v2) == [k \in Keys |-> IF k = k1 THEN v1 ELSE v2]

\* One key with two values and one that is there or not.
FullDeltas  == {Delta(v1, v2) : v1 \in {NoEvent, e1, e2}, v2 \in {NoEvent, e1}}
\* One key at a time, enough for bases that do not fit.
ShortDeltas == {Delta(NoEvent, NoEvent), Delta(e1, NoEvent), Delta(NoEvent, e1)}

-----------------------------------------------------------------------------
\* Nothing saved yet: all maps, any of their groups in range.
FreshCalls ==
  {[map |-> map, levels |-> Fresh(sizes)] :
     map   \in MapsOver(Groups, [Groups -> BOOLEAN], FullDeltas),
     sizes \in {<<1>>, <<3>>, <<1, 1>>, <<2, 1>>}}

\* Longer maps, all in range: chains that fill and restart levels and bases
\* several steps up.
DeepMaps == MapsOver(1 .. 5, [1 .. 5 -> {TRUE}], ShortDeltas)

\* The maps of the integration tests: a line of groups and segments of it, for
\* which every older group is a possible predecessor.
LineOf(segment) ==
  [g \in Groups |->
     [in_range |-> TRUE,
      prev     |-> IF (g - 1) % segment = 0 THEN NoGroup ELSE g - 1,
      delta    |-> Delta(IF g % 2 = 0 THEN e1 ELSE e2, e1)]]

DeepCalls ==
  {[map |-> map, levels |-> Fresh(sizes)] :
     map \in DeepMaps, sizes \in {<<2, 2>>, <<1, 3>>, <<2>>}} \cup
  {[map |-> LineOf(segment), levels |-> Fresh(sizes)] :
     segment \in {3, MaxGroup}, sizes \in {<<3, 3>>, <<2, 1, 2>>, <<1, 2, 2>>, <<4>>}}

\* Groups 1 and 2 have been compressed by an earlier run, which saved the
\* levels; the rest of the map is in range.
Old == {1, 2}

SavedLevels(sizes) ==
  {saved \in [DOMAIN sizes ->
                {level \in [max : {sizes[i] : i \in DOMAIN sizes}, len : 0 .. 2,
                            head : Old \cup {NoGroup}] :
                   level.len =< level.max /\ (level.len = 0 <=> level.head = NoGroup)}] :
     \A i \in DOMAIN sizes :
       /\ saved[i].max = sizes[i]
       /\ \A j \in 1 .. i - 1 :
            saved[i].head # NoGroup =>
              saved[j].head # NoGroup /\ saved[j].head >= saved[i].head}

SavedCalls(loaded, sizes) ==
  LET domain == loaded \cup (Groups \ Old)
  IN  {call \in
         {[map |-> map, levels |-> saved] :
            map \in MapsOver(domain, {[g \in domain |-> g \notin Old]}, ShortDeltas),
            saved \in SavedLevels(sizes)} :
         \A i \in DOMAIN call.levels :
           call.levels[i].head \in domain =>
             ChainLength(call.map)[call.levels[i].head] =< AllowedLength(call.levels, i)}

\* The heads are in the map, as load_level_heads is meant to provide.
LoadedCalls == SavedCalls(Old, <<2, 2>>) \cup SavedCalls(Old, <<1, 2>>)

\* Group 2, which may be a head, is missing from the map.
UnloadedCalls == SavedCalls({1}, <<2, 1>>)

RestoredCalls ==
  {call \in LoadedCalls \cup UnloadedCalls : Heads(call.levels) # {}}
=============================================================================
