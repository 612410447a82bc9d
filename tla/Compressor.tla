----------------------------- MODULE Compressor -----------------------------
(***************************************************************************)
(* The compressor (src/compressor.rs, collapse_state_maps of src/lib.rs):  *)
(* it goes through the state groups of a map in the order of their ids,    *)
(* decides with the levels which group each should be a delta from, and    *)
(* builds a new map that stores every group anew.                          *)
(*                                                                         *)
(* One action is one group of the loop of create_new_tree, except that a   *)
(* group whose predecessor changes takes one step per candidate base that  *)
(* get_delta tries.  base is the candidate being tried, NoGroup outside of *)
(* get_delta.                                                              *)
(***************************************************************************)
EXTENDS Levels, FiniteSetsExt

CONSTANT Calls   \* the arguments compress or compress_from_save is given

VARIABLES
  orig,     \* original_state_map
  levels,   \* levels
  newMap,   \* new_state_group_map
  base,     \* prev_sg, in the loop of get_delta
  stats,    \* stats
  panicked  \* an index or a lookup has failed

vars == <<orig, levels, newMap, base, stats, panicked>>

\* The levels are empty, or saved by a run that stopped below the groups that
\* are now in range.
ASSUME CallsAssumption ==
  \A call \in Calls :
    /\ IsGroupMap(call.map)
    /\ WellFormed(call.map)
    /\ call.levels \in Seq(Level)
    /\ \A head \in Heads(call.levels), g \in DOMAIN call.map :
         call.map[g].in_range => head < g

NoStats == [resets |-> 0, resetsSize |-> 0, changed |-> 0]

\* The types of the variables of the compressor.
TypeOK ==
  /\ IsGroupMap(orig)
  /\ levels \in Seq(Level)
  /\ IsGroupMap(newMap)
  /\ base \in OptGroup
  /\ stats \in [resets : Nat, resetsSize : Nat, changed : Nat]
  /\ panicked \in BOOLEAN

Init ==
  /\ \E call \in Calls : orig = call.map /\ levels = call.levels
  /\ newMap = <<>>
  /\ base = NoGroup
  /\ stats = NoStats
  /\ panicked = FALSE

-----------------------------------------------------------------------------
Todo     == DOMAIN orig \ DOMAIN newMap
\* Mutant: the newest group first.
CurrentNewest == Max(Todo)

Current  == Min(Todo)
Original == Collapse(orig)   \* the full states, by collapse_state_maps

\* The loop of create_new_tree is at a group.
AtGroup   == ~ panicked /\ base = NoGroup /\ Todo # {}
\* ... that is to be compressed.
InRange   == AtGroup /\ orig[Current].in_range
\* The loop of get_delta is at a base.
AtBase    == ~ panicked /\ base # NoGroup

Entry(prev, delta) == [in_range |-> TRUE, prev |-> prev, delta |-> delta]
Finish(entry)      == newMap' = Insert(newMap, Current, entry)

\* A group loaded only as the predecessor of another is copied.
CopyOutOfRange ==
  /\ AtGroup
  /\ ~ orig[Current].in_range
  /\ Finish(orig[Current])
  /\ UNCHANGED <<orig, levels, base, stats, panicked>>

\* The levels ask for the predecessor the group already has.
KeepEntry ==
  /\ InRange
  /\ Candidate(levels) = orig[Current].prev
  /\ levels' = Place(levels, Current)
  /\ Finish(Entry(orig[Current].prev, orig[Current].delta))
  /\ UNCHANGED <<orig, base, stats, panicked>>

\* Mutant: the change is not counted.
StoreFullUncounted ==
  /\ InRange
  /\ Candidate(levels) = NoGroup
  /\ orig[Current].prev # NoGroup
  /\ levels' = Place(levels, Current)
  /\ Finish(Entry(NoGroup, Original[Current]))
  /\ UNCHANGED <<orig, base, stats, panicked>>

\* The levels ask for no predecessor: get_delta returns the full state.
StoreFull ==
  /\ InRange
  /\ Candidate(levels) = NoGroup
  /\ orig[Current].prev # NoGroup
  /\ levels' = Place(levels, Current)
  /\ Finish(Entry(NoGroup, Original[Current]))
  /\ stats' = [stats EXCEPT !.changed = @ + 1]
  /\ UNCHANGED <<orig, base, panicked>>

\* Mutant: the head is read after the level was updated.
StartDeltaLate ==
  /\ InRange
  /\ Candidate(levels) \notin {NoGroup, orig[Current].prev}
  /\ levels' = Place(levels, Current)
  /\ base' = levels'[CHOOSE i \in Chosen(levels) : TRUE].head
  /\ stats' = [stats EXCEPT !.changed = @ + 1]
  /\ UNCHANGED <<orig, newMap, panicked>>

\* The levels ask for another predecessor: get_delta starts from it.
StartDelta ==
  /\ InRange
  /\ Candidate(levels) \notin {NoGroup, orig[Current].prev}
  /\ levels' = Place(levels, Current)
  /\ base' = Candidate(levels)
  /\ stats' = [stats EXCEPT !.changed = @ + 1]
  /\ UNCHANGED <<orig, newMap, panicked>>

BaseFits == Fits(Original[base], Original[Current])

UseBase ==
  /\ AtBase
  /\ base \in DOMAIN orig
  /\ BaseFits
  /\ Finish(Entry(base, DeltaFrom(Original[base], Original[Current])))
  /\ base' = NoGroup
  /\ UNCHANGED <<orig, levels, stats, panicked>>

\* Mutant: the loop goes on with the base it had.
WalkUpNowhere ==
  /\ AtBase
  /\ base \in DOMAIN orig
  /\ ~ BaseFits
  /\ newMap[base].prev # NoGroup
  /\ UNCHANGED vars

\* Mutant: the walk follows the predecessors of the original map.
WalkUpOriginal ==
  /\ AtBase
  /\ base \in DOMAIN orig
  /\ ~ BaseFits
  /\ newMap[base].prev # NoGroup
  /\ base' = orig[base].prev
  /\ UNCHANGED <<orig, levels, newMap, stats, panicked>>

\* The base has keys the group lacks: try the base's own new predecessor.
WalkUp ==
  /\ AtBase
  /\ base \in DOMAIN orig
  /\ ~ BaseFits
  /\ newMap[base].prev # NoGroup
  /\ base' = newMap[base].prev
  /\ UNCHANGED <<orig, levels, newMap, stats, panicked>>

\* No base left to try.
ForcedReset ==
  /\ AtBase
  /\ base \in DOMAIN orig
  /\ ~ BaseFits
  /\ newMap[base].prev = NoGroup
  /\ Finish(Entry(NoGroup, Original[Current]))
  /\ base' = NoGroup
  /\ stats' = [resets     |-> stats.resets + 1,
               resetsSize |-> stats.resetsSize + Size(Original[Current]),
               changed    |-> stats.changed]
  /\ UNCHANGED <<orig, levels, panicked>>

\* collapse_state_maps does not find the base ("Missing ...").
MissingBase ==
  /\ AtBase
  /\ base \notin DOMAIN orig
  /\ panicked' = TRUE
  /\ UNCHANGED <<orig, levels, newMap, base, stats>>

Next ==
  \/ CopyOutOfRange \/ KeepEntry \/ StoreFull \/ StartDelta
  \/ UseBase \/ WalkUp \/ ForcedReset \/ MissingBase

Spec     == Init /\ [][Next]_vars
FairSpec == Spec /\ WF_vars(Next)

-----------------------------------------------------------------------------
Done == ~ panicked /\ Todo = {}

\* Compression never changes the state of a group: in the new map the deltas
\* of every group stored so far add up to the state it had in the original
\* one (what check_that_maps_match asks of a finished run).
StatesMatch ==
  \A g \in DOMAIN newMap : Collapse(newMap)[g] = Original[g]

\* The rows of some groups replaced by those of the new map.
Overlay(groups) ==
  [g \in DOMAIN orig |-> IF g \in groups THEN newMap[g] ELSE orig[g]]

\* The new rows are written one group per transaction, so a crash leaves any
\* mix of old and new rows behind: none of them changes the state of a group,
\* not even of a group that was left out or comes later.
PartialWriteSafe ==
  \A groups \in SUBSET DOMAIN newMap :
    \A g \in DOMAIN orig : Collapse(Overlay(groups))[g] = Original[g]

\* Nothing the algorithm looks up is missing when the map holds the heads the
\* levels came with.
NoPanic == ~ panicked

\* The walk up only visits older groups that are in the new map already, so
\* that the index into it cannot fail; only a head that was never loaded can
\* be missing.
BaseIsStored ==
  base # NoGroup =>
    /\ base < Current
    /\ base \in DOMAIN orig => base \in DOMAIN newMap

\* The lengths the levels keep are upper bounds on the real chains of their
\* heads, whichever bases get_delta fell back to.
LengthsBoundChains ==
  \A i \in DOMAIN levels :
    levels[i].head \in DOMAIN newMap =>
      ChainLength(newMap)[levels[i].head] =< AllowedLength(levels, i)

\* So no group that was compressed is further from the root of its chain than
\* the level sizes allow ("the sum of the sizes is the upper bound on
\* number of iterations", the help of -l in src/lib.rs).
ChainsBounded ==
  \A g \in DOMAIN newMap :
    newMap[g].in_range => ChainLength(newMap)[g] =< MaxChain(levels)

\* What the levels export can be imported by the next run:
\* read_room_compressor_state refuses a length above the size of its level and
\* one without a head.  What it does not check holds as well: an empty level
\* has no head, and the heads are the older the higher the level.
LevelsRestorable ==
  \A i \in DOMAIN levels :
    /\ levels[i].len =< levels[i].max
    /\ levels[i].head = NoGroup <=> levels[i].len = 0
    /\ \A j \in 1 .. i - 1 :
         levels[i].head # NoGroup =>
           levels[j].head # NoGroup /\ levels[j].head >= levels[i].head

Changed == {g \in DOMAIN newMap : newMap[g] # orig[g]}

\* The statistics never miss a group whose rows have to be written again: if
\* they count none, there is nothing to send.
CountCoversChanges ==
  base = NoGroup => Cardinality(Changed) =< stats.changed

\* "How many state groups we have changed" (Stats, src/compressor.rs).
CountIsChanges ==
  base = NoGroup => Cardinality(Changed) = stats.changed

\* The compressor always returns: walking up the bases comes to an end.
Terminates == <>(Done \/ panicked)
=============================================================================
