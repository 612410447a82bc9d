---------------------------- MODULE StateGroups ----------------------------
(***************************************************************************)
(* State maps, state groups and their deltas: the pure data every part of  *)
(* the compressor works on.                                                *)
(*                                                                         *)
(* A state map (StateMap<Atom> in the code) takes a (type, state_key) pair *)
(* to an event id.  Here it is a total function on Keys, NoEvent standing  *)
(* for a key that is not in the map.  A state group stores a predecessor   *)
(* and a delta from it, or the full state if it has no predecessor.        *)
(***************************************************************************)
EXTENDS Integers, FiniteSets

CONSTANTS
  Keys,      \* the (type, state_key) pairs
  Events,    \* the event ids
  NoEvent,   \* marks a key that is absent from a state map
  MaxGroup,  \* bound on the state group ids (an i64 in the code)
  NoGroup    \* Option::None for an optional state group id

ASSUME KeysAssumption     == IsFiniteSet(Keys)
ASSUME NoEventAssumption  == NoEvent \notin Events
ASSUME MaxGroupAssumption == MaxGroup \in Nat
ASSUME NoGroupAssumption  == NoGroup \notin Int

Groups    == 1 .. MaxGroup
OptGroup  == Groups \cup {NoGroup}
StateMaps == [Keys -> Events \cup {NoEvent}]
Row       == [prev : OptGroup, delta : StateMaps]
Entries   == [in_range : BOOLEAN, prev : OptGroup, delta : StateMaps]

\* A BTreeMap<i64, StateGroupEntry>.
IsGroupMap(map) ==
  DOMAIN map \subseteq Groups /\ map \in [DOMAIN map -> Entries]

\* StateMap::len, the number of rows the map takes up in state_groups_state.
Size(m) == Cardinality({k \in Keys : m[k] # NoEvent})

\* StateMap::extend, the entries of delta taking precedence.
Extend(m, delta) ==
  [k \in Keys |-> IF delta[k] # NoEvent THEN delta[k] ELSE m[k]]

\* Mutant: get_delta takes any base.
AlwaysFits(candidate, m) == TRUE

\* A delta adds or overwrites keys and never removes one, so a state map can
\* be the base of a delta for m only if each of its keys is a key of m.
Fits(candidate, m) ==
  \A k \in Keys : candidate[k] # NoEvent => m[k] # NoEvent

\* Mutant: the delta has the keys the base lacks, not those it changes.
DeltaOfNewKeys(candidate, m) ==
  [k \in Keys |-> IF candidate[k] = NoEvent THEN m[k] ELSE NoEvent]

\* The entries of m that differ from the candidate's.
DeltaFrom(candidate, m) ==
  [k \in Keys |-> IF m[k] # candidate[k] THEN m[k] ELSE NoEvent]

-----------------------------------------------------------------------------
\* Every predecessor is in the map and older than the group it precedes:
\* ids come from a sequence, and a group is created after its predecessor.
WellFormed(map) ==
  \A g \in DOMAIN map :
    map[g].prev # NoGroup => map[g].prev \in DOMAIN map /\ map[g].prev < g

\* The full state of every group of the map: the deltas along the chain of
\* predecessors, the oldest first.  Defined for well-formed maps only; the
\* code panics on a predecessor that is not in the map.
Collapse(map) ==
  LET full[g \in DOMAIN map] ==
        IF map[g].prev = NoGroup
        THEN map[g].delta
        ELSE Extend(full[map[g].prev], map[g].delta)
  IN  full

\* full gives each group of map the state its own row asks for, given what it
\* gives to the predecessor.
Solves(full, map) ==
  \A g \in DOMAIN map :
    full[g] = IF map[g].prev = NoGroup
              THEN map[g].delta
              ELSE Extend(full[map[g].prev], map[g].delta)

\* The number of groups on the chain of predecessors from g to its root.
ChainLength(map) ==
  LET length[g \in DOMAIN map] ==
        IF map[g].prev = NoGroup THEN 1 ELSE 1 + length[map[g].prev]
  IN  length

\* BTreeMap::insert.
Insert(map, g, entry) ==
  [h \in DOMAIN map \cup {g} |-> IF h = g THEN entry ELSE map[h]]
=============================================================================
