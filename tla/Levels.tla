------------------------------- MODULE Levels -------------------------------
(***************************************************************************)
(* The levels of the compressor (src/compressor.rs).  A level is a chain   *)
(* of state groups under construction: the group at its head, an estimate  *)
(* of its length and the length it may reach.                              *)
(***************************************************************************)
EXTENDS StateGroups, Sequences, Functions

Level == [max : Nat, len : Nat, head : OptGroup]

NewLevel(max) == [max |-> max, len |-> 0, head |-> NoGroup]

\* Mutant: a full level takes one more.
HasSpaceOrFull(level) == level.len =< level.max

HasSpace(level) == level.len < level.max

\* Mutant: a new chain is counted from 0.
UpdateFromZero(level, newHead, delta) ==
  [max  |-> level.max,
   len  |-> IF delta THEN level.len + 1 ELSE 0,
   head |-> newHead]

\* Mutant: the length is how much is left.
UpdateDown(level, newHead, delta) ==
  [max  |-> level.max,
   len  |-> IF delta THEN level.len - 1 ELSE 1,
   head |-> newHead]

\* Level::update.  Its panic is out of reach: every caller asks for a delta
\* only when the level has space.
Update(level, newHead, delta) ==
  [max  |-> level.max,
   len  |-> IF delta THEN level.len + 1 ELSE 1,
   head |-> newHead]

-----------------------------------------------------------------------------
\* The scan over the levels that places a group: full levels restart with
\* the group as their only member, and it stops at the first with space.

Visited(levels, i) == \A j \in 1 .. i - 1 : ~ HasSpace(levels[j])

Place(levels, g) ==
  [i \in DOMAIN levels |->
     IF Visited(levels, i)
     THEN Update(levels[i], g, HasSpace(levels[i]))
     ELSE levels[i]]

\* Where the scan stops, if it does.
Chosen(levels) ==
  {i \in DOMAIN levels : HasSpace(levels[i]) /\ Visited(levels, i)}

\* The head the group should be a delta from.
Candidate(levels) ==
  IF Chosen(levels) = {}
  THEN NoGroup
  ELSE levels[CHOOSE i \in Chosen(levels) : TRUE].head

Heads(levels) == {levels[i].head : i \in DOMAIN levels} \ {NoGroup}

-----------------------------------------------------------------------------
Excess(n) == IF n = 0 THEN 0 ELSE n - 1

\* One more than the sum of the numbers from the i-th on, for each i.
Reach(ns) ==
  LET reach[i \in 1 .. Len(ns) + 1] ==
        IF i > Len(ns) THEN 1 ELSE ns[i] + reach[i + 1]
  IN  reach

\* What the lengths of the levels from the i-th on allow as the real length of
\* the chain of its head: a chain of level i hangs off one of level i + 1.
AllowedLength(levels, i) ==
  Reach([j \in DOMAIN levels |-> Excess(levels[j].len)])[i]

\* The longest chain any group may end up with, given the sizes.
MaxChain(levels) ==
  Reach([j \in DOMAIN levels |-> Excess(levels[j].max)])[1]
=============================================================================
