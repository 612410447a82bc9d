-------------------------- MODULE MCAutoCompressor --------------------------
(***************************************************************************)
(* Small databases and command lines on which TLC runs the automatic       *)
(* compressor.                                                             *)
(***************************************************************************)
EXTENDS AutoCompressor

CONSTANTS e1, k1, k2, k3, r1, r2   \* an event, keys and rooms

Sizes(levelSizes) == [i \in DOMAIN levelSizes |-> NewLevel(levelSizes[i])]

Run(chunk_size, levelSizes, number_of_chunks) ==
  [chunk_size       |-> chunk_size,
   default_levels   |-> Sizes(levelSizes),
   number_of_chunks |-> number_of_chunks]

Delta(v1, v2) == [k \in Keys |-> IF k = k1 THEN v1 ELSE v2]
NoDelta       == Delta(NoEvent, NoEvent)
ShortDeltas   == {NoDelta, Delta(e1, NoEvent), Delta(NoEvent, e1)}

\* The databases with n groups, the deltas from a set, whose groups are listed
\* for the room given.
PrevChoices(domain) ==
  {prev \in [domain -> domain \cup {NoGroup}] :
     \A g \in domain : prev[g] # NoGroup => prev[g] < g}

Tables(n, deltas) ==
  {[g \in 1 .. n |-> [prev |-> prev[g], delta |-> delta[g]]] :
     prev \in PrevChoices(1 .. n), delta \in [1 .. n -> deltas]}

\* One room.
OneRoom(n, deltas) ==
  {[db |-> t, roomOf |-> [g \in 1 .. n |-> r1]] : t \in Tables(n, deltas)}

\* One room, and groups that are only predecessors in the edges table.
SomeUnlisted(n, deltas) ==
  {[db |-> t, roomOf |-> [g \in listed |-> r1]] :
     t \in Tables(n, deltas),
     listed \in {s \in SUBSET (1 .. n) : n \in s}}

\* Two rooms whose groups interleave, a group of one following from the last
\* of the same room or from none.
TwoRooms(n, deltas) ==
  {d \in [db : Tables(n, deltas), roomOf : [1 .. n -> {r1, r2}]] :
     \A g \in 1 .. n : d.db[g].prev # NoGroup => d.roomOf[d.db[g].prev] = d.roomOf[g]}

-----------------------------------------------------------------------------
\* Chunks of two groups, one or two chunks per run.
StatesDatabases == OneRoom(3, ShortDeltas)
StatesArguments == {Run(2, <<2>>, 2), Run(2, <<1, 1>>, 2)}
StatesDeltas    == {Delta(e1, NoEvent)}

\* A group has the state of its predecessor, and compressing it to a full state
\* makes the chunk grow.  The first group may have no state at all: a chunk of
\* it has no rows.
ProgressDatabases ==
  {d \in TwoRooms(3, {NoDelta, Delta(e1, NoEvent)}) :
     \A g \in DOMAIN d.db :
       g # 1 => (d.db[g].delta = NoDelta <=> d.db[g].prev # NoGroup)}
ProgressArguments == {Run(1, <<1>>, 2), Run(2, <<2>>, 1)}

\* Group 4 of LostHead is only in the edges table, without state of its own.
\* It becomes the head of the second level when groups 5 and 6 are compressed,
\* and then neither needs it as a predecessor.
LostHeadDatabases ==
  LET row(prev, keys) ==
        [prev |-> prev, delta |-> [k \in Keys |-> IF k \in keys THEN e1 ELSE NoEvent]]
  IN  {[db     |-> <<row(NoGroup, {k2}), row(1, {}), row(2, {}), row(3, {}),
                     row(NoGroup, {k1, k3}), row(4, {k1, k3}), row(6, {})>>,
        roomOf |-> [g \in (1 .. 7) \ {4} |-> r1]]}
LostHeadArguments == {Run(3, <<3, 2>>, 1), Run(2, <<3, 2>>, 2)}

\* The groups 1, 2 and 4 of a room, group 3 being still uncommitted.
GapDatabases ==
  {[db |-> [g \in {1, 2, 4} |-> t[IF g = 4 THEN 3 ELSE g]], roomOf |-> [g \in {1, 2, 4} |-> r1]] :
     t \in Tables(3, {NoDelta, Delta(e1, NoEvent)})}

\* Groups that are only in the edges table; ids that become visible out of
\* order; arguments the command line accepts without being good for anything.
OddDatabases == SomeUnlisted(3, ShortDeltas) \cup GapDatabases \cup LostHeadDatabases
OddArguments == LostHeadArguments \cup {Run(0, <<1>>, 1), Run(1, <<0, 1>>, 2)}
=============================================================================
