------------------------- MODULE MCManualCompressor -------------------------
(***************************************************************************)
(* Small databases and arguments on which TLC runs the manual tool.        *)
(***************************************************************************)
EXTENDS ManualCompressor

CONSTANTS e1, k1, k2, r1   \* an event, keys and a room

RowOf(prev, keys) ==
  [prev |-> prev, delta |-> [k \in Keys |-> IF k \in keys THEN e1 ELSE NoEvent]]

\* Three groups: a full state, a delta from it or another full state, and a
\* delta from that one which may restate it.
ChainTables ==
  {<<RowOf(NoGroup, {k1}), RowOf(prev, second), RowOf(2, third)>> :
     prev \in {1, NoGroup}, second \in {{k2}, {k1, k2}}, third \in {{}, {k1, k2}}}

\* Group 2 or 3 may be in the edges table only.
StatesDatabases ==
  {[db |-> t, roomOf |-> [g \in listed |-> r1]] :
     t \in ChainTables, listed \in {1 .. 3, {1, 3}, {1, 2}}}

StatesDeltas == {RowOf(NoGroup, {}).delta}

Options(min, groups, max) ==
  [NoConfig EXCEPT !.room_id = r1, !.min_state_group = min,
                   !.groups_to_compress = groups, !.max_state_group = max,
                   !.verify = TRUE]

\* Levels that keep, split and join the chains; files with and without
\* transactions, also of a run that commits as well; the ends of the range.
StatesConfigs ==
  {[Options(NoGroup, NoGroup, NoGroup) EXCEPT !.level_sizes = <<2>>,
       !.output_file = TRUE, !.transactions = TRUE],
   [Options(NoGroup, NoGroup, NoGroup) EXCEPT !.level_sizes = <<3>>,
       !.output_file = TRUE, !.verify = FALSE],
   [Options(1, NoGroup, NoGroup) EXCEPT !.level_sizes = <<1, 1>>,
       !.commit_changes = TRUE, !.min_saved_rows = 1],
   [Options(2, 2, NoGroup) EXCEPT !.level_sizes = <<3>>, !.commit_changes = TRUE],
   [Options(NoGroup, 2, 2) EXCEPT !.level_sizes = <<3>>, !.output_file = TRUE,
       !.transactions = TRUE, !.commit_changes = TRUE, !.min_saved_rows = -1]}
=============================================================================
