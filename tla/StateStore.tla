----------------------------- MODULE StateStore -----------------------------
(***************************************************************************)
(* What Synapse relies on: each state group has a state, which never       *)
(* changes once the group is stored.  The compressor must not be seen.     *)
(***************************************************************************)
EXTENDS StateGroups

VARIABLE state   \* group -> its full state

Init == DOMAIN state \subseteq Groups /\ \A g \in DOMAIN state : state[g] \in StateMaps

Store == \E g \in Groups \ DOMAIN state, m \in StateMaps : state' = Insert(state, g, m)

Spec == Init /\ [][Store]_state
=============================================================================
