----------------------------- MODULE MCLifecycle -----------------------------
(* Instances of AgentLifecycle for TLC.                                     *)
EXTENDS AgentLifecycle, TLC

Symmetry == Permutations(Rots) \cup Permutations(Recs) \cup Permutations(Upds)

\* Bound: two rotations in a row, or one rotation with any number of updates.
Load ==
  \/ Cardinality({j \in Rots : rot[j].state # "none"}) < 2
  \/ \A u \in Upds : upd[u].pc = "none"
=============================================================================
