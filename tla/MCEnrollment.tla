---------------------------- MODULE MCEnrollment ----------------------------
(* Instances of Enrollment for TLC.                                        *)
EXTENDS Enrollment, TLC

\* Every job enrolls the same endpoint.
SameTarget == [j \in Jobs |-> "endpoint"]

JobSymmetry == Permutations(Jobs)
Symmetry == Permutations(Jobs) \cup Permutations(Recs)

\* Bound: two recover() at a time before a crash, one after it.
Load == epoch = 1 \/ Cardinality({r \in Recs : rec[r].pc # "idle"}) <= 1
=============================================================================
