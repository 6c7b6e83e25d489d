------------------------- MODULE MCPreproductStore -------------------------
(* Instances of PreproductStore for TLC.                                    *)
EXTENDS PreproductStore, TLC

CONSTANTS l, p1, p2

(* The peers other than the leader, the batches and the operations are      *)
(* interchangeable.                                                         *)
Symmetry == Permutations({p1, p2}) \cup Permutations(Batch) \cup Permutations(Op)

=============================================================================
