---------------------------- MODULE MCRecordCache ----------------------------
(* Instances of RecordCache for model checking. *)
EXTENDS RecordCache, TLC

CONSTANTS r1, r2, w1, w2, c1, c2

Symmetric == Permutations(Readers) \cup Permutations(Writers) \cup Permutations(Records)
=============================================================================
