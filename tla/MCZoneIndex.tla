----------------------------- MODULE MCZoneIndex -----------------------------
(* Instances of ZoneIndex for model checking. *)
EXTENDS ZoneIndex, TLC

CONSTANTS s1, s2, f1, f2, v1, v2, v3, v4

\* Refreshes run the same program, and updated_at is only compared for equality.
Symmetric == Permutations(Refreshers) \cup Permutations(Versions)
==============================================================================
