---------------------------- MODULE MCCodeVersions ----------------------------
(* Instances of CodeVersions for TLC. Calls, keys and codes are each       *)
(* interchangeable.                                                        *)
EXTENDS CodeVersions, TLC

Symmetry == Permutations(Calls) \cup Permutations(Keys) \cup Permutations(Codes)
=============================================================================
