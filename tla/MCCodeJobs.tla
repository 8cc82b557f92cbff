------------------------------ MODULE MCCodeJobs ------------------------------
(* Instance of CodeJobs for TLC: entries e1 and e2 differ only in their    *)
(* extension.                                                              *)
EXTENDS CodeJobs, TLC

CONSTANTS r1, r2, r3, c1, c2, e1, e2

Alike == [e \in Entries |-> "e"]

Symmetry == Permutations({r1, r2, r3}) \cup Permutations({c1, c2})
            \cup Permutations({e1, e2})
=============================================================================
