--------------------------- MODULE MCGroupCommit ---------------------------
(* GroupCommit on small instances: sessions are interchangeable.           *)
EXTENDS GroupCommitRefinement, TLC

Symmetry == Permutations(Session)

============================================================================
