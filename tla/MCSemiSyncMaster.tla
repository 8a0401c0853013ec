------------------------- MODULE MCSemiSyncMaster -------------------------
(* SemiSyncMaster on small instances: sessions and slaves are              *)
(* interchangeable.                                                        *)
EXTENDS SemiSyncMaster, TLC

Symmetry == Permutations(Session) \cup Permutations(Slave)

=============================================================================
