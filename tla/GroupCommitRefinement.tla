----------------------- MODULE GroupCommitRefinement -----------------------
(***************************************************************************)
(* The group commit pipeline, with its crash and its recovery, implements  *)
(* one atomic decision per transaction.                                    *)
(***************************************************************************)
EXTENDS GroupCommit

(* What the sessions of a running server see is what the engine committed. *)
(* While the server is down it is what recovery will find: the commit      *)
(* records on disk and the prepared transactions with an XID in the log.   *)
Visible ==
  IF server = "up"
  THEN committed \cup Elems(commit_log)
  ELSE committed \cup (prepared \cap RecoveredXids)

Coordinator == INSTANCE AtomicCommit
  WITH Transaction <- Trx, log <- binlog, visible <- Visible,
       answered <- acked

(* ordered_commit, the crash and ha_recover together do, one step at a     *)
(* time, what AtomicCommit does: nothing becomes visible before it is      *)
(* logged, nothing is answered before it is visible, and whatever a crash  *)
(* leaves of the log and of the engine's records, recovery brings both to  *)
(* the same set of transactions, with everything that was visible.         *)
ImplementsAtomicCommit == Coordinator!Spec

=============================================================================
