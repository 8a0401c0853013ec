----------------------- MODULE GroupCommitDurability -----------------------
(***************************************************************************)
(* What the log and the engine hold between them: proofs about GroupCommit *)
(* for any options, errors and crashes.  DurInv is inductive relative to   *)
(* IndInv of GroupCommitProofs.  Its core is that a transaction of the     *)
(* current log file is committed in the engine or its session still has    *)
(* its XID counted (OnItsWay): a rotation that finds m_prep_xids = 0 then  *)
(* knows the whole file to be committed, and recovery may forget it.       *)
(*                                                                         *)
(* A step is shown to be of one of a few kinds (nothing for the log, the   *)
(* engine gets ahead, a session is committed, a cache is flushed, the file *)
(* is written), and each kind to keep DurInv.                              *)
(*                                                                         *)
(* The last part adds what holds while binlog_order_commits stays: the     *)
(* order of commits (ModeInv, LineInv), and what is answered after errors  *)
(* (Answers).                                                              *)
(***************************************************************************)
EXTENDS GroupCommitProofs

(* The transactions the engine has committed, and those it has on disk. *)
Done == committed \cup Elems(commit_log)
OnDisk == committed \cup Elems(Prefix(commit_log, redo))

(* Who writes the log, rotates it or blocks it holds LOCK_log. *)
LogOwner == {"flush", "flush_rest", "flushed", "enter_sync", "rot_wait",
             "rot_reopen", "snap_commit", "snap_rw", "snapshot"}
LogHeld == \A t \in Session : pc[t] \in LogOwner => LOCK_log = t

(* A server that is not up has no sessions and no commit log. *)
DownReset ==
  server # "up" =>
    /\ Reset
    /\ \A u \in Session : ~xid_written[u]
    /\ commit_log = <<>> /\ redo = 0
    /\ synced = Len(binlog)

(* How the positions in the log and in the commit log are ordered. *)
FileOrder ==
  /\ boot <= log_start /\ log_start <= synced
  /\ synced <= written /\ written <= Len(binlog)
  /\ redo <= Len(commit_log)

(* A session that waits to be flushed is prepared and free of errors. *)
ToFlush(u) ==
  \/ u \in Elems(m_queue["FLUSH"])
  \/ \E t \in Session : pc[t] = "flush_rest" /\ u \in Elems(todo[t])
PreparedOnWay ==
  \A u \in Session :
    /\ ToFlush(u) \/ pc[u] = "prepared" => Tid(u) \in prepared
    /\ ToFlush(u) => commit_error[u] = "NONE"

(* What is logged is committed or can be. *)
Accounted == Elems(binlog) \subseteq Done \cup prepared

(* A rotation that has waited finds everything on disk, log and engine. *)
RotationWaits ==
  \A t \in Session :
    /\ pc[t] \in {"rot_wait", "rot_reopen"} => is_open
    /\ pc[t] = "rot_reopen" =>
         /\ synced = Len(binlog) /\ written = Len(binlog)
         /\ Elems(binlog) \subseteq OnDisk
         /\ \A u \in Session : ~xid_written[u]

(* A transaction of the current file is committed, or counted among the    *)
(* prepared XIDs: nothing falls between the two.                           *)
OnItsWay ==
  server = "up" /\ is_open =>
    \A i \in (log_start + 1)..Len(binlog) :
      \/ binlog[i] \in Done
      \/ \E u \in Session : xid_written[u] /\ Tid(u) = binlog[i]

(* finish_commit does not commit a session with an error.  While the log   *)
(* is open such a session with an XID in the log can only be a leader      *)
(* whose sync failed, and either the COMMIT stage commits it or the log is *)
(* closed before it comes to finish_commit.                                *)
ToCommit(u) ==
  \/ u \in Elems(m_queue["COMMIT"])
  \/ \E t \in Session : pc[t] = "commit" /\ u \in Elems(todo[t])
Doubtful ==
  \A u \in Session :
    is_open /\ xid_written[u] /\ commit_error[u] # "NONE" =>
      /\ commit_error[u] = "SYNC"
      /\ ToCommit(u) \/ pc[u] \in {"enter_commit", "sync_error"}

(* What the log held when the server came up is committed. *)
BootCommitted ==
  server = "up" => \A i \in 1..boot : binlog[i] \in committed

(* The inductive invariant of this module. *)
DurInv ==
  /\ LogHeld /\ DownReset /\ FileOrder /\ PreparedOnWay /\ Accounted
  /\ OldFilesCommitted /\ RotationWaits /\ OnItsWay /\ Doubtful
  /\ BootCommitted

(* Without I/O errors no session is marked and no group fails. *)
ErrorFree ==
  ~IoErrors =>
    \A t \in Session :
      /\ commit_error[t] = "NONE"
      /\ pc[t] # "sync_error"
      /\ pc[t] \in {"flushed", "enter_sync", "lock_sync", "sync"} =>
           flush_error[t] = 0

(* Then, or when an error aborts the server, the log is never closed while *)
(* the server runs.  The in-use flag is down only between the two files of *)
(* a rotation, and a crash there leaves a log that needs no recovery.      *)
KeepsLog == ErrorAction = "ABORT_SERVER" \/ ~IoErrors
LogKept ==
  KeepsLog =>
    /\ is_open
    /\ server = "up" /\ ~in_use => \E t \in Session : pc[t] = "rot_reopen"
    /\ server # "up" /\ ~in_use => Elems(binlog) \subseteq committed
    /\ server = "refused" => ~in_use

(***************************************************************************)
(* Who holds LOCK_log.                                                     *)
(***************************************************************************)

(* LOCK_log is taken when it is free and released by who holds it. *)
LEMMA LogHeldStep ==
  ASSUME TypeOK, LogHeld, [Next]_vars
  PROVE  LogHeld'
<1> USE SessionAssumption DEF LogHeld, LogOwner, TypeOK, PipelineTypeOK, Owner,
        Goto, locks, queues, Unlock
<1>0. CASE Die
  BY <1>0 DEF Die
<1>1. ASSUME NEW t \in Session, OrderedCommit(t), ~Die PROVE LogHeld'
  <2>1. CASE EnrollFlush(t)
    BY <2>1 DEF EnrollFlush, enroll_for
  <2>2. CASE LockLog(t)
    BY <2>2 DEF LockLog
  <2>3. CASE FlushOne(t) \/ FetchRest(t) \/ FlushRest(t) \/ FlushToFile(t)
    BY <2>3 DEF FlushOne, FetchRest, FlushRest, FlushToFile
  <2>4. CASE HandleFlushError(t)
    BY <1>1, <2>4 DEF HandleFlushError
  <2>5. CASE EnrollSync(t)
    BY <2>5 DEF EnrollSync, enroll_for
  <2>6. CASE LockSync(t) \/ LockCommit(t)
    BY <2>6 DEF LockSync, LockCommit
  <2>7. CASE sync_binlog_file(t)
    BY <2>7 DEF sync_binlog_file
  <2>8. CASE EnterCommit(t)
    <3>1. /\ LOCK_log' = Unlock(LOCK_log, t) /\ pc[t] = "enter_commit"
          /\ \E b \in {"lock_commit", "follower", "sync_error", "signal"} :
               pc' = [pc EXCEPT ![t] = b]
      BY <2>8 DEF EnterCommit, enroll_for
    <3> QED BY <3>1
  <2>9. CASE CommitOne(t)
    BY <2>9 DEF CommitOne
  <2>10. CASE HandleSyncError(t)
    BY <1>1, <2>10 DEF HandleSyncError
  <2>11. CASE signal_done(t) \/ finish_commit(t)
    <3>1. /\ LOCK_log' = LOCK_log
          /\ \E b \in {"finish", "rotate", "idle"} : pc' = [pc EXCEPT ![t] = b]
      BY <2>11 DEF signal_done, finish_commit
    <3> QED BY <3>1
  <2> QED BY <1>1, <2>1, <2>2, <2>3, <2>4, <2>5, <2>6, <2>7, <2>8, <2>9,
             <2>10, <2>11 DEF OrderedCommit
<1>2. ASSUME NEW t \in Session, Rotate(t), ~Die PROVE LogHeld'
  <2>1. CASE RotateLock(t)
    BY <2>1 DEF RotateLock, Return
  <2>2. CASE RotateClose(t)
    BY <2>2 DEF RotateClose
  <2>3. CASE RotateReopen(t)
    BY <2>3 DEF RotateReopen, Return
  <2>4. CASE RotateFails(t)
    BY <1>2, <2>4 DEF RotateFails
  <2> QED BY <1>2, <2>1, <2>2, <2>3, <2>4 DEF Rotate
<1>3. ASSUME NEW t \in Session, Snapshot(t) PROVE LogHeld'
  <2>1. CASE xlock(t)
    BY <2>1 DEF xlock
  <2>2. CASE xlock_commits(t)
    BY <2>2 DEF xlock_commits
  <2>3. CASE xunlock(t)
    BY <2>3 DEF xunlock
  <2> QED BY <1>3, <2>1, <2>2, <2>3 DEF Snapshot
<1>4. ASSUME NEW t \in Session, Begin(t) PROVE LogHeld'
  BY <1>4 DEF Begin, prepare, CommitUnlogged, FlushLogs, StartSnapshot
<1>5. CASE SetSyncPeriod \/ SetOrderCommits \/ ha_recover \/ UNCHANGED vars
  BY <1>5 DEF SetSyncPeriod, SetOrderCommits, ha_recover, vars
<1> QED BY <1>0, <1>1, <1>2, <1>3, <1>4, <1>5 DEF Next, Step, Crash

(***************************************************************************)
(* Who is still to be flushed, and who is to be committed.                 *)
(***************************************************************************)

(* The first flush loop takes the head of the FLUSH queue. *)
LEMMA FlushOneMoves ==
  ASSUME TypeOK, PipeInv, NEW t \in Session, FlushOne(t),
         NEW h, h = Head(m_queue["FLUSH"])
  PROVE  /\ h \in Session /\ ToFlush(h)
         /\ \A u \in Session : ToFlush(u)' <=> ToFlush(u) /\ u # h
         /\ \A u \in Session : ToCommit(u) => ToCommit(u)'
<1> DEFINE q == m_queue["FLUSH"]
<1>1. /\ m_queue' = [m_queue EXCEPT !["FLUSH"] = Tail(q)] /\ todo' = todo
      /\ pc[t] = "flush" /\ pc'[t] \in {"flush", "flushed"}
      /\ \A v \in Session : v # t => pc'[v] = pc[v]
      /\ q \in Seq(Session) /\ h = Head(q)
      /\ m_queue'["FLUSH"] = Tail(q) /\ m_queue'["COMMIT"] = m_queue["COMMIT"]
  BY DEF FlushOne, Goto, TypeOK, PipelineTypeOK, Stage
<1>2. q # <<>> /\ Distinct(q)
  BY <1>1 DEF PipeInv, OneLeader, Leads, FlushDistinct, Stage
<1>3. /\ h \in Session /\ Elems(q) = {h} \cup Elems(Tail(q))
      /\ h \notin Elems(Tail(q))
  BY <1>1, <1>2, ElemsHeadTail, DistinctTail
<1>4. \A v \in Session : h \notin Elems(todo[v])
  BY <1>3 DEF PipeInv, OnePlace, NotQueuedAndHeld, Holds, Stage
<1> HIDE DEF q
<1> QED BY <1>1, <1>3, <1>4 DEF ToFlush, ToCommit, q

(* The second flush loop takes the head of what the leader fetched. *)
LEMMA FlushRestMoves ==
  ASSUME TypeOK, PipeInv, NEW t \in Session, FlushRest(t),
         NEW h, h = Head(todo[t])
  PROVE  /\ h \in Session /\ ToFlush(h)
         /\ \A u \in Session : ToFlush(u)' <=> ToFlush(u) /\ u # h
         /\ \A u \in Session : ToCommit(u) => ToCommit(u)'
<1> DEFINE q == todo[t]
<1>1. /\ m_queue' = m_queue
      /\ pc[t] = "flush_rest" /\ pc'[t] \in {"flush_rest", "flushed"}
      /\ pc'[t] = "flush_rest" <=> Len(q) > 1
      /\ \A v \in Session : v # t => pc'[v] = pc[v] /\ todo'[v] = todo[v]
      /\ q \in Seq(Session) /\ h = Head(q) /\ todo'[t] = Tail(q)
  BY DEF FlushRest, Goto, TypeOK, PipelineTypeOK
<1>2. q # <<>> /\ Distinct(q)
  BY <1>1 DEF PipeInv, LoopState, FlushDistinct
<1>3. /\ h \in Session /\ Elems(q) = {h} \cup Elems(Tail(q))
      /\ h \notin Elems(Tail(q))
      /\ ~(Len(q) > 1) => Elems(Tail(q)) = {}
  <2>1. h \in Session /\ Elems(q) = {h} \cup Elems(Tail(q))
        /\ (Len(q) > 1 <=> Tail(q) # <<>>)
    BY <1>1, <1>2, ElemsHeadTail
  <2>2. h \notin Elems(Tail(q))
    BY <1>1, <1>2, DistinctTail
  <2> QED BY <2>1, <2>2, ElemsEmpty
<1>4. h \in Holds(t)
  BY <1>3 DEF Holds
<1>5. /\ \A v \in Session : v # t => h \notin Elems(todo[v])
      /\ h \notin Elems(m_queue["FLUSH"])
  BY <1>3, <1>4 DEF PipeInv, OnePlace, NotQueuedAndHeld, NotHeldTwice, Holds,
                    Stage
<1> HIDE DEF q
<1> QED BY <1>1, <1>3, <1>5 DEF ToFlush, ToCommit, q

(* The COMMIT loop takes the head of its group. *)
LEMMA CommitOneMoves ==
  ASSUME TypeOK, PipeInv, NEW t \in Session, CommitOne(t),
         NEW h, h = Head(todo[t])
  PROVE  /\ h \in Session /\ ToCommit(h)
         /\ h \in Holds(t)
         /\ \A u \in Session : ToFlush(u)' => ToFlush(u)
         /\ \A u \in Session : ToCommit(u) => ToCommit(u)' \/ u = h
<1> DEFINE q == todo[t]
<1>1. /\ m_queue' = m_queue /\ pc[t] = "commit"
      /\ pc'[t] \in {"commit", "signal", "sync_error"}
      /\ Len(q) > 1 => pc'[t] = "commit"
      /\ \A v \in Session : v # t => pc'[v] = pc[v] /\ todo'[v] = todo[v]
      /\ q \in Seq(Session) /\ h = Head(q) /\ todo'[t] = Tail(q)
  BY DEF CommitOne, Goto, TypeOK, PipelineTypeOK
<1>2. q # <<>>
  BY <1>1 DEF PipeInv, LoopState
<1> HIDE DEF q
<1>3. /\ h \in Session /\ Elems(q) = {h} \cup Elems(Tail(q))
      /\ (~(Len(q) > 1) => Elems(Tail(q)) = {})
  <2>1. q \in Seq(Session) /\ h = Head(q)
    BY <1>1
  <2>2. /\ Head(q) \in Session /\ Elems(q) = {Head(q)} \cup Elems(Tail(q))
        /\ Len(q) > 1 <=> Tail(q) # <<>>
    BY <1>2, <2>1, ElemsHeadTail
  <2>3. ~(Len(q) > 1) => Elems(Tail(q)) = {}
    BY <2>2, ElemsEmpty
  <2> QED BY <2>1, <2>2, <2>3
<1> QED BY <1>1, <1>3 DEF ToFlush, ToCommit, Holds, q

(* The group of a leader that enters the COMMIT stage is to be committed, *)
(* unless the stage is skipped.                                           *)
LEMMA EnterCommitMoves ==
  ASSUME TypeOK, PipeInv, NEW t \in Session, EnterCommit(t)
  PROVE  /\ \A u \in Session : ToFlush(u)' => ToFlush(u)
         /\ \A u \in Session : ToCommit(u) => ToCommit(u)'
         /\ \/ ToCommit(t)'
            \/ pc'[t] = "sync_error"
            \/ pc'[t] = "signal" /\ ~SyncError(t)
<1>0. /\ m_queue["COMMIT"] \in Seq(Session) /\ final_queue[t] \in Seq(Session)
      /\ pc[t] = "enter_commit" /\ todo' = todo
      /\ \A v \in Session : v # t => pc'[v] = pc[v]
  BY DEF EnterCommit, enroll_for, Goto, TypeOK, PipelineTypeOK, Stage
<1>1. CASE order_commits /\ (SyncError(t) => ErrorAction # "ABORT_SERVER")
  <2> DEFINE q == m_queue["COMMIT"] \o final_queue[t]
  <2>1. /\ m_queue'["COMMIT"] = q /\ m_queue'["FLUSH"] = m_queue["FLUSH"]
        /\ pc'[t] \in {"lock_commit", "follower"}
    BY <1>1 DEF EnterCommit, enroll_for, Goto, TypeOK, PipelineTypeOK, Stage
  <2>2. Elems(q) = Elems(m_queue["COMMIT"]) \cup Elems(final_queue[t])
    BY <1>0, ElemsConcat
  <2>3. t \in Elems(final_queue[t])
    BY <1>0 DEF PipeInv, OwnGroup
  <2> HIDE DEF q
  <2> QED BY <1>0, <2>1, <2>2, <2>3 DEF ToFlush, ToCommit
<1>2. CASE ~(order_commits /\ (SyncError(t) => ErrorAction # "ABORT_SERVER"))
  <2>1. /\ m_queue' = m_queue
        /\ pc'[t] = IF SyncError(t) THEN "sync_error" ELSE "signal"
    BY <1>2 DEF EnterCommit, Goto, TypeOK, PipelineTypeOK
  <2> QED BY <1>0, <2>1 DEF ToFlush, ToCommit
<1> QED BY <1>1, <1>2

(* The pipeline moves sessions one way: into the FLUSH queue only from     *)
(* outside, and out of the COMMIT stage only through                       *)
(* process_commit_stage_queue.                                             *)
LEMMA Moves ==
  ASSUME TypeOK, PipeInv, NEW t \in Session, OrderedCommit(t), ~Die
  PROVE  /\ \A u \in Session :
              ToFlush(u)' => ToFlush(u) \/ (pc[t] = "prepared" /\ u = t)
         /\ pc[t] # "commit" => \A u \in Session : ToCommit(u) => ToCommit(u)'
<1>1. CASE EnrollFlush(t)
  <2>1. /\ m_queue'["FLUSH"] = m_queue["FLUSH"] \o <<t>>
        /\ m_queue'["COMMIT"] = m_queue["COMMIT"]
        /\ todo' = todo /\ pc[t] = "prepared"
        /\ \A v \in Session : v # t => pc'[v] = pc[v]
        /\ pc'[t] \in {"lock_log", "follower"}
        /\ m_queue["FLUSH"] \in Seq(Session)
    BY <1>1 DEF EnrollFlush, enroll_for, Goto, TypeOK, PipelineTypeOK, Stage
  <2>2. Elems(m_queue["FLUSH"] \o <<t>>) = Elems(m_queue["FLUSH"]) \cup {t}
    BY <2>1, ElemsAppend
  <2> QED BY <2>1, <2>2 DEF ToFlush, ToCommit
<1>2. CASE FlushOne(t)
  BY <1>2, FlushOneMoves
<1>3. CASE FlushRest(t)
  BY <1>3, FlushRestMoves
<1>4. CASE CommitOne(t)
  <2>1. pc[t] = "commit"
    BY <1>4 DEF CommitOne
  <2> QED BY <1>4, <2>1, CommitOneMoves
<1>5. CASE EnterCommit(t)
  BY <1>5, EnterCommitMoves
<1>6. CASE LockLog(t) \/ FetchRest(t) \/ LockSync(t) \/ LockCommit(t)
  <2>1. /\ \A v \in Session : v # t => pc'[v] = pc[v] /\ todo'[v] = todo[v]
        /\ m_queue'["FLUSH"] = m_queue["FLUSH"] \/ m_queue'["FLUSH"] = <<>>
        /\ pc[t] \in {"lock_log", "lock_sync"} =>
             m_queue'["COMMIT"] = m_queue["COMMIT"] /\ pc'[t] # "flush_rest"
        /\ pc[t] = "flush" => m_queue'["COMMIT"] = m_queue["COMMIT"]
                              /\ todo'[t] = m_queue["FLUSH"]
        /\ pc[t] = "lock_commit" =>
             /\ m_queue'["FLUSH"] = m_queue["FLUSH"]
             /\ todo'[t] = m_queue["COMMIT"] /\ pc'[t] = "commit"
        /\ pc[t] \in {"lock_log", "flush", "lock_sync", "lock_commit"}
    BY <1>6 DEF LockLog, FetchRest, LockSync, LockCommit, fetch_queue_for, Goto,
                TypeOK, PipelineTypeOK, Stage
  <2> QED BY <2>1, ElemsEmpty DEF ToFlush, ToCommit
<1>7. CASE \/ FlushToFile(t) \/ HandleFlushError(t) \/ EnrollSync(t)
           \/ sync_binlog_file(t) \/ HandleSyncError(t) \/ signal_done(t)
           \/ finish_commit(t)
  <2>1. /\ todo' = todo
        /\ m_queue'["FLUSH"] = m_queue["FLUSH"]
        /\ m_queue'["COMMIT"] = m_queue["COMMIT"]
    BY <1>7 DEF FlushToFile, HandleFlushError, EnrollSync, sync_binlog_file,
                HandleSyncError, signal_done, finish_commit, enroll_for,
                TypeOK, PipelineTypeOK, Stage, queues
  <2>2. /\ \A v \in Session : v # t => pc'[v] = pc[v]
        /\ pc[t] \notin {"flush_rest", "commit"}
        /\ pc'[t] \notin {"flush_rest", "commit"}
    BY <1>7 DEF FlushToFile, HandleFlushError, EnrollSync, sync_binlog_file,
                HandleSyncError, signal_done, finish_commit, enroll_for, Goto,
                TypeOK, PipelineTypeOK
  <2> QED BY <2>1, <2>2 DEF ToFlush, ToCommit
<1> QED BY <1>1, <1>2, <1>3, <1>4, <1>5, <1>6, <1>7 DEF OrderedCommit

(***************************************************************************)
(* The log and the engine's commit records as sets of transactions.        *)
(***************************************************************************)

(* What a prefix holds. *)
LEMMA PrefixElems ==
  ASSUME NEW S, NEW s \in Seq(S), NEW n \in 0..Len(s)
  PROVE  /\ Prefix(s, n) \in Seq(S) /\ Len(Prefix(s, n)) = n
         /\ \A i \in 1..n : Prefix(s, n)[i] = s[i]
         /\ Elems(Prefix(s, n)) = {s[i] : i \in 1..n}
         /\ Elems(Prefix(s, n)) \subseteq Elems(s)
         /\ n = Len(s) => Prefix(s, n) = s
<1>1. Len(s) \in Nat /\ n \in Nat /\ n <= Len(s)
  OBVIOUS
<1>2. /\ Prefix(s, n) \in Seq(S) /\ Len(Prefix(s, n)) = n
      /\ \A i \in 1..n : Prefix(s, n)[i] = s[i]
  BY <1>1, SubSeqProperties DEF Prefix
<1>3. Elems(Prefix(s, n)) = {s[i] : i \in 1..n}
  BY <1>2 DEF Elems
<1>4. Elems(Prefix(s, n)) \subseteq Elems(s)
  BY <1>1, <1>3 DEF Elems
<1>5. n = Len(s) => Prefix(s, n) = s
  BY <1>2, SeqEqual
<1> QED BY <1>2, <1>3, <1>4, <1>5

(* A log that is cut at n has what was at the positions up to n. *)
LEMMA CutElems ==
  ASSUME NEW S, NEW s \in Seq(S), NEW m \in 0..Len(s), NEW n \in 0..Len(s)
  PROVE  /\ Elems(SubSeq(s, m + 1, n)) = {s[i] : i \in (m + 1)..n}
         /\ Elems(s) = Elems(Prefix(s, n)) \cup Elems(SubSeq(s, n + 1, Len(s)))
<1>1. Len(s) \in Nat /\ n \in Nat /\ n <= Len(s) /\ m \in Nat /\ m <= Len(s)
  OBVIOUS
<1>2. ASSUME NEW k \in 0..Len(s), NEW l \in 0..Len(s)
      PROVE  Elems(SubSeq(s, k + 1, l)) = {s[i] : i \in (k + 1)..l}
  <2>1. CASE l <= k
    <3>1. SubSeq(s, k + 1, l) = <<>> /\ (k + 1)..l = {}
      BY <1>1, <2>1, SubSeqProperties
    <3> QED BY <3>1, ElemsEmpty
  <2>2. CASE k < l
    <3>1. /\ Len(SubSeq(s, k + 1, l)) = l - k
          /\ \A i \in 1..l - k : SubSeq(s, k + 1, l)[i] = s[k + i]
      BY <1>1, <2>2, SubSeqProperties
    <3>2. Elems(SubSeq(s, k + 1, l)) = {s[k + i] : i \in 1..l - k}
      BY <3>1 DEF Elems
    <3>3. ASSUME NEW i \in (k + 1)..l
          PROVE  \E j \in 1..l - k : s[i] = s[k + j]
      <4>1. i - k \in 1..l - k /\ i = k + (i - k)
        BY <1>1
      <4> QED BY <4>1
    <3>4. ASSUME NEW j \in 1..l - k PROVE k + j \in (k + 1)..l
      BY <1>1
    <3> QED BY <3>2, <3>3, <3>4
  <2> QED BY <1>1, <2>1, <2>2
<1>3. Elems(SubSeq(s, m + 1, n)) = {s[i] : i \in (m + 1)..n}
  BY <1>2
<1>4. Elems(SubSeq(s, n + 1, Len(s))) = {s[i] : i \in (n + 1)..Len(s)}
  BY <1>1, <1>2
<1>5. Elems(Prefix(s, n)) = {s[i] : i \in 1..n}
  BY PrefixElems
<1>6. \A i \in 1..Len(s) : i \in 1..n \/ i \in (n + 1)..Len(s)
  BY <1>1
<1>7. Elems(s) = {s[i] : i \in 1..Len(s)}
  BY DEF Elems
<1>8. \A i \in 1..n : i \in 1..Len(s)
  BY <1>1
<1>9. \A i \in (n + 1)..Len(s) : i \in 1..Len(s)
  BY <1>1
<1> QED BY <1>3, <1>4, <1>5, <1>6, <1>7, <1>8, <1>9

(* ha_commit_low makes one more transaction committed, not yet on disk. *)
LEMMA CommitLow ==
  ASSUME DataTypeOK, FileOrder, NEW x \in Trx, ha_commit_low(x),
         committed' = committed
  PROVE  /\ Done' = Done \cup {x} /\ OnDisk' = OnDisk
         /\ prepared' = prepared \ {x} /\ redo' = redo
         /\ redo' <= Len(commit_log')
<1>1. /\ commit_log \in Seq(Trx) /\ redo \in 0..Len(commit_log)
      /\ commit_log' = Append(commit_log, x) /\ redo' = redo
      /\ prepared' = prepared \ {x}
  BY DEF DataTypeOK, FileOrder, ha_commit_low
<1>2. /\ commit_log' \in Seq(Trx) /\ Len(commit_log') = Len(commit_log) + 1
      /\ \A i \in 1..Len(commit_log) : commit_log'[i] = commit_log[i]
  BY <1>1
<1>3. Elems(commit_log') = Elems(commit_log) \cup {x}
  <2>1. /\ Append(commit_log, x) = commit_log \o <<x>>
        /\ Elems(commit_log \o <<x>>) = Elems(commit_log) \cup {x}
    BY <1>1, ElemsAppend
  <2> QED BY <1>1, <2>1
<1>4. Elems(Prefix(commit_log, redo)) = {commit_log[i] : i \in 1..redo}
  BY <1>1, PrefixElems
<1>5. Elems(Prefix(commit_log', redo)) = {commit_log'[i] : i \in 1..redo}
  <2>1. redo \in 0..Len(commit_log')
    BY <1>1, <1>2
  <2> QED BY <1>2, <2>1, PrefixElems
<1>6. {commit_log'[i] : i \in 1..redo} = {commit_log[i] : i \in 1..redo}
  <2>1. \A i \in 1..redo : i \in 1..Len(commit_log)
    BY <1>1
  <2> QED BY <1>2, <2>1
<1> QED BY <1>1, <1>2, <1>3, <1>4, <1>5, <1>6 DEF Done, OnDisk

(* A flush of the redo log puts every commit record on disk. *)
LEMMA RedoFlushed ==
  ASSUME DataTypeOK, FileOrder, commit_log' = commit_log,
         redo' = Len(commit_log), committed' = committed
  PROVE  /\ Done' = Done /\ OnDisk' = Done /\ OnDisk \subseteq Done
         /\ redo' <= Len(commit_log')
<1>1. commit_log \in Seq(Trx) /\ redo \in 0..Len(commit_log)
      /\ Len(commit_log) \in 0..Len(commit_log)
  BY DEF DataTypeOK, FileOrder
<1>2. /\ Elems(Prefix(commit_log, redo)) \subseteq Elems(commit_log)
      /\ Prefix(commit_log, Len(commit_log)) = commit_log
  BY <1>1, PrefixElems
<1> QED BY <1>1, <1>2 DEF Done, OnDisk

(* What is on disk is committed. *)
LEMMA OnDiskDone ==
  ASSUME DataTypeOK, FileOrder
  PROVE  OnDisk \subseteq Done
<1>1. commit_log \in Seq(Trx) /\ redo \in 0..Len(commit_log)
  BY DEF DataTypeOK, FileOrder
<1> QED BY <1>1, PrefixElems DEF OnDisk, Done

(* Different sessions commit different transactions. *)
LEMMA TidInjective ==
  ASSUME TypeOK
  PROVE  /\ \A u \in Session : Tid(u) \in Trx
         /\ \A u, v \in Session : Tid(u) = Tid(v) => u = v
BY DEF Tid, Trx, TypeOK, DataTypeOK

(***************************************************************************)
(* Steps that leave the log and the engine alone.                          *)
(***************************************************************************)

(* Nothing in the pipeline is between flush and commit any more when its   *)
(* session is outside.                                                     *)
LEMMA Outside ==
  ASSUME IndInv, NEW u \in Session, pc[u] \notin Committing \cup {"finish"}
  PROVE  ~xid_written[u] /\ ~ToFlush(u) /\ ~ToCommit(u) /\ ~pending[u]
<1>1. ~xid_written[u]
  BY DEF IndInv, FlushOnce, Unflushed
<1>2. ~pending[u]
  BY DEF IndInv, PipeInv, PendingCommits
<1>3. /\ \A s \in Stage : u \notin Elems(m_queue[s])
      /\ \A t \in Session : u \notin Holds(t)
  BY <1>2, NotPlaced DEF IndInv, PipeInv
<1> QED BY <1>1, <1>2, <1>3 DEF ToFlush, ToCommit, Holds, Stage

(* Such a step: nobody is newly prepared or to be flushed, who was to be   *)
(* committed still is, who is in doubt stays where the doubt is resolved.  *)
QuietForData ==
  /\ server = "up" /\ server' = "up"
  /\ UNCHANGED <<binlog, log_start, written, synced, is_open, engine,
                 committed, boot, xid_written, commit_error>>
  /\ \A u \in Session :
       /\ ToFlush(u)' => ToFlush(u)
       /\ ToCommit(u) => ToCommit(u)'
       /\ pc'[u] = "prepared" => pc[u] = "prepared"
       /\ pc'[u] \in {"rot_wait", "rot_reopen"} =>
            pc[u] = pc'[u] \/ (pc'[u] = "rot_wait" /\ is_open)
       /\ pc[u] \in {"enter_commit", "sync_error"} /\ SyncError(u) =>
            pc'[u] \in {"enter_commit", "sync_error"} \/ ToCommit(u)'
       /\ pc[u] # "idle" => trx'[u] = trx[u]

(* It keeps the invariant. *)
LEMMA QuietDur ==
  ASSUME IndInv, DurInv, LogHeld', QuietForData
  PROVE  DurInv'
<1> USE DEF QuietForData, engine
<1>1. \A u \in Session : pc[u] = "idle" => ~xid_written[u] /\ ~ToFlush(u)
  BY Outside DEF Committing
<1>2. \A u \in Session : xid_written[u] \/ ToFlush(u) \/ pc[u] = "prepared" =>
        Tid(u)' = Tid(u)
  BY <1>1 DEF Tid
<1>3. Done' = Done /\ OnDisk' = OnDisk
  BY DEF Done, OnDisk
<1>4. DownReset' /\ FileOrder'
  BY DEF DurInv, DownReset, FileOrder
<1>5. PreparedOnWay'
  BY <1>2 DEF DurInv, PreparedOnWay
<1>6. Accounted' /\ BootCommitted'
  BY <1>3 DEF DurInv, Accounted, BootCommitted
<1>7. OldFilesCommitted'
  BY DEF DurInv, OldFilesCommitted
<1>8. RotationWaits'
  BY <1>3 DEF DurInv, RotationWaits
<1>9. OnItsWay'
  BY <1>2, <1>3 DEF DurInv, OnItsWay
<1>10. Doubtful'
  BY DEF DurInv, Doubtful, SyncError
<1> QED BY <1>4, <1>5, <1>6, <1>7, <1>8, <1>9, <1>10 DEF DurInv

(* The quiet steps of ordered_commit. *)
LEMMA PipelineQuiet ==
  ASSUME IndInv, DurInv, LogHeld', server = "up", NEW t \in Session,
         \/ LockLog(t) \/ FetchRest(t) \/ EnrollSync(t) \/ LockSync(t)
         \/ EnterCommit(t) \/ LockCommit(t) \/ signal_done(t)
  PROVE  DurInv'
<1>0. TypeOK /\ PipeInv
  BY DEF IndInv
<1>1. ~Die
  BY DEF LockLog, FetchRest, EnrollSync, LockSync, EnterCommit, LockCommit,
         signal_done, restart, Die
<1>2. /\ server' = "up" /\ trx' = trx
      /\ UNCHANGED <<binlog, log_start, written, synced, is_open, engine,
                     committed, boot, xid_written, commit_error>>
  BY DEF LockLog, FetchRest, EnrollSync, LockSync, EnterCommit, LockCommit,
         signal_done, restart, logfile, flags
<1>3. /\ \A v \in Session : v # t => pc'[v] = pc[v]
      /\ pc'[t] \notin {"prepared", "rot_wait", "rot_reopen"}
      /\ pc[t] \notin {"prepared", "commit", "sync_error"}
      /\ pc[t] = "enter_commit" => EnterCommit(t)
  BY <1>0 DEF LockLog, FetchRest, EnrollSync, LockSync, EnterCommit, LockCommit,
         signal_done, enroll_for, Goto, TypeOK, PipelineTypeOK
<1>4. \A u \in Session : /\ ToFlush(u)' => ToFlush(u)
                         /\ ToCommit(u) => ToCommit(u)'
  BY <1>0, <1>1, <1>3, Moves DEF OrderedCommit
<1>5. pc[t] = "enter_commit" /\ SyncError(t) =>
        pc'[t] = "sync_error" \/ ToCommit(t)'
  BY <1>0, <1>3, EnterCommitMoves
<1>6. QuietForData
  BY <1>2, <1>3, <1>4, <1>5 DEF QuietForData
<1> QED BY <1>6, QuietDur

(* FLUSH LOGS begins, takes its lock or has nothing to do, and all of      *)
(* START TRANSACTION WITH CONSISTENT SNAPSHOT.                             *)
LEMMA OutsideQuiet ==
  ASSUME IndInv, DurInv, LogHeld', server = "up", NEW t \in Session,
         \/ FlushLogs(t) \/ StartSnapshot(t) \/ RotateLock(t) \/ Snapshot(t)
  PROVE  DurInv'
<1>1. /\ server' = "up" /\ m_queue' = m_queue /\ todo' = todo
      /\ UNCHANGED <<binlog, log_start, written, synced, is_open, engine,
                     committed, boot, xid_written, commit_error>>
  BY DEF FlushLogs, StartSnapshot, RotateLock, Snapshot, xlock, xlock_commits,
         xunlock, restart, logfile, flags, queues
<1>2. /\ \A v \in Session : v # t => pc'[v] = pc[v] /\ trx'[v] = trx[v]
      /\ pc[t] \in {"idle", "rotate", "snap_lock", "snap_commit", "snap_rw",
                    "snapshot"}
      /\ pc'[t] \in {"idle", "rotate", "rot_wait", "snap_lock", "snap_commit",
                     "snap_rw", "snapshot"}
      /\ pc'[t] = "rot_wait" => is_open
      /\ pc[t] # "idle" => trx'[t] = trx[t]
  <2> USE DEF IndInv, TypeOK, PipelineTypeOK, DataTypeOK, Goto
  <2>1. CASE FlushLogs(t) \/ StartSnapshot(t)
    BY <2>1 DEF FlushLogs, StartSnapshot
  <2>2. CASE RotateLock(t)
    BY <2>2 DEF RotateLock, Return
  <2>3. CASE Snapshot(t)
    BY <2>3 DEF Snapshot, xlock, xlock_commits, xunlock
  <2> QED BY <2>1, <2>2, <2>3
<1>3. \A u \in Session : /\ ToFlush(u)' => ToFlush(u)
                         /\ ToCommit(u) => ToCommit(u)'
  BY <1>1, <1>2 DEF ToFlush, ToCommit
<1>4. QuietForData
  BY <1>1, <1>2, <1>3 DEF QuietForData
<1> QED BY <1>4, QuietDur

(* SET GLOBAL, and no step at all. *)
LEMMA OptionsQuiet ==
  ASSUME IndInv, DurInv, SetSyncPeriod \/ SetOrderCommits \/ UNCHANGED vars
  PROVE  DurInv'
<1>1. UNCHANGED <<pc, m_queue, final_queue, todo, LOCK_log, binlog, log_start,
                  written, synced, is_open, prepared, commit_log, redo,
                  committed, boot, server, xid_written, commit_error, trx,
                  pending>>
  BY DEF SetSyncPeriod, SetOrderCommits, vars, queues, locks, flags, logfile,
         engine, restart
<1>2. /\ Done' = Done /\ OnDisk' = OnDisk
      /\ \A u : (ToFlush(u)' <=> ToFlush(u)) /\ (ToCommit(u)' <=> ToCommit(u))
                /\ Tid(u)' = Tid(u)
      /\ Reset' <=> Reset
  BY <1>1 DEF Done, OnDisk, ToFlush, ToCommit, Tid, Reset
<1> QED BY <1>1, <1>2 DEF DurInv, LogHeld, DownReset, FileOrder, PreparedOnWay,
      Accounted, OldFilesCommitted, RotationWaits, OnItsWay, Doubtful,
      BootCommitted

(***************************************************************************)
(* Steps of the engine: prepare and commit.                                *)
(***************************************************************************)

(* The invariant when the log is left alone and the engine gets ahead:     *)
(* what is taken out of prepared is committed, what was on disk still is,  *)
(* and an XID counted down belongs to a transaction that is committed.     *)
EngineAhead ==
  /\ server = "up" /\ server' = "up"
  /\ UNCHANGED <<binlog, log_start, written, synced, is_open, committed, boot,
                 commit_error>>
  /\ redo' <= Len(commit_log')
  /\ Done \subseteq Done' /\ OnDisk \subseteq OnDisk'
  /\ prepared \subseteq prepared' \cup Done'
  /\ \A u \in Session :
       /\ ToFlush(u)' => ToFlush(u)
       /\ ToFlush(u) \/ pc'[u] = "prepared" => Tid(u)' \in prepared'
       /\ ToCommit(u) => ToCommit(u)' \/ ~xid_written'[u]
       /\ pc'[u] \in {"rot_wait", "rot_reopen"} => pc[u] = pc'[u]
       /\ pc[u] \in {"enter_commit", "sync_error"} => pc'[u] = pc[u]
       /\ xid_written'[u] => xid_written[u] /\ Tid(u)' = Tid(u)
       /\ xid_written[u] /\ ~xid_written'[u] /\ is_open
            /\ Tid(u) \in Elems(binlog) => Tid(u) \in Done'

(* Such a step keeps the invariant. *)
LEMMA EngineDur ==
  ASSUME IndInv, DurInv, LogHeld', EngineAhead
  PROVE  DurInv'
<1> USE DEF EngineAhead
<1>1. DownReset' /\ FileOrder'
  BY DEF DurInv, DownReset, FileOrder
<1>2. PreparedOnWay'
  BY DEF DurInv, PreparedOnWay
<1>3. Accounted' /\ BootCommitted'
  BY DEF DurInv, Accounted, BootCommitted
<1>4. OldFilesCommitted'
  <2>1. \A i \in 1..log_start : binlog[i] \in OnDisk
    BY DEF DurInv, OldFilesCommitted, OnDisk
  <2>2. \A i \in 1..log_start : binlog[i] \in OnDisk'
    BY <2>1
  <2> QED BY <2>2 DEF OldFilesCommitted, OnDisk
<1>5. RotationWaits'
  BY DEF DurInv, RotationWaits
<1>6. OnItsWay'
  <2> SUFFICES ASSUME is_open, NEW i \in (log_start + 1)..Len(binlog),
                      binlog[i] \notin Done'
               PROVE  \E u \in Session : xid_written'[u] /\ Tid(u)' = binlog[i]
    BY DEF OnItsWay
  <2>1. PICK u \in Session : xid_written[u] /\ Tid(u) = binlog[i]
    BY DEF DurInv, OnItsWay
  <2>2. binlog[i] \in Elems(binlog)
    BY DEF Elems, IndInv, TypeOK, DataTypeOK
  <2> QED BY <2>1, <2>2
<1>7. Doubtful'
  BY DEF DurInv, Doubtful
<1> QED BY <1>1, <1>2, <1>3, <1>4, <1>5, <1>6, <1>7 DEF DurInv

(* prepare: the prepare record is on disk, and so is every commit record   *)
(* written before it.                                                      *)
LEMMA PrepareDur ==
  ASSUME IndInv, DurInv, LogHeld', server = "up", NEW t \in Session,
         prepare(t)
  PROVE  DurInv'
<1> DEFINE x == <<t, trx[t] + 1>>
<1>1. /\ server' = "up" /\ m_queue' = m_queue /\ todo' = todo
      /\ UNCHANGED <<binlog, log_start, written, synced, is_open, committed,
                     boot, commit_error, xid_written, commit_log>>
      /\ redo' = Len(commit_log) /\ prepared' = prepared \cup {x}
  BY DEF prepare, restart, logfile, flags, queues
<1>2. /\ pc[t] = "idle" /\ pc'[t] = "prepared" /\ trx'[t] = trx[t] + 1
      /\ \A v \in Session : v # t => pc'[v] = pc[v] /\ trx'[v] = trx[v]
  BY DEF prepare, Goto, IndInv, TypeOK, PipelineTypeOK, DataTypeOK
<1>3. ~xid_written[t] /\ ~ToFlush(t)
  BY <1>2, Outside DEF Committing
<1>4. Tid(t)' = x /\ \A v \in Session : v # t => Tid(v)' = Tid(v)
  BY <1>2 DEF Tid
<1>5. /\ Done' = Done /\ OnDisk \subseteq OnDisk'
      /\ redo' <= Len(commit_log')
  BY <1>1, RedoFlushed DEF IndInv, TypeOK, DurInv
<1>6. \A u \in Session : /\ ToFlush(u)' <=> ToFlush(u)
                         /\ ToCommit(u)' <=> ToCommit(u)
  BY <1>1, <1>2 DEF ToFlush, ToCommit
<1> HIDE DEF x
<1>7. \A u \in Session :
        ToFlush(u) \/ pc'[u] = "prepared" => Tid(u)' \in prepared'
  BY <1>1, <1>2, <1>3, <1>4 DEF DurInv, PreparedOnWay
<1>8. EngineAhead
  BY <1>1, <1>2, <1>3, <1>4, <1>5, <1>6, <1>7 DEF EngineAhead
<1> QED BY <1>8, EngineDur

(* A transaction that is not logged is committed at once, on disk. *)
LEMMA UnloggedDur ==
  ASSUME IndInv, DurInv, LogHeld', server = "up", NEW t \in Session,
         CommitUnlogged(t)
  PROVE  DurInv'
<1> DEFINE x == <<t, trx[t] + 1>>
<1>1. /\ server' = "up" /\ m_queue' = m_queue /\ todo' = todo /\ pc' = pc
      /\ UNCHANGED <<binlog, log_start, written, synced, is_open, committed,
                     boot, commit_error, xid_written, prepared>>
      /\ commit_log' = Append(commit_log, x) /\ redo' = Len(commit_log) + 1
  BY DEF CommitUnlogged, restart, logfile, flags, queues
<1>2. /\ pc[t] = "idle" /\ trx[t] < MaxTrx
      /\ \A v \in Session : v # t => trx'[v] = trx[v]
  BY DEF CommitUnlogged, IndInv, TypeOK, DataTypeOK
<1>3. ~xid_written[t] /\ ~ToFlush(t)
  BY <1>2, Outside DEF Committing
<1>4. \A v \in Session : v # t => Tid(v)' = Tid(v)
  BY <1>2 DEF Tid
<1>5. x \in Trx /\ commit_log \in Seq(Trx)
  BY <1>2, BoundAssumption DEF IndInv, TypeOK, DataTypeOK, Trx
<1> HIDE DEF x
<1>6. /\ commit_log' \in Seq(Trx) /\ Len(commit_log') = Len(commit_log) + 1
      /\ redo' \in 0..Len(commit_log') /\ redo' = Len(commit_log')
  BY <1>1, <1>5
<1>7. Elems(commit_log) \subseteq Elems(commit_log')
  <2>1. /\ Append(commit_log, x) = commit_log \o <<x>>
        /\ Elems(commit_log \o <<x>>) = Elems(commit_log) \cup {x}
    BY <1>5, ElemsAppend
  <2> QED BY <1>1, <2>1
<1>8. Prefix(commit_log', redo') = commit_log'
  BY <1>6, PrefixElems
<1>9. OnDisk \subseteq Done
  BY OnDiskDone DEF IndInv, TypeOK, DurInv
<1>10. Done \subseteq Done' /\ OnDisk \subseteq OnDisk'
  BY <1>1, <1>7, <1>8, <1>9 DEF Done, OnDisk
<1>11. \A u \in Session : /\ ToFlush(u)' <=> ToFlush(u)
                          /\ ToCommit(u)' <=> ToCommit(u)
  BY <1>1, <1>2 DEF ToFlush, ToCommit
<1>12. \A u \in Session :
         ToFlush(u) \/ pc'[u] = "prepared" => Tid(u)' \in prepared'
  BY <1>1, <1>2, <1>3, <1>4 DEF DurInv, PreparedOnWay
<1>13. EngineAhead
  BY <1>1, <1>2, <1>3, <1>4, <1>6, <1>10, <1>11, <1>12 DEF EngineAhead
<1> QED BY <1>13, EngineDur

(* The engine commits session h, if it is prepared and unless in doubt,    *)
(* and h's XID is counted down: in the COMMIT stage or in finish_commit.   *)
CommitsOne(h) ==
  /\ server = "up" /\ server' = "up"
  /\ UNCHANGED <<binlog, log_start, written, synced, is_open, committed, boot,
                 commit_error, trx>>
  /\ \A u \in Session : xid_written'[u] <=> xid_written[u] /\ u # h
  /\ \/ Tid(h) \in prepared /\ ha_commit_low(Tid(h))
     \/ /\ UNCHANGED engine
        /\ Tid(h) \in prepared => ~(is_open /\ xid_written[h])
  /\ ~ToFlush(h) /\ pc[h] # "prepared"
  /\ \A u \in Session :
       /\ ToFlush(u)' => ToFlush(u)
       /\ ToCommit(u) => ToCommit(u)' \/ u = h
       /\ pc'[u] = "prepared" => pc[u] = "prepared"
       /\ pc'[u] \in {"rot_wait", "rot_reopen"} => pc[u] = pc'[u]
       /\ pc[u] \in {"enter_commit", "sync_error"} => pc'[u] = pc[u]

(* So the engine gets ahead, and the invariant is kept. *)
LEMMA CommitsOneDur ==
  ASSUME IndInv, DurInv, LogHeld', NEW h \in Session, CommitsOne(h)
  PROVE  DurInv'
<1> USE DEF CommitsOne
<1>0. Tid(h) \in Trx /\ \A u \in Session : Tid(u)' = Tid(u)
      /\ (Tid(u) = Tid(h) => u = h)
  BY TidInjective DEF IndInv, Tid
<1>1. /\ redo' <= Len(commit_log') /\ OnDisk' = OnDisk
      /\ \/ Done' = Done \cup {Tid(h)} /\ prepared' = prepared \ {Tid(h)}
         \/ /\ Done' = Done /\ prepared' = prepared
            /\ Tid(h) \in prepared => ~(is_open /\ xid_written[h])
  <2>1. CASE ha_commit_low(Tid(h))
    BY <1>0, <2>1, CommitLow DEF IndInv, TypeOK, DurInv
  <2>2. CASE ~ha_commit_low(Tid(h))
    BY <2>2 DEF Done, OnDisk, engine, DurInv, FileOrder
  <2> QED BY <2>1, <2>2
<1>2. \A u \in Session :
        ToFlush(u) \/ pc'[u] = "prepared" => Tid(u)' \in prepared'
  BY <1>0, <1>1 DEF DurInv, PreparedOnWay
<1>3. is_open /\ xid_written[h] /\ Tid(h) \in Elems(binlog) => Tid(h) \in Done'
  BY <1>1 DEF DurInv, Accounted
<1>4. EngineAhead
  BY <1>0, <1>1, <1>2, <1>3 DEF EngineAhead
<1> QED BY <1>4, EngineDur

(* process_commit_stage_queue commits whatever the errors. *)
LEMMA CommitOneCommits ==
  ASSUME IndInv, server = "up", NEW t \in Session, CommitOne(t)
  PROVE  /\ Head(todo[t]) \in Session /\ Head(todo[t]) \in Holds(t)
         /\ pending[Head(todo[t])] /\ CommitsOne(Head(todo[t]))
<1> DEFINE h == Head(todo[t])
<1>0. TypeOK /\ PipeInv
  BY DEF IndInv
<1>1. /\ h \in Session /\ h \in Holds(t)
      /\ \A u \in Session : /\ ToFlush(u)' => ToFlush(u)
                            /\ ToCommit(u) => ToCommit(u)' \/ u = h
  BY <1>0, CommitOneMoves
<1>2. pending[h] /\ ~ToFlush(h) /\ pc[h] # "prepared"
  <2>1. pending[h] /\ h \notin Elems(m_queue["FLUSH"])
    BY <1>0, <1>1 DEF PipeInv, OnePlace, WaitingIsPlaced, NotQueuedAndHeld,
                      Stage
  <2>2. \A v \in Session : pc[v] = "flush_rest" => h \notin Elems(todo[v])
    <3>1. pc[t] = "commit"
      BY DEF CommitOne
    <3>2. \A v \in Session : h \in Holds(v) => v = t
      BY <1>0, <1>1 DEF PipeInv, OnePlace, NotHeldTwice
    <3> QED BY <3>1, <3>2 DEF Holds
  <2> QED BY <1>0, <1>1, <2>1, <2>2 DEF ToFlush, PipeInv, PendingCommits,
                                        Committing
<1>3. /\ server' = "up" /\ xid_written' = [xid_written EXCEPT ![h] = FALSE]
      /\ UNCHANGED <<binlog, log_start, written, synced, is_open, committed,
                     boot, commit_error, trx>>
      /\ \/ Tid(h) \in prepared /\ ha_commit_low(Tid(h))
         \/ UNCHANGED engine /\ Tid(h) \notin prepared
  BY DEF CommitOne, dec_after_commit, dec_prep_xids, commit_low, restart,
         logfile
<1>4. \A u \in Session : pc'[u] # pc[u] =>
        pc[u] = "commit" /\ pc'[u] \in {"signal", "sync_error"}
  BY <1>0 DEF CommitOne, Goto, TypeOK, PipelineTypeOK
<1> HIDE DEF h
<1>5. \A u \in Session : xid_written'[u] <=> xid_written[u] /\ u # h
  BY <1>0, <1>1, <1>3 DEF TypeOK, PipelineTypeOK
<1>6. CommitsOne(h)
  BY <1>1, <1>2, <1>3, <1>4, <1>5 DEF CommitsOne
<1> QED BY <1>1, <1>2, <1>6 DEF h

(* finish_commit does not commit after an error, but whoever comes there   *)
(* with an error and an XID in the log finds the log closed.               *)
LEMMA FinishCommits ==
  ASSUME IndInv, DurInv, server = "up", NEW t \in Session, finish_commit(t)
  PROVE  ~pending[t] /\ CommitsOne(t)
<1>0. TypeOK /\ PipeInv
  BY DEF IndInv
<1>1. /\ pc[t] \in {"finish", "follower"} /\ ~pending[t]
  BY <1>0 DEF finish_commit, PipeInv, PendingCommits, Committing
<1>2. ~ToFlush(t) /\ ~ToCommit(t)
  BY <1>0, <1>1, NotPlaced DEF PipeInv, ToFlush, ToCommit, Stage, Holds
<1>3. /\ server' = "up" /\ xid_written' = [xid_written EXCEPT ![t] = FALSE]
      /\ UNCHANGED <<binlog, log_start, written, synced, is_open, committed,
                     boot, commit_error, trx, m_queue, todo>>
      /\ \/ Tid(t) \in prepared /\ ha_commit_low(Tid(t))
         \/ UNCHANGED engine
            /\ (Tid(t) \in prepared => commit_error[t] # "NONE")
  BY DEF finish_commit, dec_prep_xids, restart, logfile, queues
<1>4. Tid(t) \in prepared /\ commit_error[t] # "NONE"
        => ~(is_open /\ xid_written[t])
  BY <1>1, <1>2 DEF DurInv, Doubtful
<1>5. \A u \in Session :
        pc'[u] # pc[u] => u = t /\ pc'[u] \in {"idle", "rotate"}
  BY <1>0 DEF finish_commit, Goto, TypeOK, PipelineTypeOK
<1>6. \A u \in Session : xid_written'[u] <=> xid_written[u] /\ u # t
  BY <1>0, <1>3 DEF TypeOK, PipelineTypeOK
<1>7. \A u \in Session : /\ ToFlush(u)' => ToFlush(u)
                         /\ ToCommit(u) => ToCommit(u)'
  BY <1>1, <1>3, <1>5 DEF ToFlush, ToCommit
<1>8. CommitsOne(t)
  BY <1>1, <1>2, <1>3, <1>4, <1>5, <1>6, <1>7 DEF CommitsOne
<1> QED BY <1>1, <1>8

(***************************************************************************)
(* Steps of the log.                                                       *)
(***************************************************************************)

(* A prepared session joins the FLUSH queue with its error flag cleared. *)
LEMMA EnrollFlushDur ==
  ASSUME IndInv, DurInv, LogHeld', server = "up", NEW t \in Session,
         EnrollFlush(t)
  PROVE  DurInv'
<1>0. TypeOK /\ PipeInv
  BY DEF IndInv
<1>1. /\ server' = "up" /\ pc[t] = "prepared"
      /\ xid_written' = [xid_written EXCEPT ![t] = FALSE]
      /\ commit_error' = [commit_error EXCEPT ![t] = "NONE"]
      /\ UNCHANGED <<binlog, log_start, written, synced, is_open, prepared,
                     commit_log, redo, committed, boot, trx>>
  BY DEF EnrollFlush, restart, logfile, engine
<1>2. \A v \in Session : pc'[v] # pc[v] =>
        v = t /\ pc'[v] \in {"lock_log", "follower"}
  BY <1>0 DEF EnrollFlush, enroll_for, Goto, TypeOK, PipelineTypeOK
<1>3. ~xid_written[t] /\ ~Die
  BY <1>1, Outside DEF Committing, Die
<1>4. /\ \A v \in Session : xid_written'[v] <=> xid_written[v]
      /\ \A v \in Session : v # t => commit_error'[v] = commit_error[v]
      /\ commit_error'[t] = "NONE"
  BY <1>0, <1>1, <1>3 DEF TypeOK, PipelineTypeOK
<1>5. \A u \in Session : /\ ToFlush(u)' => ToFlush(u) \/ u = t
                         /\ ToCommit(u) => ToCommit(u)'
  BY <1>0, <1>1, <1>3, Moves DEF OrderedCommit
<1>6. /\ Done' = Done /\ OnDisk' = OnDisk
      /\ \A u \in Session : Tid(u)' = Tid(u)
  BY <1>1 DEF Done, OnDisk, Tid
<1>7. PreparedOnWay'
  <2>1. \A u \in Session : (ToFlush(u) \/ pc[u] = "prepared" => Tid(u) \in prepared)
                           /\ (ToFlush(u) => commit_error[u] = "NONE")
    BY DEF DurInv, PreparedOnWay
  <2>2. pc'[t] # "prepared"
    BY <1>0 DEF EnrollFlush, enroll_for, Goto, TypeOK, PipelineTypeOK
  <2> QED BY <1>1, <1>2, <1>4, <1>5, <1>6, <2>1, <2>2 DEF PreparedOnWay
<1>8. DownReset' /\ FileOrder' /\ Accounted' /\ BootCommitted'
  BY <1>1, <1>6 DEF DurInv, DownReset, FileOrder, Accounted, BootCommitted
<1>9. OldFilesCommitted'
  BY <1>1 DEF DurInv, OldFilesCommitted
<1>10. RotationWaits'
  BY <1>1, <1>2, <1>4, <1>6 DEF DurInv, RotationWaits
<1>11. OnItsWay'
  BY <1>1, <1>4, <1>6 DEF DurInv, OnItsWay
<1>12. Doubtful'
  <2> SUFFICES ASSUME NEW u \in Session, is_open', xid_written'[u],
                      commit_error'[u] # "NONE"
               PROVE  /\ commit_error'[u] = "SYNC"
                      /\ \/ ToCommit(u)'
                         \/ pc'[u] \in {"enter_commit", "sync_error"}
    BY DEF Doubtful
  <2>1. u # t
    BY <1>4
  <2> QED BY <1>1, <1>2, <1>4, <1>5, <2>1 DEF DurInv, Doubtful
<1> QED BY <1>7, <1>8, <1>9, <1>10, <1>11, <1>12 DEF DurInv

(* A flush loop appends one transaction to the log, or marks its session. *)
Flushes(t, h) ==
  /\ server = "up" /\ server' = "up"
  /\ ToFlush(h) /\ pc[t] \in {"flush", "flush_rest"}
  /\ \E ok \in BOOLEAN : flush_thread_caches(h, ok)
  /\ UNCHANGED <<log_start, written, synced, is_open, prepared, commit_log,
                 redo, committed, boot, trx, acked, do_rotate>>
  /\ final_queue' = [final_queue EXCEPT ![t] = Append(@, h)]
  /\ m_queue'["SYNC"] = m_queue["SYNC"]
  /\ \A u \in Session :
       /\ ToFlush(u)' <=> ToFlush(u) /\ u # h
       /\ ToCommit(u) => ToCommit(u)'
       /\ pc'[u] # pc[u] =>
            u = t /\ pc'[t] \in {"flush", "flush_rest", "flushed"}

(* What is newly in the log has its XID counted. *)
LEMMA FlushesDur ==
  ASSUME IndInv, DurInv, LogHeld', NEW t \in Session, NEW h \in Session,
         Flushes(t, h)
  PROVE  DurInv'
<1> USE DEF Flushes
<1>0. /\ ~xid_written[h] /\ commit_error[h] = "NONE" /\ Tid(h) \in prepared
      /\ \A u \in Session : Tid(u)' = Tid(u)
      /\ Done' = Done /\ OnDisk' = OnDisk
      /\ commit_error \in [Session -> {"NONE", "FLUSH", "SYNC"}]
      /\ xid_written \in [Session -> BOOLEAN]
      /\ binlog \in Seq(Trx) /\ Tid(h) \in Trx
      /\ {log_start, synced, written, boot} \subseteq Nat
  <2>1. Tid(h) \in prepared /\ commit_error[h] = "NONE"
    BY DEF DurInv, PreparedOnWay
  <2>2. ~xid_written[h]
    BY DEF IndInv, FlushOnce, Unflushed, ToFlush
  <2> QED BY <2>1, <2>2, TidInjective DEF Tid, Done, OnDisk, IndInv, TypeOK,
             PipelineTypeOK, DataTypeOK
<1>1. \A v \in Session : pc'[v] # "rot_reopen"
  <2>1. LOCK_log = t
    BY DEF DurInv, LogHeld, LogOwner
  <2>2. \A v \in Session : pc[v] # "rot_reopen"
    BY <2>1 DEF DurInv, LogHeld, LogOwner
  <2> QED BY <2>2
<1>2. \/ /\ binlog' = Append(binlog, Tid(h)) /\ commit_error' = commit_error
         /\ xid_written' = [xid_written EXCEPT ![h] = TRUE]
      \/ /\ commit_error' = [commit_error EXCEPT ![h] = "FLUSH"]
         /\ binlog' = binlog /\ xid_written' = xid_written
  BY DEF flush_thread_caches
<1>3. /\ \A u \in Session : u # h => (xid_written'[u] <=> xid_written[u])
      /\ \A u \in Session : u # h => commit_error'[u] = commit_error[u]
      /\ xid_written'[h] => commit_error'[h] = "NONE"
  BY <1>0, <1>2
<1>4. CASE binlog' = binlog
  <2>1. Accounted' /\ BootCommitted' /\ OldFilesCommitted' /\ FileOrder'
    BY <1>0, <1>4 DEF DurInv, Accounted, BootCommitted, OldFilesCommitted,
                      OnDisk, FileOrder
  <2>2. OnItsWay'
    <3>1. \A u \in Session : xid_written[u] => xid_written'[u] /\ Tid(u)' = Tid(u)
      BY <1>0, <1>3
    <3>2. Done' = Done /\ log_start' = log_start /\ OnItsWay
      BY <1>0 DEF DurInv
    <3> QED BY <1>4, <3>1, <3>2 DEF OnItsWay
  <2> QED BY <1>0, <1>1, <1>3, <2>1, <2>2
       DEF DurInv, DownReset, PreparedOnWay, RotationWaits, Doubtful
<1>5. CASE binlog' # binlog
  <2>1. /\ binlog' = Append(binlog, Tid(h)) /\ xid_written'[h]
        /\ Len(binlog') = Len(binlog) + 1 /\ Len(binlog) \in Nat
        /\ \A i \in 1..Len(binlog) : binlog'[i] = binlog[i]
        /\ binlog'[Len(binlog) + 1] = Tid(h)
    <3> HIDE DEF Flushes
    <3>1. binlog' = Append(binlog, Tid(h)) /\ xid_written'[h]
      BY <1>0, <1>2, <1>5
    <3> QED BY <1>0, <3>1
  <2>2. Elems(binlog') = Elems(binlog) \cup {Tid(h)}
    <3>1. /\ Append(binlog, Tid(h)) = binlog \o <<Tid(h)>>
          /\ Elems(binlog \o <<Tid(h)>>) = Elems(binlog) \cup {Tid(h)}
      BY <1>0, ElemsAppend
    <3> QED BY <2>1, <3>1
  <2>3. Accounted'
    BY <1>0, <2>2 DEF DurInv, Accounted
  <2>4. FileOrder'
    BY <1>0, <2>1 DEF DurInv, FileOrder
  <2>5. /\ \A i \in 1..log_start : binlog'[i] = binlog[i]
        /\ \A i \in 1..boot : binlog'[i] = binlog[i]
    <3>1. log_start <= Len(binlog) /\ boot <= Len(binlog)
      BY <1>0, <2>1 DEF DurInv, FileOrder
    <3> QED BY <1>0, <2>1, <3>1
  <2>6. OldFilesCommitted' /\ BootCommitted'
    BY <1>0, <2>5 DEF DurInv, OldFilesCommitted, BootCommitted, OnDisk
  <2>7. OnItsWay'
    <3> SUFFICES ASSUME is_open, NEW i \in (log_start + 1)..Len(binlog')
                 PROVE  \/ binlog'[i] \in Done
                        \/ \E u \in Session :
                             xid_written'[u] /\ Tid(u) = binlog'[i]
      BY <1>0 DEF OnItsWay
    <3>1. CASE i = Len(binlog) + 1
      BY <2>1, <3>1
    <3>2. CASE i # Len(binlog) + 1
      <4>1. i \in (log_start + 1)..Len(binlog) /\ binlog'[i] = binlog[i]
        BY <1>0, <2>1, <3>2
      <4> QED BY <1>0, <1>3, <4>1 DEF DurInv, OnItsWay
    <3> QED BY <3>1, <3>2
  <2> QED BY <1>0, <1>1, <1>3, <2>3, <2>4, <2>6, <2>7
       DEF DurInv, DownReset, PreparedOnWay, RotationWaits, Doubtful
<1> QED BY <1>4, <1>5

(* The two loops of process_flush_stage_queue. *)
LEMMA FlushFlushes ==
  ASSUME IndInv, server = "up", NEW t \in Session, FlushOne(t) \/ FlushRest(t)
  PROVE  \E h \in Session : Flushes(t, h)
<1>0. TypeOK /\ PipeInv
  BY DEF IndInv
<1>1. CASE FlushOne(t)
  <2> DEFINE h == Head(m_queue["FLUSH"])
  <2>1. /\ h \in Session /\ ToFlush(h)
        /\ \A u \in Session : ToFlush(u)' <=> ToFlush(u) /\ u # h
        /\ \A u \in Session : ToCommit(u) => ToCommit(u)'
    BY <1>0, <1>1, FlushOneMoves
  <2>2. /\ server' = "up" /\ \E ok \in BOOLEAN : flush_thread_caches(h, ok)
        /\ UNCHANGED <<log_start, written, synced, is_open, prepared,
                       commit_log, redo, committed, boot, trx, acked,
                       do_rotate>>
        /\ final_queue' = [final_queue EXCEPT ![t] = Append(@, h)]
        /\ m_queue'["SYNC"] = m_queue["SYNC"]
    BY <1>0, <1>1 DEF FlushOne, restart, engine, TypeOK, PipelineTypeOK, Stage
  <2>3. /\ pc[t] = "flush"
        /\ \A u \in Session : pc'[u] # pc[u] => u = t /\ pc'[t] = "flushed"
    BY <1>0, <1>1 DEF FlushOne, Goto, TypeOK, PipelineTypeOK
  <2> HIDE DEF h
  <2>4. Flushes(t, h)
    BY <2>1, <2>2, <2>3 DEF Flushes
  <2> QED BY <2>1, <2>4
<1>2. CASE FlushRest(t)
  <2> DEFINE h == Head(todo[t])
  <2>1. /\ h \in Session /\ ToFlush(h)
        /\ \A u \in Session : ToFlush(u)' <=> ToFlush(u) /\ u # h
        /\ \A u \in Session : ToCommit(u) => ToCommit(u)'
    BY <1>0, <1>2, FlushRestMoves
  <2>2. /\ server' = "up" /\ \E ok \in BOOLEAN : flush_thread_caches(h, ok)
        /\ UNCHANGED <<log_start, written, synced, is_open, prepared,
                       commit_log, redo, committed, boot, trx, acked,
                       do_rotate>>
        /\ final_queue' = [final_queue EXCEPT ![t] = Append(@, h)]
        /\ m_queue'["SYNC"] = m_queue["SYNC"]
    BY <1>2 DEF FlushRest, restart, engine
  <2>3. /\ pc[t] = "flush_rest"
        /\ \A u \in Session : pc'[u] # pc[u] => u = t /\ pc'[t] = "flushed"
    BY <1>0, <1>2 DEF FlushRest, Goto, TypeOK, PipelineTypeOK
  <2> HIDE DEF h
  <2>4. Flushes(t, h)
    BY <2>1, <2>2, <2>3 DEF Flushes
  <2> QED BY <2>1, <2>4
<1> QED BY <1>1, <1>2

(* A leader that is past the flush loops is not to be flushed again. *)
LEMMA LeaderFlushed ==
  ASSUME IndInv, NEW t \in Session,
         pc[t] \in {"flushed", "sync", "sync_error"}
  PROVE  ~ToFlush(t)
<1>1. t \in Holds(t)
  BY DEF IndInv, PipeInv, OwnGroup, Holds
<1>2. t \notin Elems(m_queue["FLUSH"])
  BY <1>1 DEF IndInv, PipeInv, OnePlace, NotQueuedAndHeld, Stage
<1>3. \A v \in Session : t \in Elems(todo[v]) => v = t
  BY <1>1 DEF IndInv, PipeInv, OnePlace, NotHeldTwice, Holds
<1> QED BY <1>2, <1>3 DEF ToFlush

(* The leader writes out or syncs the file, or closes the log; a log that  *)
(* is closed may lose what had not left the IO_CACHE.                      *)
WritesFile(t, n, b) ==
  /\ server = "up" /\ server' = "up"
  /\ UNCHANGED <<log_start, prepared, commit_log, redo, committed, boot, trx,
                 xid_written, m_queue, todo>>
  /\ binlog' = Prefix(binlog, n)
  /\ synced <= synced' /\ synced' <= written' /\ written' <= n
  /\ is_open' => is_open /\ n = Len(binlog)
  /\ pc' = [pc EXCEPT ![t] = b]
  /\ \A u \in Session : u # t => commit_error'[u] = commit_error[u]
  /\ \/ commit_error'[t] = commit_error[t]
     \/ ~is_open'
     \/ commit_error'[t] = "SYNC" /\ b = "enter_commit"
  /\ pc[t] = "sync_error" => ~is_open'
  /\ \/ \A u \in Session : pc[u] \notin {"rot_wait", "rot_reopen"}
     \/ /\ is_open' = is_open /\ n = Len(binlog) /\ written' = written
        /\ synced' \in {synced, written}

(* Such a step keeps the invariant. *)
LEMMA WritesFileDur ==
  ASSUME IndInv, DurInv, LogHeld', NEW t \in Session,
         pc[t] \in {"flushed", "sync", "sync_error"},
         NEW n \in written..Len(binlog),
         NEW b \in {"enter_sync", "enter_commit", "signal"},
         WritesFile(t, n, b), (synced \in Nat /\ written \in Nat)'
  PROVE  DurInv'
<1> USE DEF WritesFile
<1>0. /\ binlog \in Seq(Trx) /\ pc \in [Session -> Label] /\ ~ToFlush(t)
      /\ {log_start, synced, written, boot} \subseteq Nat
      /\ boot <= log_start /\ log_start <= synced /\ synced <= written
      /\ written <= Len(binlog) /\ Len(binlog) \in Nat
  BY LeaderFlushed DEF IndInv, TypeOK, PipelineTypeOK, DataTypeOK, DurInv,
                       FileOrder
<1>1. /\ \A u \in Session : Tid(u)' = Tid(u)
      /\ Done' = Done /\ OnDisk' = OnDisk
      /\ \A u \in Session : u # t => pc'[u] = pc[u]
      /\ pc'[t] = b
  BY <1>0 DEF Tid, Done, OnDisk
<1>2. /\ \A u \in Session : ToFlush(u)' <=> ToFlush(u)
      /\ \A u \in Session : ToCommit(u)' <=> ToCommit(u)
  BY <1>1 DEF ToFlush, ToCommit
<1>3. /\ Len(binlog') = n /\ \A i \in 1..n : binlog'[i] = binlog[i]
      /\ Elems(binlog') \subseteq Elems(binlog)
      /\ n = Len(binlog) => binlog' = binlog
  <2>1. n \in 0..Len(binlog)
    BY <1>0
  <2> QED BY <1>0, <2>1, PrefixElems
<1>4. FileOrder'
  BY <1>0, <1>3 DEF FileOrder, DurInv
<1>5. PreparedOnWay'
  BY <1>0, <1>1, <1>2 DEF DurInv, PreparedOnWay
<1>6. Accounted'
  BY <1>1, <1>3 DEF DurInv, Accounted
<1>7. OldFilesCommitted' /\ BootCommitted'
  <2>1. (\A i \in 1..log_start : i \in 1..n) /\ (\A i \in 1..boot : i \in 1..n)
    BY <1>0
  <2> QED BY <1>1, <1>3, <2>1 DEF DurInv, OldFilesCommitted, BootCommitted,
                                 OnDisk
<1>8. RotationWaits'
  <2>1. CASE \A u \in Session : pc[u] \notin {"rot_wait", "rot_reopen"}
    BY <1>1, <2>1 DEF RotationWaits
  <2>2. CASE ~\A u \in Session : pc[u] \notin {"rot_wait", "rot_reopen"}
    BY <1>1, <1>3, <2>2 DEF DurInv, RotationWaits
  <2> QED BY <2>1, <2>2
<1>9. OnItsWay'
  BY <1>1, <1>3 DEF DurInv, OnItsWay
<1>10. Doubtful'
  <2> SUFFICES ASSUME NEW u \in Session, is_open', xid_written[u],
                      commit_error'[u] # "NONE"
               PROVE  /\ commit_error'[u] = "SYNC"
                      /\ \/ ToCommit(u)'
                         \/ pc'[u] \in {"enter_commit", "sync_error"}
    BY DEF Doubtful
  <2>1. CASE u # t
    BY <1>1, <1>2, <2>1 DEF DurInv, Doubtful
  <2>2. CASE u = t /\ commit_error'[t] = commit_error[t]
    BY <1>1, <1>2, <2>2 DEF DurInv, Doubtful
  <2>3. CASE u = t /\ commit_error'[t] # commit_error[t]
    BY <1>1, <2>3
  <2> QED BY <2>1, <2>2, <2>3
<1>11. DownReset'
  BY DEF DownReset
<1> QED BY <1>4, <1>5, <1>6, <1>7, <1>8, <1>9, <1>10, <1>11 DEF DurInv

(* flush_cache_to_file, the error after it, sync_binlog_file and the error *)
(* after that one.                                                         *)
LEMMA FileDur ==
  ASSUME IndInv, DurInv, LogHeld', DataTypeOK', server = "up",
         NEW t \in Session, ~Die,
         \/ FlushToFile(t) \/ HandleFlushError(t) \/ sync_binlog_file(t)
         \/ HandleSyncError(t)
  PROVE  DurInv'
<1>0. /\ binlog \in Seq(Trx) /\ Len(binlog) \in Nat
      /\ pc \in [Session -> Label]
      /\ {log_start, synced, written, boot} \subseteq Nat
      /\ synced <= written /\ written <= Len(binlog)
      /\ Prefix(binlog, Len(binlog)) = binlog
      /\ (synced \in Nat /\ written \in Nat)'
      /\ commit_error \in [Session -> {"NONE", "FLUSH", "SYNC"}]
  <2>1. binlog \in Seq(Trx) /\ Len(binlog) \in 0..Len(binlog)
    BY DEF IndInv, TypeOK, DataTypeOK
  <2>2. Prefix(binlog, Len(binlog)) = binlog
    BY <2>1, PrefixElems
  <2>3. /\ pc \in [Session -> Label]
        /\ commit_error \in [Session -> {"NONE", "FLUSH", "SYNC"}]
    BY DEF IndInv, TypeOK, PipelineTypeOK
  <2>4. /\ {log_start, synced, written, boot} \subseteq Nat
        /\ (synced \in Nat /\ written \in Nat)'
    BY DEF IndInv, TypeOK, DataTypeOK
  <2>5. synced <= written /\ written <= Len(binlog)
    BY DEF DurInv, FileOrder
  <2> QED BY <2>1, <2>2, <2>3, <2>4, <2>5
<1>00. /\ Len(binlog) \in written..Len(binlog)
       /\ NoOne \notin Session
  BY <1>0, SessionAssumption
<1>1. LOCK_log = NoOne \/ pc[t] = "flushed" =>
        \A u \in Session : pc[u] \notin {"rot_wait", "rot_reopen"}
  BY <1>00 DEF DurInv, LogHeld, LogOwner
<1> USE DEF WritesFile
<1>2. CASE FlushToFile(t)
  <2>1. WritesFile(t, Len(binlog), "enter_sync") /\ pc[t] = "flushed"
    BY <1>0, <1>1, <1>2 DEF FlushToFile, Goto, queues, flags, engine, restart
  <2> QED BY <1>0, <1>00, <2>1, WritesFileDur
<1>3. CASE HandleFlushError(t)
  <2>1. ASSUME NEW n \in written..Len(binlog), close_log(Prefix(binlog, n))
        PROVE  DurInv'
    <3>1. n \in 0..Len(binlog)
      BY <1>0
    <3>2. Len(Prefix(binlog, n)) = n
      BY <1>0, <3>1, PrefixElems
    <3>3. WritesFile(t, n, "enter_sync") /\ pc[t] = "flushed"
      BY <1>0, <1>1, <1>3, <2>1, <3>1, <3>2
         DEF HandleFlushError, close_log, Goto, queues, flags, engine, restart
    <3> QED BY <1>0, <3>3, WritesFileDur
  <2>2. close_log(binlog) => close_log(Prefix(binlog, Len(binlog)))
    BY <1>0
  <2> QED BY <1>3, <1>00, <2>1, <2>2 DEF HandleFlushError
<1>4. CASE sync_binlog_file(t)
  <2>1. WritesFile(t, Len(binlog), "enter_commit") /\ pc[t] = "sync"
    BY <1>0, <1>1, <1>4 DEF sync_binlog_file, Goto, queues, flags, engine,
                            restart
  <2> QED BY <1>0, <1>00, <2>1, WritesFileDur
<1>5. CASE HandleSyncError(t)
  <2>1. WritesFile(t, Len(binlog), "signal") /\ pc[t] = "sync_error"
    BY <1>0, <1>1, <1>5 DEF HandleSyncError, close_log, logfile, Goto, queues,
                            flags, engine, restart
  <2> QED BY <1>0, <1>00, <2>1, WritesFileDur
<1> QED BY <1>2, <1>3, <1>4, <1>5

(***************************************************************************)
(* Rotation.                                                               *)
(***************************************************************************)

(* Nobody is between its flush and its commit when m_prep_xids is zero. *)
LEMMA NoXid ==
  ASSUME IndInv, m_prep_xids = 0
  PROVE  \A u \in Session : ~xid_written[u]
<1> DEFINE W == {u \in Session : xid_written[u]}
<1>1. IsFiniteSet(W) /\ Cardinality(W) = 0
  <2>1. IsFiniteSet(W)
    BY SessionAssumption, FS_Subset
  <2> QED BY <2>1 DEF IndInv, XidCount
<1>2. W = {}
  BY <1>1, FS_EmptySet
<1> QED BY <1>2

(* The old file is closed when all it holds is committed; then the redo    *)
(* log is flushed.                                                         *)
LEMMA RotateCloseDur ==
  ASSUME IndInv, DurInv, LogHeld', server = "up", NEW t \in Session,
         RotateClose(t)
  PROVE  DurInv'
<1>1. /\ server' = "up" /\ pc[t] = "rot_wait" /\ m_prep_xids = 0
      /\ UNCHANGED <<binlog, log_start, is_open, prepared, commit_log,
                     committed, boot, trx, xid_written, commit_error, m_queue,
                     todo>>
      /\ redo' = Len(commit_log) /\ written' = Len(binlog)
      /\ synced' = Len(binlog)
  BY DEF RotateClose, no_prep_xids, ha_flush_logs, restart, flags, queues
<1>2. pc'[t] = "rot_reopen" /\ \A u \in Session : u # t => pc'[u] = pc[u]
  BY DEF RotateClose, Goto, IndInv, TypeOK, PipelineTypeOK
<1>3. /\ Done' = Done /\ OnDisk' = Done /\ OnDisk \subseteq Done
      /\ redo' <= Len(commit_log')
      /\ \A u \in Session : Tid(u)' = Tid(u)
  BY <1>1, RedoFlushed DEF IndInv, TypeOK, DurInv, Tid
<1>4. /\ \A u \in Session : ToFlush(u)' <=> ToFlush(u)
      /\ \A u \in Session : ToCommit(u)' <=> ToCommit(u)
  BY <1>1, <1>2 DEF ToFlush, ToCommit
<1>5. \A u \in Session : ~xid_written[u]
  BY <1>1, NoXid
<1>6. is_open
  BY <1>1 DEF DurInv, RotationWaits
<1>7. Elems(binlog) \subseteq Done
  <2> SUFFICES ASSUME NEW i \in 1..Len(binlog) PROVE binlog[i] \in Done
    BY DEF Elems
  <2>1. CASE i \in 1..log_start
    BY <1>3, <2>1 DEF DurInv, OldFilesCommitted, OnDisk
  <2>2. CASE i \notin 1..log_start
    <3>1. i \in (log_start + 1)..Len(binlog)
      BY <2>2 DEF IndInv, TypeOK, DataTypeOK
    <3> QED BY <1>1, <1>5, <1>6, <3>1 DEF DurInv, OnItsWay
  <2> QED BY <2>1, <2>2
<1>8. RotationWaits'
  BY <1>1, <1>2, <1>3, <1>5, <1>6, <1>7 DEF DurInv, RotationWaits
<1>9. FileOrder'
  BY <1>1, <1>3 DEF DurInv, FileOrder, IndInv, TypeOK, DataTypeOK
<1>10. PreparedOnWay' /\ Doubtful'
  BY <1>1, <1>2, <1>3, <1>4 DEF DurInv, PreparedOnWay, Doubtful
<1>11. Accounted' /\ BootCommitted' /\ DownReset' /\ OnItsWay'
  BY <1>1, <1>3 DEF DurInv, Accounted, BootCommitted, DownReset, OnItsWay
<1>12. OldFilesCommitted'
  <2>1. \A i \in 1..log_start : binlog[i] \in OnDisk'
    BY <1>3 DEF DurInv, OldFilesCommitted, OnDisk
  <2> QED BY <1>1, <2>1 DEF OldFilesCommitted, OnDisk
<1> QED BY <1>8, <1>9, <1>10, <1>11, <1>12 DEF DurInv

(* A new file is opened, or cannot be created and logging is off. *)
LEMMA RotateOpenDur ==
  ASSUME IndInv, DurInv, LogHeld', server = "up", NEW t \in Session, ~Die,
         RotateReopen(t) \/ RotateFails(t)
  PROVE  DurInv'
<1>1. /\ server' = "up" /\ pc[t] = "rot_reopen"
      /\ UNCHANGED <<binlog, written, synced, prepared, commit_log, redo,
                     committed, boot, trx, xid_written, commit_error, m_queue,
                     todo>>
      /\ log_start' \in {log_start, Len(binlog)}
      /\ is_open' => is_open
  BY DEF RotateReopen, RotateFails, restart, flags, queues, engine
<1>2. pc'[t] = "idle" /\ \A u \in Session : u # t => pc'[u] = pc[u]
  BY DEF RotateReopen, RotateFails, Return, Goto, IndInv, TypeOK,
         PipelineTypeOK
<1>3. /\ Done' = Done /\ OnDisk' = OnDisk
      /\ \A u \in Session : Tid(u)' = Tid(u)
  BY <1>1 DEF Done, OnDisk, Tid
<1>4. /\ \A u \in Session : ToFlush(u)' <=> ToFlush(u)
      /\ \A u \in Session : ToCommit(u)' <=> ToCommit(u)
  BY <1>1, <1>2 DEF ToFlush, ToCommit
<1>5. /\ synced = Len(binlog) /\ Elems(binlog) \subseteq OnDisk
      /\ \A u \in Session : ~xid_written[u]
  BY <1>1 DEF DurInv, RotationWaits
<1>6. RotationWaits'
  <2>1. LOCK_log = t
    BY <1>1 DEF DurInv, LogHeld, LogOwner
  <2>2. \A u \in Session : pc'[u] \notin {"rot_wait", "rot_reopen"}
    BY <1>2, <2>1 DEF DurInv, LogHeld, LogOwner
  <2> QED BY <2>2 DEF RotationWaits
<1>7. FileOrder'
  BY <1>1, <1>5 DEF DurInv, FileOrder, IndInv, TypeOK, DataTypeOK
<1>8. PreparedOnWay' /\ Doubtful'
  BY <1>1, <1>2, <1>3, <1>4, <1>5 DEF DurInv, PreparedOnWay, Doubtful
<1>9. Accounted' /\ BootCommitted' /\ DownReset'
  BY <1>1, <1>3 DEF DurInv, Accounted, BootCommitted, DownReset
<1>10. \A i \in 1..Len(binlog) : binlog[i] \in OnDisk
  BY <1>5 DEF Elems
<1>11. OldFilesCommitted'
  <2>1. log_start <= Len(binlog) /\ log_start \in Nat /\ Len(binlog) \in Nat
    BY DEF DurInv, FileOrder, IndInv, TypeOK, DataTypeOK
  <2>2. \A i \in 1..log_start' : i \in 1..Len(binlog)
    BY <1>1, <2>1
  <2> QED BY <1>1, <1>10, <2>2 DEF OldFilesCommitted, OnDisk
<1>12. OnItsWay'
  <2>1. OnDisk \subseteq Done
    BY OnDiskDone DEF IndInv, TypeOK, DurInv
  <2> DEFINE l == log_start'
  <2>2. l \in Nat /\ Len(binlog) \in Nat
    BY <1>1 DEF IndInv, TypeOK, DataTypeOK
  <2> HIDE DEF l
  <2>3. \A i \in (l + 1)..Len(binlog) : i \in 1..Len(binlog)
    BY <2>2
  <2> QED BY <1>1, <1>3, <1>10, <2>1, <2>3 DEF OnItsWay, l
<1> QED BY <1>6, <1>7, <1>8, <1>9, <1>11, <1>12 DEF DurInv

(***************************************************************************)
(* Crash and recovery.                                                     *)
(***************************************************************************)

(* What a dying server leaves: the log up to some n past the last sync,    *)
(* and every transaction either committed on disk or prepared.             *)
LEMMA DieDur ==
  ASSUME IndInv, DurInv, Die
  PROVE  DurInv'
<1>0. /\ binlog \in Seq(Trx) /\ Len(binlog) \in Nat
      /\ commit_log \in Seq(Trx) /\ Len(commit_log) \in Nat
      /\ {log_start, synced, written, boot, redo} \subseteq Nat
      /\ boot <= log_start /\ log_start <= synced /\ synced <= written
      /\ written <= Len(binlog) /\ redo <= Len(commit_log)
  BY DEF IndInv, TypeOK, DataTypeOK, DurInv, FileOrder
<1>1. /\ server' = "down" /\ Reset' /\ commit_log' = <<>> /\ redo' = 0
      /\ \A u \in Session : ~xid_written'[u]
      /\ UNCHANGED <<boot, log_start>>
  BY DEF Die, Reset
<1>2. PICK n \in synced..Len(binlog) :
        binlog' = Prefix(binlog, n) /\ written' = n /\ synced' = n
  BY DEF Die
<1>3. PICK k \in redo..Len(commit_log) :
        /\ committed' = committed \cup Elems(Prefix(commit_log, k))
        /\ prepared' = prepared \cup
                       Elems(SubSeq(commit_log, k + 1, Len(commit_log)))
  BY DEF Die
<1>4. n \in 0..Len(binlog) /\ k \in 0..Len(commit_log) /\ redo \in 0..k
      /\ redo \in 0..Len(commit_log)
  BY <1>0
<1>5. /\ Len(binlog') = n /\ \A i \in 1..n : binlog'[i] = binlog[i]
      /\ Elems(binlog') \subseteq Elems(binlog)
  BY <1>0, <1>2, <1>4, PrefixElems
<1>6. Done' = committed' /\ OnDisk' = committed'
  <2>1. Elems(commit_log') = {} /\ Prefix(commit_log', redo') = <<>>
    BY <1>1, ElemsEmpty DEF Prefix
  <2> QED BY <2>1, ElemsEmpty DEF Done, OnDisk
<1>7. OnDisk \subseteq committed'
  <2>1. Elems(Prefix(commit_log, redo)) = {commit_log[i] : i \in 1..redo}
    BY <1>0, <1>4, PrefixElems
  <2>2. Elems(Prefix(commit_log, k)) = {commit_log[i] : i \in 1..k}
    BY <1>0, <1>4, PrefixElems
  <2>3. \A i \in 1..redo : i \in 1..k
    BY <1>0, <1>4
  <2> QED BY <1>3, <2>1, <2>2, <2>3 DEF OnDisk
<1>8. Done \cup prepared \subseteq committed' \cup prepared'
  <2>1. Elems(commit_log) = Elems(Prefix(commit_log, k))
                       \cup Elems(SubSeq(commit_log, k + 1, Len(commit_log)))
    BY <1>0, <1>4, CutElems
  <2> QED BY <1>3, <2>1 DEF Done
<1>9. FileOrder' /\ DownReset' /\ BootCommitted' /\ OnItsWay'
  BY <1>0, <1>1, <1>2, <1>5, ElemsEmpty DEF FileOrder, DownReset, BootCommitted,
                                           OnItsWay
<1>10. PreparedOnWay' /\ RotationWaits' /\ Doubtful' /\ LogHeld'
  <2>1. /\ \A u \in Session : pc'[u] = "idle" /\ todo'[u] = <<>>
        /\ \A s \in Stage : m_queue'[s] = <<>>
    BY <1>1 DEF Reset
  <2>2. \A u \in Session : ~ToFlush(u)'
    BY <2>1, ElemsEmpty DEF ToFlush, Stage
  <2> QED BY <1>1, <2>1, <2>2 DEF PreparedOnWay, RotationWaits, Doubtful,
                                  LogHeld, LogOwner
<1>11. Accounted'
  BY <1>5, <1>6, <1>8 DEF DurInv, Accounted
<1>12. OldFilesCommitted'
  <2>1. \A i \in 1..log_start : i \in 1..n
    BY <1>0
  <2>2. \A i \in 1..log_start : binlog'[i] \in OnDisk'
    BY <1>5, <1>6, <1>7, <2>1 DEF DurInv, OldFilesCommitted, OnDisk
  <2> QED BY <1>1, <2>2 DEF OldFilesCommitted, OnDisk
<1> QED BY <1>9, <1>10, <1>11, <1>12 DEF DurInv

(* Recovery commits what the last file holds; the older files are          *)
(* committed already.                                                      *)
LEMMA RecoverDur ==
  ASSUME IndInv, DurInv, LogHeld', ha_recover
  PROVE  DurInv'
<1>0. /\ server = "down" /\ Reset /\ commit_log = <<>> /\ redo = 0
      /\ \A u \in Session : ~xid_written[u]
      /\ binlog \in Seq(Trx) /\ Len(binlog) \in Nat
      /\ {log_start, synced, written, boot} \subseteq Nat
      /\ boot <= log_start /\ log_start <= synced /\ synced <= written
      /\ written <= Len(binlog) /\ synced = Len(binlog)
  BY DEF ha_recover, DurInv, DownReset, FileOrder, IndInv, TypeOK, DataTypeOK
<1>1. /\ UNCHANGED <<pc, m_queue, final_queue, todo, pending, commit_error,
                     xid_written, binlog, written, synced, commit_log, redo,
                     trx>>
  BY DEF ha_recover, queues, flags
<1>2. /\ Reset' /\ \A u \in Session : pc'[u] = "idle" /\ todo'[u] = <<>>
      /\ \A s \in Stage : m_queue'[s] = <<>>
  BY <1>0, <1>1 DEF Reset
<1>3. \A u \in Session : ~ToFlush(u)'
  BY <1>2, ElemsEmpty DEF ToFlush, Stage
<1>4. PreparedOnWay' /\ RotationWaits' /\ Doubtful'
  BY <1>0, <1>1, <1>2, <1>3 DEF PreparedOnWay, RotationWaits, Doubtful
<1>5. /\ Done = committed /\ OnDisk = committed
      /\ Done' = committed' /\ OnDisk' = committed'
  <2>1. Elems(commit_log) = {} /\ Prefix(commit_log, redo) = <<>>
    BY <1>0, ElemsEmpty DEF Prefix
  <2> QED BY <1>1, <2>1, ElemsEmpty DEF Done, OnDisk
<1>6. \A i \in 1..log_start : binlog[i] \in committed
  BY <1>5 DEF DurInv, OldFilesCommitted, OnDisk
<1>7. CASE in_use \/ prepared = {}
  <2>1. /\ committed' = committed \cup (prepared \cap RecoveredXids)
        /\ prepared' = {} /\ log_start' = Len(binlog) /\ boot' = Len(binlog)
        /\ server' = "up"
    BY <1>7 DEF ha_recover
  <2>2. RecoveredXids = {binlog[i] : i \in (log_start + 1)..Len(binlog)}
    <3>1. log_start \in 0..Len(binlog) /\ Len(binlog) \in 0..Len(binlog)
      BY <1>0
    <3> QED BY <1>0, <3>1, CutElems DEF RecoveredXids
  <2>3. \A i \in 1..Len(binlog) : binlog[i] \in committed'
    <3> SUFFICES ASSUME NEW i \in 1..Len(binlog)
                 PROVE  binlog[i] \in committed'
      OBVIOUS
    <3>1. binlog[i] \in committed \cup prepared
      BY <1>5 DEF DurInv, Accounted, Elems
    <3>2. CASE i \in 1..log_start
      BY <1>6, <2>1, <3>2
    <3>3. CASE i \notin 1..log_start
      <4>1. i \in (log_start + 1)..Len(binlog)
        BY <1>0, <3>3
      <4> QED BY <2>1, <2>2, <3>1, <4>1
    <3> QED BY <3>2, <3>3
  <2>4. BootCommitted' /\ OldFilesCommitted' /\ Accounted'
    <3>1. BootCommitted' /\ OldFilesCommitted'
      BY <1>1, <1>5, <2>1, <2>3 DEF BootCommitted, OldFilesCommitted, OnDisk
    <3>2. Elems(binlog) \subseteq committed'
      BY <2>3 DEF Elems
    <3> QED BY <1>1, <1>5, <3>1, <3>2 DEF Accounted
  <2>5. OnItsWay' /\ DownReset'
    <3>1. (log_start' + 1)..Len(binlog) = {}
      BY <1>0, <2>1
    <3> QED BY <1>1, <2>1, <3>1 DEF OnItsWay, DownReset
  <2>6. FileOrder'
    BY <1>0, <1>1, <2>1, ElemsEmpty DEF FileOrder
  <2> QED BY <1>4, <2>4, <2>5, <2>6 DEF DurInv
<1>8. CASE ~(in_use \/ prepared = {})
  <2>1. /\ UNCHANGED <<committed, prepared, log_start, boot, is_open>>
        /\ server' = "refused"
    BY <1>8 DEF ha_recover
  <2>2. BootCommitted' /\ OnItsWay' /\ DownReset'
    BY <1>0, <1>1, <1>2, <2>1 DEF BootCommitted, OnItsWay, DownReset
  <2>3. Accounted' /\ FileOrder'
    BY <1>0, <1>1, <1>5, <2>1 DEF DurInv, Accounted, FileOrder
  <2>4. OldFilesCommitted'
    BY <1>1, <1>5, <1>6, <2>1 DEF OldFilesCommitted, OnDisk
  <2> QED BY <1>4, <2>2, <2>3, <2>4 DEF DurInv
<1> QED BY <1>7, <1>8

(***************************************************************************)
(* The theorems.                                                           *)
(***************************************************************************)

(* Every step keeps the invariant. *)
LEMMA DurStep ==
  ASSUME IndInv, DurInv, [Next]_vars, DataTypeOK'
  PROVE  DurInv'
<1>1. LogHeld'
  BY LogHeldStep DEF IndInv, DurInv
<1>2. CASE Die
  BY <1>2, DieDur
<1>3. ASSUME NEW t \in Session, Step(t), ~Die PROVE DurInv'
  <2>1. server = "up"
    BY <1>3 DEF Step
  <2>2. CASE OrderedCommit(t)
    <3>1. CASE CommitOne(t) \/ finish_commit(t)
      BY <1>1, <2>1, <3>1, CommitOneCommits, FinishCommits, CommitsOneDur
    <3>2. CASE FlushOne(t) \/ FlushRest(t)
      BY <1>1, <2>1, <3>2, FlushFlushes, FlushesDur
    <3> QED BY <1>1, <1>3, <2>1, <2>2, <3>1, <3>2, PipelineQuiet,
               EnrollFlushDur, FileDur DEF OrderedCommit
  <2>3. CASE Rotate(t) \/ Snapshot(t)
    BY <1>1, <1>3, <2>1, <2>3, OutsideQuiet, RotateCloseDur, RotateOpenDur
       DEF Rotate
  <2> QED BY <1>3, <2>2, <2>3 DEF Step
<1>4. ASSUME NEW t \in Session, Begin(t), server = "up" PROVE DurInv'
  BY <1>1, <1>4, PrepareDur, UnloggedDur, OutsideQuiet DEF Begin
<1>5. CASE SetSyncPeriod \/ SetOrderCommits \/ UNCHANGED vars
  BY <1>5, OptionsQuiet
<1>6. CASE ha_recover
  BY <1>1, <1>6, RecoverDur
<1> QED BY <1>2, <1>3, <1>4, <1>5, <1>6 DEF Next, Crash

(* The first start. *)
LEMMA InitDur == Init => DurInv
<1> SUFFICES ASSUME Init PROVE DurInv
  OBVIOUS
<1>1. /\ binlog = <<>> /\ Len(binlog) = 0 /\ commit_log = <<>>
      /\ Len(commit_log) = 0 /\ redo = 0 /\ server = "up"
      /\ log_start = 0 /\ synced = 0 /\ written = 0 /\ boot = 0
      /\ \A u \in Session : pc[u] = "idle" /\ ~xid_written[u]
                            /\ todo[u] = <<>>
      /\ m_queue["FLUSH"] = <<>>
  BY DEF Init, Stage
<1>2. LogHeld /\ DownReset /\ FileOrder /\ RotationWaits /\ Doubtful
  BY <1>1 DEF LogHeld, LogOwner, DownReset, FileOrder, RotationWaits, Doubtful
<1>3. PreparedOnWay
  BY <1>1, ElemsEmpty DEF PreparedOnWay, ToFlush
<1>4. Accounted /\ OldFilesCommitted /\ OnItsWay /\ BootCommitted
  BY <1>1, ElemsEmpty DEF Accounted, OldFilesCommitted, OnItsWay,
                          BootCommitted
<1> QED BY <1>2, <1>3, <1>4 DEF DurInv

(* The invariant of log and engine, for every option, error and crash:     *)
(* with the pipeline's IndInv it holds in every state.                     *)
THEOREM Durability == Spec => [](IndInv /\ DurInv)
<1>1. Init => IndInv /\ DurInv
  BY InitInv, InitDur
<1>2. IndInv /\ DurInv /\ IndInv' /\ [Next]_vars => DurInv'
  BY DurStep DEF IndInv, TypeOK
<1> QED BY <1>1, <1>2, Invariance, PTL DEF Spec

(* Rotation leaves nothing to recover behind: a transaction in an older    *)
(* log file is committed in the engine, on disk, whatever errors and       *)
(* crashes came before.                                                    *)
THEOREM OldFilesAreCommitted == Spec => []OldFilesCommitted
<1>1. DurInv => OldFilesCommitted
  BY DEF DurInv
<1> QED BY <1>1, Durability, PTL

(* After recovery the engine has committed every transaction of the log.   *)
THEOREM LoggedRecovered == Spec => []LoggedIsRecovered
<1>1. IndInv /\ DurInv => LoggedIsRecovered
  <2> SUFFICES ASSUME IndInv, DurInv, server = "up"
               PROVE  Elems(Prefix(binlog, boot)) \subseteq committed
    BY DEF LoggedIsRecovered
  <2>1. binlog \in Seq(Trx) /\ boot \in 0..Len(binlog)
    BY DEF IndInv, TypeOK, DataTypeOK, DurInv, FileOrder
  <2>2. Elems(Prefix(binlog, boot)) = {binlog[i] : i \in 1..boot}
    BY <2>1, PrefixElems
  <2> QED BY <2>2 DEF DurInv, BootCommitted
<1> QED BY <1>1, Durability, PTL

(***************************************************************************)
(* A server that refuses to start.                                         *)
(***************************************************************************)

(* Without I/O errors every cache is written and every sync succeeds. *)
LEMMA ErrorFreeStep ==
  ASSUME TypeOK, ErrorFree, [Next]_vars
  PROVE  ErrorFree'
<1> SUFFICES ASSUME ~IoErrors PROVE ErrorFree'
  BY DEF ErrorFree
<1> USE DEF ErrorFree, TypeOK, PipelineTypeOK, Goto, flags, locals
<1>0. CASE Die
  BY <1>0 DEF Die
<1>1. ASSUME NEW t \in Session, OrderedCommit(t), ~Die PROVE ErrorFree'
  <2>1. CASE EnrollFlush(t) \/ LockLog(t) \/ FetchRest(t) \/ EnrollSync(t)
             \/ LockSync(t) \/ LockCommit(t)
    BY <2>1 DEF EnrollFlush, LockLog, FetchRest, EnrollSync, LockSync,
                LockCommit, enroll_for
  <2>2. CASE FlushOne(t)
    BY <2>2 DEF FlushOne, flush_thread_caches, note_result
  <2>3. CASE FlushRest(t)
    BY <2>3 DEF FlushRest, flush_thread_caches, note_result
  <2>4. CASE FlushToFile(t) \/ HandleFlushError(t)
    BY <1>1, <2>4 DEF FlushToFile, HandleFlushError
  <2>5. CASE sync_binlog_file(t)
    BY <2>5 DEF sync_binlog_file
  <2>6. CASE EnterCommit(t) \/ CommitOne(t)
    BY <2>6 DEF EnterCommit, CommitOne, enroll_for, SyncError
  <2>7. CASE HandleSyncError(t) \/ signal_done(t) \/ finish_commit(t)
    BY <1>1, <2>7 DEF HandleSyncError, signal_done, finish_commit
  <2> QED BY <1>1, <2>1, <2>2, <2>3, <2>4, <2>5, <2>6, <2>7 DEF OrderedCommit
<1>2. ASSUME NEW t \in Session, Rotate(t) \/ Snapshot(t), ~Die
      PROVE  ErrorFree'
  <2>1. CASE Rotate(t)
    BY <1>2, <2>1 DEF Rotate, RotateLock, RotateClose, RotateReopen,
                      RotateFails, Return
  <2>2. CASE Snapshot(t)
    BY <2>2 DEF Snapshot, xlock, xlock_commits, xunlock
  <2> QED BY <1>2, <2>1, <2>2
<1>3. ASSUME NEW t \in Session, Begin(t) PROVE ErrorFree'
  BY <1>3 DEF Begin, prepare, CommitUnlogged, FlushLogs, StartSnapshot
<1>4. CASE SetSyncPeriod \/ SetOrderCommits \/ ha_recover \/ UNCHANGED vars
  BY <1>4 DEF SetSyncPeriod, SetOrderCommits, ha_recover, vars
<1> QED BY <1>0, <1>1, <1>2, <1>3, <1>4 DEF Next, Step, Crash

(* The steps that close the log are those the server dies in. *)
LEMMA NeverCloses ==
  ASSUME ErrorFree, KeepsLog, ~Die, NEW t \in Session
  PROVE  ~HandleFlushError(t) /\ ~HandleSyncError(t) /\ ~RotateFails(t)
BY OptionAssumption
   DEF ErrorFree, KeepsLog, HandleFlushError, HandleSyncError, RotateFails

(* The in-use flag follows the rotation. *)
LEMMA LogKeptStep ==
  ASSUME IndInv, DurInv, ErrorFree, LogKept, [Next]_vars
  PROVE  LogKept'
<1> SUFFICES ASSUME KeepsLog PROVE LogKept'
  BY DEF LogKept
<1> USE DEF LogKept
<1>0. pc \in [Session -> Label]
  BY DEF IndInv, TypeOK, PipelineTypeOK
<1>1. ASSUME Die, server = "up" PROVE LogKept'
  <2>1. server' = "down" /\ UNCHANGED <<is_open, in_use>>
    BY <1>1 DEF Die
  <2>2. ASSUME NEW t \in Session, pc[t] = "rot_reopen"
        PROVE  Elems(binlog') \subseteq committed'
    <3>0. /\ binlog \in Seq(Trx) /\ commit_log \in Seq(Trx)
          /\ {log_start, synced, redo} \subseteq Nat
          /\ redo <= Len(commit_log) /\ synced <= Len(binlog)
      BY DEF IndInv, TypeOK, DataTypeOK, DurInv, FileOrder
    <3>1. Elems(binlog) \subseteq OnDisk
      BY <2>2 DEF DurInv, RotationWaits
    <3>2. PICK n \in synced..Len(binlog) : binlog' = Prefix(binlog, n)
      BY <1>1 DEF Die
    <3>3. PICK k \in redo..Len(commit_log) :
            committed' = committed \cup Elems(Prefix(commit_log, k))
      BY <1>1 DEF Die
    <3>4. /\ n \in 0..Len(binlog) /\ k \in 0..Len(commit_log)
          /\ redo \in 0..Len(commit_log)
      BY <3>0
    <3>5. Elems(binlog') \subseteq Elems(binlog)
      BY <3>0, <3>2, <3>4, PrefixElems
    <3>6. Elems(Prefix(commit_log, redo)) = {commit_log[i] : i \in 1..redo}
      BY <3>0, <3>4, PrefixElems
    <3>7. Elems(Prefix(commit_log, k)) = {commit_log[i] : i \in 1..k}
      BY <3>0, <3>4, PrefixElems
    <3>8. \A i \in 1..redo : i \in 1..k
      BY <3>0, <3>4
    <3> QED BY <3>1, <3>3, <3>5, <3>6, <3>7, <3>8 DEF OnDisk
  <2> QED BY <1>1, <2>1, <2>2
<1>2. ASSUME NEW t \in Session, Step(t), ~Die PROVE LogKept'
  <2>0. ~HandleFlushError(t) /\ ~HandleSyncError(t) /\ ~RotateFails(t)
    BY <1>2, NeverCloses
  <2>1. CASE OrderedCommit(t)
    <3>1. /\ UNCHANGED <<server, is_open, in_use>>
          /\ pc[t] # "rot_reopen"
          /\ \A u \in Session : u # t => pc'[u] = pc[u]
      BY <1>0, <2>0, <2>1 DEF OrderedCommit, EnrollFlush, LockLog, FlushOne,
         FetchRest, FlushRest, FlushToFile, EnrollSync, LockSync,
         sync_binlog_file, EnterCommit, LockCommit, CommitOne, signal_done,
         finish_commit, enroll_for, Goto, restart, logfile
    <3>2. server = "up"
      BY <1>2 DEF Step
    <3> QED BY <3>1, <3>2
  <2>2. CASE RotateClose(t)
    <3>1. /\ UNCHANGED <<server, is_open>> /\ pc'[t] = "rot_reopen"
      BY <1>0, <2>2 DEF RotateClose, Goto, restart
    <3> QED BY <1>2, <3>1 DEF Step
  <2>3. CASE RotateReopen(t)
    <3>1. UNCHANGED <<server, is_open>> /\ in_use' = TRUE
      BY <2>3 DEF RotateReopen, restart
    <3> QED BY <1>2, <3>1 DEF Step
  <2>4. CASE RotateLock(t) \/ Snapshot(t)
    <3>1. /\ UNCHANGED <<server, is_open, in_use>>
          /\ pc[t] # "rot_reopen"
          /\ \A u \in Session : u # t => pc'[u] = pc[u]
      BY <1>0, <2>4 DEF RotateLock, Return, Snapshot, xlock, xlock_commits,
         xunlock, Goto, restart, logfile
    <3>2. server = "up"
      BY <1>2 DEF Step
    <3> QED BY <3>1, <3>2
  <2> QED BY <1>2, <2>0, <2>1, <2>2, <2>3, <2>4 DEF Step, Rotate
<1>3. ASSUME NEW t \in Session, Begin(t), server = "up" PROVE LogKept'
  <2>1. /\ UNCHANGED <<server, is_open, in_use>>
        /\ pc[t] # "rot_reopen"
        /\ \A u \in Session : u # t => pc'[u] = pc[u]
    BY <1>0, <1>3 DEF Begin, prepare, CommitUnlogged, FlushLogs, StartSnapshot,
                      Goto, restart, logfile
  <2> QED BY <1>3, <2>1
<1>4. CASE SetSyncPeriod \/ SetOrderCommits \/ UNCHANGED vars
  BY <1>4 DEF SetSyncPeriod, SetOrderCommits, vars, restart, logfile
<1>5. CASE ha_recover
  BY <1>5 DEF ha_recover
<1> QED BY <1>1, <1>2, <1>3, <1>4, <1>5 DEF Next, Step, Crash

(* The invariant of a server that keeps its log. *)
LEMMA KeptInvariant == Spec => [](IndInv /\ DurInv /\ ErrorFree /\ LogKept)
<1>1. Init => ErrorFree /\ LogKept
  BY DEF Init, ErrorFree, LogKept
<1>2. IndInv /\ DurInv /\ ErrorFree /\ LogKept /\ [Next]_vars
        => ErrorFree' /\ LogKept'
  BY ErrorFreeStep, LogKeptStep DEF IndInv
<1> QED BY <1>1, <1>2, Durability, PTL DEF Spec

(* Nothing is lost when the server refuses to start, as long as errors     *)
(* abort it or do not happen: a server killed between two log files leaves *)
(* a log whose every transaction is committed on disk.                     *)
THEOREM RefusedIsSafe ==
  ASSUME KeepsLog
  PROVE  Spec => []RefusedLosesNothing
<1>1. LogKept => RefusedLosesNothing
  BY DEF LogKept, RefusedLosesNothing
<1> QED BY <1>1, KeptInvariant, PTL

(***************************************************************************)
(* The order of the log and the order of the engine, for any number of     *)
(* sessions.                                                               *)
(*                                                                         *)
(* While binlog_order_commits does not change, nobody who passed the       *)
(* COMMIT stage is left to be committed by finish_commit (Settled), so     *)
(* that the one lock a snapshot takes for the order mode blocks every      *)
(* commit.  With ordered commits and without I/O errors the sessions       *)
(* between their flush and their commit form one line through the stages   *)
(* (Line), which new ones join at the end and which is committed from the  *)
(* front: it is, at any time, what the log is ahead of the engine.         *)
(***************************************************************************)

(* The option binlog_order_commits keeps its value. *)
OrderFixed == ~Dynamic \/ \E b \in BOOLEAN : OrderModes = {b}

(* No transaction is prepared before its statement. *)
OldPrepared == server = "up" => \A x \in prepared : x[2] <= trx[x[1]]

(* Who holds the locks of the COMMIT stage and of the snapshot, and in     *)
(* which order mode.                                                       *)
CommitHeld ==
  \A t \in Session :
    /\ pc[t] = "commit" => LOCK_commit = t
    /\ pc[t] \in {"lock_commit", "commit", "snap_commit"} => order_commits
    /\ pc[t] = "snap_rw" => ~order_commits
    /\ pc[t] = "snapshot" =>
         IF order_commits THEN LOCK_commit = t ELSE LOCK_consistent_snapshot = t

(* With ordered commits only the COMMIT stage commits: who is prepared has *)
(* still to pass it, or the server is about to abort.                      *)
Settled ==
  server = "up" /\ order_commits =>
    /\ \A u \in Session : Tid(u) \in prepared => pc[u] = "prepared" \/ pending[u]
    /\ \A t \in Session : \A u \in Elems(final_queue[t]) :
         Tid(u) \in prepared =>
           /\ pc[t] = "commit" => u \in Elems(todo[t])
           /\ pc[t] # "signal"
           /\ pc[t] = "sync_error" => ErrorAction = "ABORT_SERVER"

ModeInv == OldPrepared /\ CommitHeld /\ Settled

(* Ordered commits, and every cache is written. *)
Ordered == OrderModes = {TRUE} /\ ~IoErrors

(* Who syncs holds LOCK_sync until its group is in the COMMIT queue. *)
Syncing == {"sync", "enter_commit"}
SyncHeld == \A t \in Session : pc[t] \in Syncing => LOCK_sync = t

(* The sessions between their flush and their commit, the next one first. *)
Group(f, owner, where) ==
  IF owner \in Session /\ pc[owner] \in where THEN f[owner] ELSE <<>>
Flushing == {"flush", "flush_rest", "flushed", "enter_sync"}
InCommit == Group(todo, LOCK_commit, {"commit"})
InSync == Group(final_queue, LOCK_sync, Syncing)
InFlush == Group(final_queue, LOCK_log, Flushing)
Behind(p, q) == p \o q
Joined(a, b, c, d, e) ==
  Behind(Behind(Behind(Behind(a, b), c), d), e)
Line == Joined(InCommit, m_queue["COMMIT"], InSync, m_queue["SYNC"], InFlush)

(* The line is what the log is ahead of the engine. *)
LineLogged ==
  server = "up" =>
    /\ Len(binlog) = boot + Len(commit_log) + Len(Line)
    /\ \A i \in 1..Len(commit_log) : commit_log[i] = binlog[boot + i]
    /\ \A i \in 1..Len(Line) :
         binlog[boot + Len(commit_log) + i] = Tid(Line[i])

(* Nobody stands in line twice, and who does will be committed. *)
LinePrepared ==
  server = "up" =>
    /\ Distinct(Line)
    /\ \A u \in Elems(Line) : Tid(u) \in prepared /\ xid_written[u]

LineInv == SyncHeld /\ LineLogged /\ LinePrepared

(***************************************************************************)
(* The order mode and the locks that go with it.                           *)
(***************************************************************************)

(* SET GLOBAL binlog_order_commits does nothing. *)
LEMMA OrderKept ==
  ASSUME TypeOK, OrderFixed, [Next]_vars
  PROVE  order_commits' = order_commits
<1>1. CASE Die
  BY <1>1 DEF Die, options
<1>2. ASSUME NEW t \in Session, Step(t) \/ Begin(t), ~Die
      PROVE  order_commits' = order_commits
  <2>1. CASE Step(t)
    BY <1>2, <2>1 DEF Step, OrderedCommit, Rotate, Snapshot, EnrollFlush,
       LockLog, FlushOne, FetchRest, FlushRest, FlushToFile, HandleFlushError,
       EnrollSync, LockSync, sync_binlog_file, EnterCommit, LockCommit,
       CommitOne, HandleSyncError, signal_done, finish_commit, RotateLock,
       RotateClose, RotateReopen, RotateFails, xlock, xlock_commits, xunlock,
       options
  <2>2. CASE Begin(t)
    BY <2>2 DEF Begin, prepare, CommitUnlogged, FlushLogs, StartSnapshot,
       options
  <2> QED BY <1>2, <2>1, <2>2
<1>3. CASE SetOrderCommits
  BY <1>3, OptionAssumption DEF SetOrderCommits, OrderFixed, TypeOK,
     PipelineTypeOK
<1>4. CASE SetSyncPeriod \/ ha_recover \/ UNCHANGED vars
  BY <1>4 DEF SetSyncPeriod, ha_recover, vars, options
<1> QED BY <1>1, <1>2, <1>3, <1>4 DEF Next, Crash

(* LOCK_commit and LOCK_consistent_snapshot are taken when they are free   *)
(* and released by who holds them.                                         *)
LEMMA CommitHeldStep ==
  ASSUME TypeOK, CommitHeld, order_commits' = order_commits, [Next]_vars
  PROVE  CommitHeld'
<1> USE SessionAssumption DEF CommitHeld, TypeOK, PipelineTypeOK, Owner, Goto,
        locks, queues, Unlock
<1>0. CASE Die
  BY <1>0 DEF Die
<1>1. ASSUME NEW t \in Session, OrderedCommit(t), ~Die PROVE CommitHeld'
  <2>1. CASE LockCommit(t)
    BY <2>1 DEF LockCommit
  <2>2. CASE CommitOne(t)
    <3>1. /\ LOCK_consistent_snapshot' = LOCK_consistent_snapshot
          /\ \/ UNCHANGED <<pc, LOCK_commit>>
             \/ /\ LOCK_commit' = NoOne
                /\ \E b \in {"sync_error", "signal"} : pc' = [pc EXCEPT ![t] = b]
          /\ pc[t] = "commit"
      BY <2>2 DEF CommitOne
    <3> QED BY <3>1
  <2>3. CASE EnterCommit(t)
    <3>1. /\ UNCHANGED <<LOCK_commit, LOCK_consistent_snapshot>>
          /\ pc[t] = "enter_commit"
          /\ \E b \in {"lock_commit", "follower", "sync_error", "signal"} :
               /\ pc' = [pc EXCEPT ![t] = b]
               /\ b = "lock_commit" => order_commits
      BY <2>3 DEF EnterCommit, enroll_for
    <3> QED BY <3>1
  <2>4. CASE ~LockCommit(t) /\ ~CommitOne(t) /\ ~EnterCommit(t)
    <3>1. /\ UNCHANGED <<LOCK_commit, LOCK_consistent_snapshot>>
          /\ \E b \in Label \ {"lock_commit", "commit", "snap_commit", "snap_rw",
                               "snapshot"} : pc' = [pc EXCEPT ![t] = b]
      <4>1. CASE EnrollFlush(t)
        BY <4>1 DEF EnrollFlush, enroll_for, Label
      <4>2. CASE LockLog(t)
        BY <4>2 DEF LockLog, Label
      <4>3. CASE FlushOne(t) \/ FetchRest(t) \/ FlushRest(t) \/ FlushToFile(t)
        BY <4>3 DEF FlushOne, FetchRest, FlushRest, FlushToFile, Label
      <4>4. CASE HandleFlushError(t)
        BY <1>1, <4>4 DEF HandleFlushError, Label
      <4>5. CASE EnrollSync(t)
        BY <4>5 DEF EnrollSync, enroll_for, Label
      <4>6. CASE LockSync(t) \/ sync_binlog_file(t)
        BY <4>6 DEF LockSync, sync_binlog_file, Label
      <4>7. CASE HandleSyncError(t)
        BY <1>1, <4>7 DEF HandleSyncError, Label
      <4>8. CASE signal_done(t)
        BY <4>8 DEF signal_done, Label
      <4>9. CASE finish_commit(t)
        BY <4>9 DEF finish_commit, Label
      <4> QED BY <1>1, <2>4, <4>1, <4>2, <4>3, <4>4, <4>5, <4>6, <4>7, <4>8,
                 <4>9 DEF OrderedCommit
    <3> QED BY <3>1
  <2> QED BY <2>1, <2>2, <2>3, <2>4
<1>2. ASSUME NEW t \in Session, Rotate(t), ~Die PROVE CommitHeld'
  BY <1>2 DEF Rotate, RotateLock, RotateClose, RotateReopen, RotateFails, Return
<1>3. ASSUME NEW t \in Session, Snapshot(t) PROVE CommitHeld'
  <2>1. CASE xlock(t)
    BY <2>1 DEF xlock
  <2>2. CASE xlock_commits(t)
    BY <2>2 DEF xlock_commits, block_commit_stage
  <2>3. CASE xunlock(t)
    BY <2>3 DEF xunlock
  <2> QED BY <1>3, <2>1, <2>2, <2>3 DEF Snapshot
<1>4. ASSUME NEW t \in Session, Begin(t) PROVE CommitHeld'
  BY <1>4 DEF Begin, prepare, CommitUnlogged, FlushLogs, StartSnapshot
<1>5. CASE SetSyncPeriod \/ SetOrderCommits \/ ha_recover \/ UNCHANGED vars
  BY <1>5 DEF SetSyncPeriod, SetOrderCommits, ha_recover, vars
<1> QED BY <1>0, <1>1, <1>2, <1>3, <1>4, <1>5 DEF Next, Step, Crash

(***************************************************************************)
(* Who is prepared has still to pass the COMMIT stage.                     *)
(***************************************************************************)

(* A step of t that commits nobody but may let transactions go. *)
LEMMA SettledKept ==
  ASSUME Settled, server = "up", order_commits' = order_commits,
         NEW t \in Session, prepared' \subseteq prepared,
         \A u \in Session : Tid(u)' \in prepared' => Tid(u)' = Tid(u),
         \A u \in Session : u # t =>
           /\ pc'[u] = pc[u] /\ final_queue'[u] = final_queue[u]
           /\ todo'[u] = todo[u],
         order_commits => \A u \in Session :
           Tid(u) \in prepared' /\ (pc[u] = "prepared" \/ pending[u])
             => pc'[u] = "prepared" \/ pending'[u],
         order_commits => \A u \in Elems(final_queue'[t]) :
           Tid(u) \in prepared' =>
             /\ pc'[t] = "commit" => u \in Elems(todo'[t])
             /\ pc'[t] # "signal"
             /\ pc'[t] = "sync_error" => ErrorAction = "ABORT_SERVER",
         final_queue' \in [Session -> Seq(Session)]
  PROVE  Settled'
<1> SUFFICES ASSUME order_commits
             PROVE  /\ \A u \in Session : Tid(u)' \in prepared' =>
                         pc'[u] = "prepared" \/ pending'[u]
                    /\ \A v \in Session : \A u \in Elems(final_queue'[v]) :
                         Tid(u)' \in prepared' =>
                           /\ pc'[v] = "commit" => u \in Elems(todo'[v])
                           /\ pc'[v] # "signal"
                           /\ pc'[v] = "sync_error"
                                => ErrorAction = "ABORT_SERVER"
  BY DEF Settled, Elems
<1>1. \A u \in Session : Tid(u)' \in prepared' =>
        pc'[u] = "prepared" \/ pending'[u]
  BY DEF Settled
<1>2. ASSUME NEW v \in Session, NEW u \in Elems(final_queue'[v]),
             Tid(u)' \in prepared'
      PROVE  /\ pc'[v] = "commit" => u \in Elems(todo'[v])
             /\ pc'[v] # "signal"
             /\ pc'[v] = "sync_error" => ErrorAction = "ABORT_SERVER"
  <2>1. u \in Session
    BY ElemsType
  <2>2. Tid(u) \in prepared'
    BY <1>2, <2>1
  <2>3. CASE v = t
    BY <2>2, <2>3
  <2>4. CASE v # t
    BY <2>2, <2>4 DEF Settled
  <2> QED BY <2>3, <2>4
<1> QED BY <1>1, <1>2

(* One session after the other leaves the COMMIT loop committed. *)
LEMMA CommitOneSettled ==
  ASSUME IndInv, Settled, server = "up", order_commits' = order_commits,
         NEW t \in Session, CommitOne(t), TypeOK'
  PROVE  Settled'
<1> DEFINE h == Head(todo[t])
           q == todo[t]
<1>1. /\ pc[t] = "commit" /\ UNCHANGED <<final_queue, pending, trx>>
      /\ \A u \in Session : u # t => pc'[u] = pc[u] /\ todo'[u] = todo[u]
      /\ q \in Seq(Session) /\ todo'[t] = Tail(q)
      /\ ~(Len(q) > 1) \/ pc'[t] = "commit"
      /\ final_queue' \in [Session -> Seq(Session)]
  BY DEF CommitOne, Goto, IndInv, TypeOK, PipelineTypeOK
<1>2. prepared' \subseteq prepared /\ Tid(h) \notin prepared'
  BY DEF CommitOne, commit_low, ha_commit_low, engine
<1>3. q # <<>>
  BY <1>1 DEF IndInv, PipeInv, LoopState
<1> HIDE DEF q
<1>4. /\ Elems(q) = {Head(q)} \cup Elems(Tail(q))
      /\ Len(q) > 1 <=> Tail(q) # <<>>
  BY <1>1, <1>3, ElemsHeadTail
<1>5. ASSUME order_commits, NEW u \in Elems(final_queue[t]), Tid(u) \in prepared'
      PROVE  u \in Elems(todo'[t]) /\ Len(q) > 1
  <2>1. u \in Elems(q)
    BY <1>1, <1>2, <1>5 DEF Settled, q
  <2>2. u # h
    BY <1>2, <1>5
  <2>3. u \in Elems(Tail(q))
    BY <1>4, <2>1, <2>2 DEF q
  <2> QED BY <1>1, <1>4, <2>3, ElemsEmpty
<1>6. \A u : Tid(u)' = Tid(u)
  BY <1>1 DEF Tid
<1>7. \A u \in Session : pc[u] = "prepared" \/ pending[u] =>
        pc'[u] = "prepared" \/ pending'[u]
  BY <1>1
<1> HIDE DEF h
<1> QED BY <1>1, <1>2, <1>5, <1>6, <1>7, SettledKept

(* The other steps of ordered_commit. *)
LEMMA OrderedCommitSettled ==
  ASSUME IndInv, Settled, server = "up", order_commits' = order_commits,
         NEW t \in Session, OrderedCommit(t), ~Die, TypeOK'
  PROVE  Settled'
<1> DEFINE Rest == pc'[t] \notin {"commit", "signal", "sync_error"}
           Same == \A u \in Session : u # t =>
                     /\ pc'[u] = pc[u] /\ final_queue'[u] = final_queue[u]
                     /\ todo'[u] = todo[u]
<1>0. /\ pc \in [Session -> Label] /\ final_queue \in [Session -> Seq(Session)]
      /\ todo \in [Session -> Seq(Session)] /\ pending \in [Session -> BOOLEAN]
      /\ final_queue' \in [Session -> Seq(Session)]
  BY DEF IndInv, TypeOK, PipelineTypeOK
<1>1. CASE \/ EnrollFlush(t) \/ LockLog(t) \/ FlushOne(t) \/ FetchRest(t)
           \/ FlushRest(t) \/ FlushToFile(t) \/ HandleFlushError(t)
           \/ EnrollSync(t) \/ LockSync(t) \/ sync_binlog_file(t)
  <2>1. \/ EnrollFlush(t)
        \/ Same /\ Rest /\ UNCHANGED <<prepared, trx>> /\ pc[t] # "prepared"
    BY <1>0, <1>1 DEF LockLog, FlushOne, FetchRest, FlushRest, FlushToFile,
       HandleFlushError, EnrollSync, LockSync, sync_binlog_file, Goto, queues,
       engine, enroll_for, fetch_queue_for
  <2>2. EnrollFlush(t) => /\ Same /\ Rest /\ UNCHANGED <<prepared, trx>>
                          /\ pending'[t]
    BY <1>0 DEF EnrollFlush, Goto, engine, enroll_for
  <2>3. \A u \in Session : u # t \/ ~EnrollFlush(t) => pending'[u] = pending[u]
    BY <1>0, <1>1 DEF EnrollFlush, LockLog, FlushOne, FetchRest, FlushRest,
       FlushToFile, HandleFlushError, EnrollSync, LockSync, sync_binlog_file,
       flags
  <2>4. \A u : Tid(u)' = Tid(u)
    BY <2>1, <2>2 DEF Tid
  <2>5. \A u \in Session : pc[u] = "prepared" \/ pending[u] =>
          pc'[u] = "prepared" \/ pending'[u]
    BY <2>1, <2>2, <2>3
  <2> QED BY <1>0, <2>1, <2>2, <2>4, <2>5, SettledKept
<1>2. CASE EnterCommit(t)
  <2>1. /\ Same /\ UNCHANGED <<prepared, trx, pending>> /\ pc[t] = "enter_commit"
        /\ order_commits =>
             \/ final_queue'[t] = <<>>
             \/ pc'[t] = "sync_error" /\ ErrorAction = "ABORT_SERVER"
    BY <1>0, <1>2 DEF EnterCommit, Goto, enroll_for, engine, flags
  <2>2. \A u : Tid(u)' = Tid(u)
    BY <2>1 DEF Tid
  <2>3. \A u \in Session : pc[u] = "prepared" \/ pending[u] =>
          pc'[u] = "prepared" \/ pending'[u]
    BY <2>1
  <2> QED BY <1>0, <2>1, <2>2, <2>3, SettledKept, ElemsEmpty
<1>3. CASE LockCommit(t)
  <2>1. /\ Same /\ UNCHANGED <<prepared, trx, pending>> /\ pc[t] = "lock_commit"
        /\ final_queue'[t] = todo'[t] /\ pc'[t] = "commit"
    BY <1>0, <1>3 DEF LockCommit, Goto, fetch_queue_for, engine, flags
  <2>2. \A u : Tid(u)' = Tid(u)
    BY <2>1 DEF Tid
  <2>3. \A u \in Session : pc[u] = "prepared" \/ pending[u] =>
          pc'[u] = "prepared" \/ pending'[u]
    BY <2>1
  <2> QED BY <1>0, <2>1, <2>2, <2>3, SettledKept
<1>4. CASE CommitOne(t)
  BY <1>4, CommitOneSettled
<1>5. CASE HandleSyncError(t)
  <2>1. /\ Same /\ UNCHANGED <<prepared, trx, pending, final_queue>>
        /\ pc[t] = "sync_error" /\ pc'[t] = "signal"
        /\ ErrorAction # "ABORT_SERVER"
    BY <1>0, <1>5 DEF HandleSyncError, Goto, engine, flags, queues
  <2>2. \A u : Tid(u)' = Tid(u)
    BY <2>1 DEF Tid
  <2>3. \A u \in Session : pc[u] = "prepared" \/ pending[u] =>
          pc'[u] = "prepared" \/ pending'[u]
    BY <2>1
  <2>4. order_commits => \A u \in Elems(final_queue[t]) : Tid(u) \notin prepared
    BY <2>1 DEF Settled
  <2> QED BY <1>0, <2>1, <2>2, <2>3, <2>4, SettledKept
<1>6. CASE signal_done(t)
  <2>1. /\ Same /\ UNCHANGED <<prepared, trx>>
        /\ pc[t] = "signal" /\ pc'[t] = "finish"
        /\ \A u \in Session : u \notin Elems(final_queue[t]) =>
             pending'[u] = pending[u]
    BY <1>0, <1>6 DEF signal_done, woken, Goto, engine
  <2>2. \A u : Tid(u)' = Tid(u)
    BY <2>1 DEF Tid
  <2>3. order_commits => \A u \in Elems(final_queue[t]) : Tid(u) \notin prepared
    BY <2>1 DEF Settled
  <2>4. order_commits => \A u \in Session :
          Tid(u) \in prepared /\ (pc[u] = "prepared" \/ pending[u])
            => pc'[u] = "prepared" \/ pending'[u]
    BY <2>1, <2>3
  <2> QED BY <1>0, <2>1, <2>2, <2>4, SettledKept
<1>7. CASE finish_commit(t)
  <2>1. /\ Same /\ prepared' \subseteq prepared /\ UNCHANGED <<trx, pending>>
        /\ pc[t] # "prepared" /\ pc'[t] \in {"rotate", "idle"}
    BY <1>0, <1>7 DEF finish_commit, ha_commit_low, Goto, engine, queues
  <2>2. \A u : Tid(u)' = Tid(u)
    BY <2>1 DEF Tid
  <2>3. \A u \in Session : pc[u] = "prepared" \/ pending[u] =>
          pc'[u] = "prepared" \/ pending'[u]
    BY <2>1
  <2> QED BY <1>0, <2>1, <2>2, <2>3, SettledKept
<1> QED BY <1>1, <1>2, <1>3, <1>4, <1>5, <1>6, <1>7 DEF OrderedCommit

(* The steps outside ordered_commit, that of prepare included. *)
LEMMA OutsideSettled ==
  ASSUME IndInv, OldPrepared, Settled, server = "up",
         order_commits' = order_commits, NEW t \in Session,
         Rotate(t) \/ Snapshot(t) \/ Begin(t), ~Die
  PROVE  Settled' /\ OldPrepared'
<1>0. /\ pc \in [Session -> Label] /\ trx \in [Session -> 0..MaxTrx]
      /\ final_queue \in [Session -> Seq(Session)] /\ prepared \subseteq Trx
  BY DEF IndInv, TypeOK, PipelineTypeOK, DataTypeOK
<1>1. CASE ~prepare(t)
  <2>1. /\ UNCHANGED <<final_queue, todo, pending, prepared>>
        /\ pc[t] # "prepared"
        /\ pc'[t] \notin {"commit", "signal", "sync_error"}
        /\ \A u \in Session : u # t => pc'[u] = pc[u] /\ trx'[u] = trx[u]
        /\ trx'[t] = trx[t] \/ (pc[t] = "idle" /\ trx'[t] = trx[t] + 1)
    <3>1. CASE Rotate(t)
      BY <1>0, <3>1 DEF Rotate, RotateLock, RotateClose, RotateReopen,
         RotateFails, Return, Goto, queues, flags, engine
    <3>2. CASE Snapshot(t)
      BY <1>0, <3>2 DEF Snapshot, xlock, xlock_commits, xunlock, Goto, queues,
         flags, engine
    <3>3. CASE Begin(t)
      BY <1>0, <1>1, <3>3 DEF Begin, CommitUnlogged, FlushLogs, StartSnapshot,
         Goto, queues, flags, engine
    <3> QED BY <3>1, <3>2, <3>3
  <2>2. \A u \in Session : trx[u] \in Nat
    BY <1>0, BoundAssumption
  <2>3. \A u \in Session : Tid(u)' \in prepared => Tid(u)' = Tid(u)
    <3> SUFFICES ASSUME NEW u \in Session, <<u, trx'[u]>> \in prepared
                 PROVE  trx'[u] = trx[u]
      BY DEF Tid
    <3>1. trx'[u] <= trx[u]
      BY DEF OldPrepared
    <3> QED BY <2>1, <2>2, <3>1
  <2>4. \A u \in Session : pc[u] = "prepared" \/ pending[u] =>
          pc'[u] = "prepared" \/ pending'[u]
    BY <2>1
  <2>5. Settled'
    BY <1>0, <2>1, <2>3, <2>4, SettledKept
  <2>6. OldPrepared'
    <3> SUFFICES ASSUME NEW x \in prepared PROVE x[2] <= trx'[x[1]]
      BY <2>1 DEF OldPrepared
    <3>1. x[1] \in Session /\ x[2] \in Nat /\ x[2] <= trx[x[1]]
      BY <1>0, BoundAssumption DEF OldPrepared, Trx
    <3> QED BY <2>1, <2>2, <3>1
  <2> QED BY <2>5, <2>6
<1>2. CASE prepare(t)
  <2> DEFINE x == <<t, trx[t] + 1>>
  <2>1. /\ pc[t] = "idle" /\ pc'[t] = "prepared" /\ trx'[t] = trx[t] + 1
        /\ UNCHANGED <<final_queue, todo, pending, server>>
        /\ prepared' = prepared \cup {x}
        /\ \A y \in prepared : y[1] # t
        /\ \A u \in Session : u # t => pc'[u] = pc[u] /\ trx'[u] = trx[u]
    BY <1>0, <1>2 DEF prepare, Goto, queues, flags, restart
  <2>2. ~pending[t]
    BY <2>1 DEF IndInv, PipeInv, PendingCommits, Committing
  <2>3. \A v \in Session : t \notin Elems(final_queue[v])
    BY <2>2 DEF IndInv, PipeInv, OnePlace, WaitingIsPlaced, Holds
  <2>4. \A u \in Session : u # t =>
          Tid(u)' = Tid(u) /\ (Tid(u)' \in prepared' <=> Tid(u) \in prepared)
    BY <2>1 DEF Tid
  <2>5. Settled'
    <3> SUFFICES ASSUME order_commits
                 PROVE  /\ \A u \in Session : Tid(u)' \in prepared' =>
                             pc'[u] = "prepared" \/ pending'[u]
                        /\ \A v \in Session : \A u \in Elems(final_queue[v]) :
                             Tid(u)' \in prepared' =>
                               /\ pc'[v] = "commit" => u \in Elems(todo[v])
                               /\ pc'[v] # "signal"
                               /\ pc'[v] = "sync_error"
                                    => ErrorAction = "ABORT_SERVER"
      BY <2>1 DEF Settled, Elems
    <3>1. \A u \in Session : Tid(u)' \in prepared' =>
            pc'[u] = "prepared" \/ pending'[u]
      BY <2>1, <2>4 DEF Settled
    <3>2. ASSUME NEW v \in Session, NEW u \in Elems(final_queue[v]),
                 Tid(u)' \in prepared'
          PROVE  /\ pc'[v] = "commit" => u \in Elems(todo[v])
                 /\ pc'[v] # "signal"
                 /\ pc'[v] = "sync_error" => ErrorAction = "ABORT_SERVER"
      <4>1. u \in Session /\ u # t
        BY <1>0, <2>3, ElemsType
      <4>2. Tid(u) \in prepared
        BY <2>4, <3>2, <4>1
      <4> QED BY <2>1, <4>2 DEF Settled
    <3> QED BY <3>1, <3>2
  <2>6. OldPrepared'
    <3> SUFFICES ASSUME NEW y \in prepared' PROVE y[2] <= trx'[y[1]]
      BY DEF OldPrepared
    <3>1. CASE y = x
      BY <1>0, <2>1, <3>1, BoundAssumption
    <3>2. CASE y \in prepared
      <4>1. y[1] \in Session /\ y[1] # t /\ y[2] <= trx[y[1]]
        BY <1>0, <2>1, <3>2 DEF OldPrepared, Trx
      <4> QED BY <2>1, <4>1
    <3> QED BY <2>1, <3>1, <3>2
  <2> QED BY <2>5, <2>6
<1> QED BY <1>1, <1>2

(* ModeInv is inductive relative to IndInv. *)
LEMMA ModeStep ==
  ASSUME OrderFixed, IndInv, ModeInv, [Next]_vars, TypeOK'
  PROVE  ModeInv'
<1>0. order_commits' = order_commits
  BY OrderKept DEF IndInv
<1>1. CommitHeld'
  BY <1>0, CommitHeldStep DEF IndInv, ModeInv
<1>2. CASE Die
  BY <1>1, <1>2 DEF Die, ModeInv, Settled, OldPrepared
<1>3. ASSUME NEW t \in Session, Step(t), OrderedCommit(t), ~Die
      PROVE  Settled' /\ OldPrepared'
  <2>1. server = "up"
    BY <1>3 DEF Step
  <2>2. prepared' \subseteq prepared /\ trx' = trx
    BY <1>3 DEF OrderedCommit, EnrollFlush, LockLog, FlushOne, FetchRest,
       FlushRest, FlushToFile, HandleFlushError, EnrollSync, LockSync,
       sync_binlog_file, EnterCommit, LockCommit, CommitOne, HandleSyncError,
       signal_done, finish_commit, ha_commit_low, engine
  <2>3. OldPrepared'
    BY <2>1, <2>2 DEF ModeInv, OldPrepared
  <2> QED BY <1>0, <1>3, <2>1, <2>3, OrderedCommitSettled DEF ModeInv
<1>4. ASSUME NEW t \in Session, server = "up",
             Rotate(t) \/ Snapshot(t) \/ Begin(t), ~Die
      PROVE  Settled' /\ OldPrepared'
  BY <1>0, <1>4, OutsideSettled DEF ModeInv
<1>5. CASE SetSyncPeriod \/ SetOrderCommits \/ UNCHANGED vars
  <2>1. UNCHANGED <<pc, final_queue, todo, pending, prepared, server, trx>>
    BY <1>5 DEF SetSyncPeriod, SetOrderCommits, vars, queues, flags, engine,
       restart
  <2> QED BY <1>0, <1>1, <2>1 DEF ModeInv, Settled, OldPrepared, Tid, Elems
<1>6. CASE ha_recover
  BY <1>1, <1>6 DEF ha_recover, ModeInv, Settled, OldPrepared
<1> QED BY <1>1, <1>2, <1>3, <1>4, <1>5, <1>6 DEF Next, Step, Crash, ModeInv

(* The invariant of a server whose order mode stays. *)
THEOREM ModeInvariant ==
  ASSUME OrderFixed
  PROVE  Spec => [](IndInv /\ DurInv /\ ModeInv)
<1>1. Init => ModeInv
  BY ElemsEmpty DEF Init, ModeInv, OldPrepared, CommitHeld, Settled
<1>2. IndInv /\ ModeInv /\ IndInv' /\ [Next]_vars => ModeInv'
  BY ModeStep DEF IndInv
<1> QED BY <1>1, <1>2, Durability, PTL DEF Spec

(* While the order mode stays, the one lock of the two that xlock takes    *)
(* for it blocks every commit in the engine, and LOCK_log every write to   *)
(* the log, for any number of sessions, with errors and after crashes.     *)
THEOREM SnapshotsFreeze ==
  ASSUME OrderFixed
  PROVE  Spec => SnapshotFreezes
<1>1. IndInv /\ DurInv /\ ModeInv /\ [Next]_vars
        => [InSnapshot /\ is_open /\ server' = "up"
              => UNCHANGED <<binlog, commit_log>>]_vars
  <2> SUFFICES ASSUME IndInv, DurInv, ModeInv, Next,
                      NEW s \in Session, pc[s] = "snapshot", is_open,
                      server' = "up"
               PROVE  UNCHANGED <<binlog, commit_log>>
    BY DEF InSnapshot
  <2>0. ~Die /\ server = "up"
    BY DEF Die, DurInv, DownReset, Reset
  <2>1. \A t \in Session : pc[t] \in LogOwner => t = s
    BY DEF DurInv, LogHeld, LogOwner
  <2>2. LOCK_log = s /\ LOCK_log # NoOne
    BY SessionAssumption DEF DurInv, LogHeld, LogOwner
  <2>3. ASSUME NEW t \in Session, OrderedCommit(t)
        PROVE  UNCHANGED <<binlog, commit_log>>
    <3>1. CASE pc[t] \in LogOwner
      <4>1. pc[t] = "snapshot"
        BY <2>1, <3>1
      <4> QED BY <2>3, <4>1 DEF OrderedCommit, EnrollFlush, LockLog, FlushOne,
             FetchRest, FlushRest, FlushToFile, HandleFlushError, EnrollSync,
             LockSync, sync_binlog_file, EnterCommit, LockCommit, CommitOne,
             HandleSyncError, signal_done, finish_commit
    <3>2. CASE pc[t] \notin LogOwner /\ ~CommitOne(t) /\ ~finish_commit(t)
      BY <2>0, <2>2, <2>3, <3>2 DEF OrderedCommit, LogOwner, EnrollFlush,
         LockLog, FlushOne, FetchRest, FlushRest, FlushToFile,
         HandleFlushError, EnrollSync, LockSync, sync_binlog_file, EnterCommit,
         LockCommit, HandleSyncError, signal_done, logfile, engine
    <3>3. CASE CommitOne(t)
      BY <3>3 DEF CommitOne, ModeInv, CommitHeld
    <3>4. CASE finish_commit(t)
      <4>1. CASE order_commits
        <5>1. ~pending[t] /\ pc[t] # "prepared"
          BY <3>4 DEF finish_commit, IndInv, PipeInv, PendingCommits, Committing
        <5>2. Tid(t) \notin prepared
          BY <2>0, <4>1, <5>1 DEF ModeInv, Settled
        <5> QED BY <3>4, <5>2 DEF finish_commit, logfile, engine
      <4>2. CASE ~order_commits
        <5>1. LOCK_consistent_snapshot = s
          BY <4>2 DEF ModeInv, CommitHeld
        <5>2. ~slock
          BY <5>1, SessionAssumption DEF slock
        <5> QED BY <3>4, <5>2 DEF finish_commit, logfile, engine
      <4> QED BY <4>1, <4>2
    <3> QED BY <3>1, <3>2, <3>3, <3>4
  <2>4. ASSUME NEW t \in Session, Rotate(t) \/ Snapshot(t) \/ Begin(t)
        PROVE  UNCHANGED <<binlog, commit_log>>
    BY <2>0, <2>4 DEF Rotate, RotateLock, RotateClose, RotateReopen,
       RotateFails, Snapshot, xlock, xlock_commits, xunlock, Begin, prepare,
       CommitUnlogged, FlushLogs, StartSnapshot, logfile, engine
  <2>5. CASE SetSyncPeriod \/ SetOrderCommits
    BY <2>5 DEF SetSyncPeriod, SetOrderCommits, logfile, engine
  <2> QED BY <2>0, <2>3, <2>4, <2>5 DEF Next, Step, Crash, ha_recover
<1> QED BY <1>1, ModeInvariant, PTL DEF Spec, SnapshotFreezes

(***************************************************************************)
(* The line of sessions between their flush and their commit.              *)
(***************************************************************************)

(* The parts of the line are queues of sessions. *)
LEMMA LineParts ==
  ASSUME TypeOK
  PROVE  /\ InCommit \in Seq(Session) /\ m_queue["COMMIT"] \in Seq(Session)
         /\ InSync \in Seq(Session) /\ m_queue["SYNC"] \in Seq(Session)
         /\ InFlush \in Seq(Session) /\ Line \in Seq(Session)
         /\ Elems(Line) = Elems(InCommit) \cup Elems(m_queue["COMMIT"])
              \cup Elems(InSync) \cup Elems(m_queue["SYNC"]) \cup Elems(InFlush)
<1>1. /\ InCommit \in Seq(Session) /\ m_queue["COMMIT"] \in Seq(Session)
      /\ InSync \in Seq(Session) /\ m_queue["SYNC"] \in Seq(Session)
      /\ InFlush \in Seq(Session)
  BY DEF TypeOK, PipelineTypeOK, InCommit, InSync, InFlush, Group, Stage
<1> DEFINE l2 == InCommit \o m_queue["COMMIT"]
           l3 == l2 \o InSync
           l4 == l3 \o m_queue["SYNC"]
<1>2. /\ l2 \in Seq(Session)
      /\ Elems(l2) = Elems(InCommit) \cup Elems(m_queue["COMMIT"])
  BY <1>1, ElemsConcat
<1> HIDE DEF l2
<1>3. l3 \in Seq(Session) /\ Elems(l3) = Elems(l2) \cup Elems(InSync)
  BY <1>1, <1>2, ElemsConcat
<1> HIDE DEF l3
<1>4. l4 \in Seq(Session) /\ Elems(l4) = Elems(l3) \cup Elems(m_queue["SYNC"])
  BY <1>1, <1>3, ElemsConcat
<1> HIDE DEF l4
<1>5. /\ l4 \o InFlush \in Seq(Session)
      /\ Elems(l4 \o InFlush) = Elems(l4) \cup Elems(InFlush)
  BY <1>1, <1>4, ElemsConcat
<1>6. Line = l4 \o InFlush
  BY DEF Line, Joined, Behind, l4, l3, l2
<1> QED BY <1>1, <1>2, <1>3, <1>4, <1>5, <1>6

(* The same as one fact about a state. *)
LEMMA LineType == TypeOK => InCommit \in Seq(Session) /\ Line \in Seq(Session)
BY LineParts

(* Who stands in line waits for a leader. *)
LEMMA LineWaits ==
  ASSUME IndInv, NEW u \in Elems(Line)
  PROVE  u \in Session /\ pending[u]
<1>0. TypeOK
  BY DEF IndInv
<1>1. u \in Session
  BY <1>0, LineParts, ElemsType
<1>2. \/ u \in Elems(m_queue["COMMIT"]) \cup Elems(m_queue["SYNC"])
      \/ u \in Elems(InCommit) \/ u \in Elems(InSync) \/ u \in Elems(InFlush)
  BY <1>0, LineParts
<1>3. \/ \E s \in Stage : u \in Elems(m_queue[s])
      \/ \E t \in Session : u \in Holds(t)
  <2>1. u \in Elems(InCommit) => \E t \in Session : u \in Holds(t)
    BY ElemsEmpty DEF InCommit, Group, Holds
  <2>2. u \in Elems(InSync) => \E t \in Session : u \in Holds(t)
    BY ElemsEmpty DEF InSync, Group, Holds
  <2>3. u \in Elems(InFlush) => \E t \in Session : u \in Holds(t)
    BY ElemsEmpty DEF InFlush, Group, Holds
  <2> QED BY <1>2, <2>1, <2>2, <2>3 DEF Stage
<1> QED BY <1>1, <1>3 DEF IndInv, PipeInv, OnePlace, WaitingIsPlaced

(* The types of what LineLogged speaks of. *)
LEMMA LineTypes ==
  ASSUME IndInv
  PROVE  /\ binlog \in Seq(Trx) /\ commit_log \in Seq(Trx)
         /\ Line \in Seq(Session) /\ boot \in Nat
         /\ Len(binlog) \in Nat /\ Len(commit_log) \in Nat /\ Len(Line) \in Nat
         /\ \A u \in Session : Tid(u) \in Trx
BY LineParts, TidInjective DEF IndInv, TypeOK, DataTypeOK

(* The line stays as it is. *)
LEMMA LineQuiet ==
  ASSUME IndInv, LineLogged, LinePrepared, server = "up", Line' = Line,
         UNCHANGED <<binlog, commit_log, boot>>,
         \A u \in Elems(Line) :
           /\ Tid(u)' = Tid(u)
           /\ Tid(u) \in prepared => Tid(u) \in prepared'
           /\ xid_written[u] => xid_written'[u]
  PROVE  LineLogged' /\ LinePrepared'
<1>1. \A i \in 1..Len(Line) : Tid(Line[i])' = Tid(Line[i])
  BY DEF Elems, Tid
<1>2. LineLogged'
  BY <1>1 DEF LineLogged
<1>3. LinePrepared'
  BY DEF LinePrepared, Distinct, Elems
<1> QED BY <1>2, <1>3

(* A session joins the line at its end when it is flushed. *)
LEMMA LineJoins ==
  ASSUME IndInv, LineLogged, LinePrepared, server = "up", NEW h \in Session,
         Line' = Behind(Line, <<h>>), binlog' = Append(binlog, Tid(h)),
         UNCHANGED <<commit_log, boot, prepared, trx>>,
         Tid(h) \in prepared, ~xid_written[h],
         xid_written' = [xid_written EXCEPT ![h] = TRUE]
  PROVE  LineLogged' /\ LinePrepared'
<1>0. /\ binlog \in Seq(Trx) /\ commit_log \in Seq(Trx)
      /\ Line \in Seq(Session) /\ boot \in Nat
      /\ Len(binlog) \in Nat /\ Len(commit_log) \in Nat /\ Len(Line) \in Nat
      /\ Tid(h) \in Trx /\ xid_written \in [Session -> BOOLEAN]
  BY LineTypes DEF IndInv, TypeOK, PipelineTypeOK
<1>1. /\ Len(Line') = Len(Line) + 1 /\ Line'[Len(Line) + 1] = h
      /\ \A i \in 1..Len(Line) : Line'[i] = Line[i]
      /\ Elems(Line') = Elems(Line) \cup {h}
  BY <1>0, ElemsAppend DEF Behind
<1>2. /\ Len(binlog') = Len(binlog) + 1 /\ binlog'[Len(binlog) + 1] = Tid(h)
      /\ \A i \in 1..Len(binlog) : binlog'[i] = binlog[i]
  BY <1>0
<1>3. \A u : Tid(u)' = Tid(u)
  BY DEF Tid
<1>4. /\ Len(binlog) = boot + Len(commit_log) + Len(Line)
      /\ \A i \in 1..Len(commit_log) : commit_log[i] = binlog[boot + i]
      /\ \A i \in 1..Len(Line) :
           binlog[boot + Len(commit_log) + i] = Tid(Line[i])
  BY DEF LineLogged
<1>5. LineLogged'
  <2>1. Len(binlog') = boot + Len(commit_log) + Len(Line')
    BY <1>0, <1>1, <1>2, <1>4
  <2>2. ASSUME NEW i \in 1..Len(commit_log)
        PROVE  commit_log[i] = binlog'[boot + i]
    <3>1. boot + i \in 1..Len(binlog)
      BY <1>0, <1>4
    <3> QED BY <1>2, <1>4, <3>1
  <2>3. ASSUME NEW i \in 1..Len(Line')
        PROVE  binlog'[boot + Len(commit_log) + i] = Tid(Line'[i])
    <3>1. CASE i \in 1..Len(Line)
      <4>1. boot + Len(commit_log) + i \in 1..Len(binlog)
        BY <1>0, <1>4, <3>1
      <4> QED BY <1>1, <1>2, <1>4, <3>1, <4>1
    <3>2. CASE i = Len(Line) + 1
      <4>1. boot + Len(commit_log) + i = Len(binlog) + 1
        BY <1>0, <1>4, <3>2
      <4> QED BY <1>1, <1>2, <3>2, <4>1
    <3>3. i \in 1..Len(Line) \/ i = Len(Line) + 1
      BY <1>0, <1>1
    <3> QED BY <3>1, <3>2, <3>3
  <2>4. \A i \in 1..Len(Line') : Tid(Line'[i]) = <<Line'[i], trx'[Line'[i]]>>
    BY DEF Tid
  <2> QED BY <2>1, <2>2, <2>3, <2>4 DEF LineLogged, Tid
<1>6. LinePrepared'
  <2>1. h \notin Elems(Line)
    BY DEF LinePrepared
  <2>2. Distinct(Line')
    BY <1>0, <2>1, DistinctAppend DEF LinePrepared, Behind
  <2>3. \A u \in Elems(Line') : Tid(u)' \in prepared' /\ xid_written'[u]
    <3> TAKE u \in Elems(Line')
    <3>1. u \in Session
      BY <1>0, <1>1, ElemsType
    <3> QED BY <1>0, <1>1, <1>3, <3>1 DEF LinePrepared
  <2> QED BY <2>2, <2>3 DEF LinePrepared, Distinct, Elems
<1> QED BY <1>5, <1>6

(* A queue that is not empty is its head and the rest. *)
LEMMA HeadTailCons ==
  /\ \A q \in Seq(Session) : q # <<>> =>
       Head(q) \in Session /\ Tail(q) \in Seq(Session)
       /\ q = Behind(<<Head(q)>>, Tail(q))
  /\ \A h \in Session : \A q \in Seq(Session) :
       /\ Behind(<<h>>, q) # <<>>
       /\ Head(Behind(<<h>>, q)) = h /\ Tail(Behind(<<h>>, q)) = q
BY DEF Behind

(* The head of the line leaves it when it is committed. *)
LEMMA LineLeaves ==
  ASSUME IndInv, LineLogged, LinePrepared, server = "up", NEW h \in Session,
         Line' \in Seq(Session), Line = Behind(<<h>>, Line'),
         commit_log' = Append(commit_log, Tid(h)),
         prepared' = prepared \ {Tid(h)},
         UNCHANGED <<binlog, boot, trx>>,
         \A u \in Session : u # h => xid_written'[u] = xid_written[u]
  PROVE  LineLogged' /\ LinePrepared'
<1>0. /\ binlog \in Seq(Trx) /\ commit_log \in Seq(Trx)
      /\ Line \in Seq(Session) /\ boot \in Nat
      /\ Len(binlog) \in Nat /\ Len(commit_log) \in Nat /\ Len(Line) \in Nat
      /\ \A u \in Session : Tid(u) \in Trx
  BY LineTypes
<1>q. Line # <<>> /\ h = Head(Line) /\ Line' = Tail(Line)
  BY HeadTailCons
<1>1. /\ h \in Session /\ h = Line[1] /\ Len(Line) > 0
      /\ Len(Line') = Len(Line) - 1
      /\ \A i \in 1..Len(Line') : Line'[i] = Line[i + 1]
      /\ Elems(Line) = {h} \cup Elems(Line')
  <2>1. Elems(Line) = {Head(Line)} \cup Elems(Tail(Line))
    BY <1>0, <1>q, ElemsHeadTail
  <2>2. /\ Len(Line) > 0 /\ Head(Line) = Line[1]
        /\ Len(Tail(Line)) = Len(Line) - 1
        /\ \A i \in 1..Len(Line) - 1 : Tail(Line)[i] = Line[i + 1]
    BY <1>0, <1>q
  <2> QED BY <1>q, <2>1, <2>2
<1>2. /\ Len(commit_log') = Len(commit_log) + 1
      /\ commit_log'[Len(commit_log) + 1] = Tid(h)
      /\ \A i \in 1..Len(commit_log) : commit_log'[i] = commit_log[i]
  BY <1>0, <1>1
<1>3. \A u : Tid(u)' = Tid(u)
  BY DEF Tid
<1>4. /\ Len(binlog) = boot + Len(commit_log) + Len(Line)
      /\ \A i \in 1..Len(commit_log) : commit_log[i] = binlog[boot + i]
      /\ \A i \in 1..Len(Line) :
           binlog[boot + Len(commit_log) + i] = Tid(Line[i])
  BY DEF LineLogged
<1>5. LineLogged'
  <2>1. Len(binlog) = boot + Len(commit_log') + Len(Line')
    BY <1>0, <1>1, <1>2, <1>4
  <2>2. ASSUME NEW i \in 1..Len(commit_log')
        PROVE  commit_log'[i] = binlog[boot + i]
    <3>1. CASE i \in 1..Len(commit_log)
      BY <1>2, <1>4, <3>1
    <3>2. CASE i = Len(commit_log) + 1
      <4>1. boot + Len(commit_log) + 1 = boot + i /\ 1 \in 1..Len(Line)
        BY <1>0, <1>1, <3>2
      <4>2. binlog[boot + Len(commit_log) + 1] = Tid(Line[1])
        BY <1>4, <4>1
      <4> QED BY <1>1, <1>2, <3>2, <4>1, <4>2
    <3> QED BY <1>0, <1>2, <3>1, <3>2
  <2>3. ASSUME NEW i \in 1..Len(Line')
        PROVE  binlog[boot + Len(commit_log') + i] = Tid(Line'[i])
    <3>1. /\ i + 1 \in 1..Len(Line)
          /\ boot + Len(commit_log') + i = boot + Len(commit_log) + (i + 1)
      <4>1. Len(Line') = Len(Line) - 1 /\ Len(commit_log') = Len(commit_log) + 1
        BY <1>1, <1>2
      <4>2. i \in 1..Len(Line) - 1
        BY <4>1
      <4> QED BY <1>0, <4>1, <4>2
    <3>2. binlog[boot + Len(commit_log) + (i + 1)] = Tid(Line[i + 1])
      BY <1>4, <3>1
    <3> QED BY <1>1, <3>1, <3>2
  <2> QED BY <2>1, <2>2, <2>3 DEF LineLogged, Tid
<1>6. LinePrepared'
  <2>1. Distinct(Line') /\ h \notin Elems(Line')
    BY <1>0, <1>q, DistinctTail DEF LinePrepared
  <2>2. \A u \in Elems(Line') : Tid(u)' \in prepared' /\ xid_written'[u]
    <3> TAKE u \in Elems(Line')
    <3>1. u \in Session /\ u # h /\ u \in Elems(Line)
      BY <1>0, <1>1, <2>1, ElemsType
    <3>2. Tid(u) # Tid(h)
      BY <1>1, <3>1, TidInjective DEF IndInv
    <3> QED BY <1>3, <3>1, <3>2 DEF LinePrepared
  <2> QED BY <2>1, <2>2 DEF LinePrepared, Distinct, Elems
<1> QED BY <1>5, <1>6

(* What the moves need of concatenation. *)
LEMMA BehindFacts ==
  /\ \A p, q \in Seq(Session) : Behind(p, q) \in Seq(Session)
  /\ \A p, q, r \in Seq(Session) :
       Behind(Behind(p, q), r) = Behind(p, Behind(q, r))
  /\ \A p \in Seq(Session) : Behind(p, <<>>) = p /\ Behind(<<>>, p) = p
  /\ <<>> \in Seq(Session)
<1>1. \A p, q \in Seq(Session) : p \o q \in Seq(Session)
  BY ConcatProperties
<1>2. ASSUME NEW p \in Seq(Session), NEW q \in Seq(Session),
             NEW r \in Seq(Session)
      PROVE  (p \o q) \o r = p \o (q \o r)
  BY ConcatAssociative, SMTT(20)
<1>3. \A p \in Seq(Session) : p \o <<>> = p /\ <<>> \o p = p
  BY ConcatEmptySeq
<1>4. \A p, q \in Seq(Session) : Behind(p, q) \in Seq(Session)
  BY <1>1 DEF Behind
<1>5. ASSUME NEW p \in Seq(Session), NEW q \in Seq(Session),
             NEW r \in Seq(Session)
      PROVE  Behind(Behind(p, q), r) = Behind(p, Behind(q, r))
  BY <1>2, <1>5, Zenon DEF Behind
<1>6. \A p \in Seq(Session) : Behind(p, <<>>) = p /\ Behind(<<>>, p) = p
  BY <1>3 DEF Behind
<1>7. <<>> \in Seq(Session)
  OBVIOUS
<1> QED BY <1>4, <1>5, <1>6, <1>7

(* The moves through the stages. *)
LEMMA LineMoves ==
  ASSUME NEW a \in Seq(Session), NEW b \in Seq(Session),
         NEW c \in Seq(Session), NEW d \in Seq(Session),
         NEW e \in Seq(Session), NEW x \in Seq(Session)
  PROVE  /\ Joined(a, b, c, d, Behind(e, x)) = Behind(Joined(a, b, c, d, e), x)
         /\ Joined(a, b, c, Behind(d, e), <<>>) = Joined(a, b, c, d, e)
         /\ Joined(a, b, d, <<>>, e) = Joined(a, b, <<>>, d, e)
         /\ Joined(a, Behind(b, c), <<>>, d, e) = Joined(a, b, c, d, e)
         /\ Joined(b, <<>>, c, d, e) = Joined(<<>>, b, c, d, e)
<1> DEFINE l2 == Behind(a, b)
           l3 == Behind(l2, c)
           l4 == Behind(l3, d)
<1>0. l2 \in Seq(Session) /\ l3 \in Seq(Session) /\ l4 \in Seq(Session)
  BY BehindFacts
<1>1. Joined(a, b, c, d, Behind(e, x)) = Behind(Joined(a, b, c, d, e), x)
  <2> HIDE DEF l4
  <2>1. Behind(l4, Behind(e, x)) = Behind(Behind(l4, e), x)
    BY <1>0, BehindFacts
  <2> QED BY <2>1 DEF Joined, l4
<1>2. Joined(a, b, c, Behind(d, e), <<>>) = Joined(a, b, c, d, e)
  <2> HIDE DEF l3
  <2>1. Behind(l3, Behind(d, e)) = Behind(l4, e) /\ Behind(l4, e) \in Seq(Session)
    BY <1>0, BehindFacts
  <2>2. Behind(Behind(l4, e), <<>>) = Behind(l4, e)
    BY <2>1, BehindFacts
  <2> QED BY <2>1, <2>2 DEF Joined, l3
<1>3. Joined(a, b, d, <<>>, e) = Joined(a, b, <<>>, d, e)
  BY BehindFacts DEF Joined
<1>4. Joined(a, Behind(b, c), <<>>, d, e) = Joined(a, b, c, d, e)
  BY BehindFacts DEF Joined
<1>5. Joined(b, <<>>, c, d, e) = Joined(<<>>, b, c, d, e)
  BY BehindFacts DEF Joined
<1> QED BY <1>1, <1>2, <1>3, <1>4, <1>5

(* What stands before the first group stands before the line. *)
LEMMA LineHead ==
  ASSUME NEW x \in Seq(Session), NEW a \in Seq(Session),
         NEW b \in Seq(Session), NEW c \in Seq(Session),
         NEW d \in Seq(Session), NEW e \in Seq(Session)
  PROVE  Joined(Behind(x, a), b, c, d, e) = Behind(x, Joined(a, b, c, d, e))
<1> DEFINE l2 == Behind(a, b)
           l3 == Behind(l2, c)
           l4 == Behind(l3, d)
<1>1. l2 \in Seq(Session) /\ Behind(Behind(x, a), b) = Behind(x, l2)
  BY BehindFacts
<1> HIDE DEF l2
<1>2. l3 \in Seq(Session) /\ Behind(Behind(x, l2), c) = Behind(x, l3)
  BY <1>1, BehindFacts
<1> HIDE DEF l3
<1>3. l4 \in Seq(Session) /\ Behind(Behind(x, l3), d) = Behind(x, l4)
  BY <1>2, BehindFacts
<1> HIDE DEF l4
<1>4. Behind(Behind(x, l4), e) = Behind(x, Behind(l4, e))
  BY <1>3, BehindFacts
<1>5. Joined(a, b, c, d, e) = Behind(l4, e)
  BY DEF Joined, l4, l3, l2
<1> QED BY <1>1, <1>2, <1>3, <1>4, <1>5 DEF Joined

(* LOCK_sync is taken when it is free and released by who holds it; while  *)
(* the log is open nobody comes to the COMMIT stage without it.            *)
LEMMA SyncHeldStep ==
  ASSUME TypeOK, SyncHeld, is_open, [Next]_vars
  PROVE  SyncHeld'
<1> USE SessionAssumption DEF SyncHeld, Syncing, TypeOK, PipelineTypeOK, Owner,
        Goto, locks, queues, Unlock
<1>0. CASE Die
  BY <1>0 DEF Die
<1>1. ASSUME NEW t \in Session, OrderedCommit(t), ~Die PROVE SyncHeld'
  <2>1. CASE LockSync(t)
    BY <2>1 DEF LockSync
  <2>2. CASE sync_binlog_file(t)
    BY <2>2 DEF sync_binlog_file
  <2>3. CASE EnterCommit(t)
    <3>1. /\ pc[t] = "enter_commit" /\ LOCK_sync' = Unlock(LOCK_sync, t)
          /\ \E b \in {"lock_commit", "follower", "sync_error", "signal"} :
               pc' = [pc EXCEPT ![t] = b]
      BY <2>3 DEF EnterCommit, enroll_for
    <3> QED BY <3>1
  <2>4. CASE ~LockSync(t) /\ ~sync_binlog_file(t) /\ ~EnterCommit(t)
    <3>1. /\ LOCK_sync' = LOCK_sync
          /\ \/ UNCHANGED pc
             \/ \E b \in Label \ {"sync", "enter_commit"} :
                  pc' = [pc EXCEPT ![t] = b]
      <4>1. CASE EnrollFlush(t) \/ EnrollSync(t)
        BY <4>1 DEF EnrollFlush, EnrollSync, enroll_for, Label
      <4>2. CASE LockLog(t)
        BY <4>2 DEF LockLog, Label
      <4>3. CASE FlushOne(t) \/ FetchRest(t) \/ FlushRest(t) \/ FlushToFile(t)
        BY <4>3 DEF FlushOne, FetchRest, FlushRest, FlushToFile, Label
      <4>4. CASE HandleFlushError(t)
        BY <1>1, <4>4 DEF HandleFlushError, Label
      <4>5. CASE LockCommit(t)
        BY <4>5 DEF LockCommit, Label
      <4>6. CASE CommitOne(t)
        BY <4>6 DEF CommitOne, Label
      <4>7. CASE HandleSyncError(t)
        BY <1>1, <4>7 DEF HandleSyncError, Label
      <4>8. CASE signal_done(t)
        BY <4>8 DEF signal_done, Label
      <4>9. CASE finish_commit(t)
        BY <4>9 DEF finish_commit, Label
      <4> QED BY <1>1, <2>4, <4>1, <4>2, <4>3, <4>4, <4>5, <4>6, <4>7, <4>8,
                 <4>9 DEF OrderedCommit
    <3> QED BY <3>1
  <2> QED BY <2>1, <2>2, <2>3, <2>4
<1>2. ASSUME NEW t \in Session, Rotate(t), ~Die PROVE SyncHeld'
  BY <1>2 DEF Rotate, RotateLock, RotateClose, RotateReopen, RotateFails, Return
<1>3. ASSUME NEW t \in Session, Snapshot(t) PROVE SyncHeld'
  BY <1>3 DEF Snapshot, xlock, xlock_commits, xunlock
<1>4. ASSUME NEW t \in Session, Begin(t) PROVE SyncHeld'
  BY <1>4 DEF Begin, prepare, CommitUnlogged, FlushLogs, StartSnapshot
<1>5. CASE SetSyncPeriod \/ SetOrderCommits \/ ha_recover \/ UNCHANGED vars
  BY <1>5 DEF SetSyncPeriod, SetOrderCommits, ha_recover, vars
<1> QED BY <1>0, <1>1, <1>2, <1>3, <1>4, <1>5 DEF Next, Step, Crash

(* Every group in work has its leader, who holds the lock of its stage. *)
Led ==
  \A t \in Session :
    /\ pc[t] = "commit" => LOCK_commit = t
    /\ pc[t] \in Syncing => LOCK_sync = t
    /\ pc[t] \in Flushing => LOCK_log = t

(* What a step of session t does to the groups. *)
LEMMA PartsMove ==
  ASSUME Led, Led', NEW t \in Session,
         \A v \in Session : v # t =>
           /\ pc'[v] = pc[v] /\ todo'[v] = todo[v]
           /\ final_queue'[v] = final_queue[v]
  PROVE  /\ pc[t] # "commit" /\ pc'[t] # "commit" => InCommit' = InCommit
         /\ pc[t] = "commit" => InCommit = todo[t]
         /\ pc'[t] = "commit" => InCommit' = todo'[t]
         /\ pc[t] = "commit" /\ pc'[t] # "commit" => InCommit' = <<>>
         /\ pc[t] # "commit" /\ pc'[t] = "commit" => InCommit = <<>>
         /\ pc[t] \notin Syncing /\ pc'[t] \notin Syncing => InSync' = InSync
         /\ pc[t] \in Syncing => InSync = final_queue[t]
         /\ pc'[t] \in Syncing => InSync' = final_queue'[t]
         /\ pc[t] \in Syncing /\ pc'[t] \notin Syncing => InSync' = <<>>
         /\ pc[t] \notin Syncing /\ pc'[t] \in Syncing => InSync = <<>>
         /\ pc[t] \notin Flushing /\ pc'[t] \notin Flushing => InFlush' = InFlush
         /\ pc[t] \in Flushing => InFlush = final_queue[t]
         /\ pc'[t] \in Flushing => InFlush' = final_queue'[t]
         /\ pc[t] \in Flushing /\ pc'[t] \notin Flushing => InFlush' = <<>>
         /\ pc[t] \notin Flushing /\ pc'[t] \in Flushing => InFlush = <<>>
<1>1. /\ \A v \in Session : pc[v] \in {"commit"} => LOCK_commit = v
      /\ \A v \in Session : pc'[v] \in {"commit"} => LOCK_commit' = v
      /\ \A v \in Session : pc[v] \in Syncing => LOCK_sync = v
      /\ \A v \in Session : pc'[v] \in Syncing => LOCK_sync' = v
      /\ \A v \in Session : pc[v] \in Flushing => LOCK_log = v
      /\ \A v \in Session : pc'[v] \in Flushing => LOCK_log' = v
  BY DEF Led, Syncing, Flushing
<1>2. /\ pc[t] \notin {"commit"} /\ pc'[t] \notin {"commit"} =>
           InCommit' = InCommit
      /\ pc[t] \in {"commit"} => InCommit = todo[t]
      /\ pc'[t] \in {"commit"} => InCommit' = todo'[t]
      /\ pc[t] \in {"commit"} /\ pc'[t] \notin {"commit"} => InCommit' = <<>>
      /\ pc[t] \notin {"commit"} /\ pc'[t] \in {"commit"} => InCommit = <<>>
  BY <1>1 DEF InCommit, Group
<1>3. /\ pc[t] \notin Syncing /\ pc'[t] \notin Syncing => InSync' = InSync
      /\ pc[t] \in Syncing => InSync = final_queue[t]
      /\ pc'[t] \in Syncing => InSync' = final_queue'[t]
      /\ pc[t] \in Syncing /\ pc'[t] \notin Syncing => InSync' = <<>>
      /\ pc[t] \notin Syncing /\ pc'[t] \in Syncing => InSync = <<>>
  BY <1>1 DEF InSync, Group, Syncing
<1>4. /\ pc[t] \notin Flushing /\ pc'[t] \notin Flushing => InFlush' = InFlush
      /\ pc[t] \in Flushing => InFlush = final_queue[t]
      /\ pc'[t] \in Flushing => InFlush' = final_queue'[t]
      /\ pc[t] \in Flushing /\ pc'[t] \notin Flushing => InFlush' = <<>>
      /\ pc[t] \notin Flushing /\ pc'[t] \in Flushing => InFlush = <<>>
  BY <1>1 DEF InFlush, Group, Flushing
<1> QED BY <1>2, <1>3, <1>4

(* The steps that move groups through the stages keep the line. *)
LEMMA LineKept ==
  ASSUME IndInv, TypeOK', Led, Led', NEW t \in Session, is_open,
         order_commits, ~SyncError(t),
         \/ EnrollFlush(t) \/ LockLog(t) \/ FetchRest(t) \/ FlushToFile(t)
         \/ EnrollSync(t) \/ LockSync(t) \/ sync_binlog_file(t)
         \/ EnterCommit(t) \/ LockCommit(t) \/ signal_done(t)
         \/ finish_commit(t)
  PROVE  Line' = Line
<1>0. TypeOK /\ PipelineTypeOK /\ PipelineTypeOK' /\ PipeInv
  BY DEF IndInv, TypeOK
<1>1. \A v \in Session : v # t =>
        /\ pc'[v] = pc[v] /\ todo'[v] = todo[v]
        /\ final_queue'[v] = final_queue[v]
  BY <1>0 DEF EnrollFlush, LockLog, FetchRest, FlushToFile, EnrollSync,
     LockSync, sync_binlog_file, EnterCommit, LockCommit, signal_done,
     finish_commit, Goto, enroll_for, fetch_queue_for, queues, PipelineTypeOK
<1>2. /\ InCommit \in Seq(Session) /\ m_queue["COMMIT"] \in Seq(Session)
      /\ InSync \in Seq(Session) /\ m_queue["SYNC"] \in Seq(Session)
      /\ InFlush \in Seq(Session) /\ final_queue[t] \in Seq(Session)
      /\ <<>> \in Seq(Session)
  BY <1>0, LineParts DEF PipelineTypeOK
<1> DEFINE a == InCommit
           b == m_queue["COMMIT"]
           c == InSync
           d == m_queue["SYNC"]
           e == InFlush
<1>q. /\ a \in Seq(Session) /\ b \in Seq(Session) /\ c \in Seq(Session)
      /\ d \in Seq(Session) /\ e \in Seq(Session)
  BY <1>2
<1>3. CASE EnrollFlush(t) \/ signal_done(t) \/ finish_commit(t)
  <2>1. /\ m_queue'["COMMIT"] = b /\ m_queue'["SYNC"] = d
        /\ pc[t] \in {"prepared", "signal", "finish", "follower"}
        /\ pc'[t] \in {"lock_log", "follower", "finish", "idle", "rotate"}
    BY <1>0, <1>3 DEF EnrollFlush, signal_done, finish_commit, enroll_for, Goto,
       queues, PipelineTypeOK, Stage
  <2>2. InCommit' = a /\ InSync' = c /\ InFlush' = e
    BY <1>1, <2>1, PartsMove DEF Syncing, Flushing
  <2> QED BY <2>1, <2>2 DEF Line
<1>4. CASE FetchRest(t) \/ FlushToFile(t) \/ sync_binlog_file(t)
  <2>1. /\ m_queue'["COMMIT"] = b /\ m_queue'["SYNC"] = d
        /\ \/ pc[t] \in Flushing /\ pc'[t] \in Flushing
           \/ pc[t] \in Syncing /\ pc'[t] \in Syncing
        /\ final_queue' = final_queue
    BY <1>0, <1>4 DEF FetchRest, FlushToFile, sync_binlog_file, Goto, queues,
       PipelineTypeOK, Stage, Syncing, Flushing
  <2>2. /\ pc[t] # "commit" /\ pc'[t] # "commit"
        /\ pc[t] \in Syncing <=> pc'[t] \in Syncing
        /\ pc[t] \in Flushing <=> pc'[t] \in Flushing
    BY <2>1 DEF Syncing, Flushing
  <2>3. InCommit' = a /\ InSync' = c /\ InFlush' = e
    BY <1>1, <2>1, <2>2, PartsMove
  <2> QED BY <2>1, <2>3 DEF Line
<1>5. CASE LockLog(t)
  <2>1. /\ m_queue'["COMMIT"] = b /\ m_queue'["SYNC"] = d
        /\ pc[t] = "lock_log" /\ pc'[t] = "flush" /\ final_queue' = final_queue
    BY <1>0, <1>5 DEF LockLog, Goto, PipelineTypeOK
  <2>2. final_queue[t] = <<>>
    BY <1>0, <1>2, <2>1, HoldsNobody, ElemsType DEF PipeInv, Holding
  <2>3. /\ pc[t] # "commit" /\ pc'[t] # "commit"
        /\ pc[t] \notin Syncing /\ pc'[t] \notin Syncing
        /\ pc[t] \notin Flushing /\ pc'[t] \in Flushing
    BY <2>1 DEF Syncing, Flushing
  <2>4. InCommit' = a /\ InSync' = c /\ InFlush' = e
    BY <1>1, <2>1, <2>2, <2>3, PartsMove
  <2> QED BY <2>1, <2>4 DEF Line
<1>6. CASE EnrollSync(t)
  <2>1. /\ m_queue'["COMMIT"] = b /\ m_queue'["SYNC"] = d \o final_queue[t]
        /\ pc[t] = "enter_sync" /\ pc'[t] \in {"lock_sync", "follower"}
    BY <1>0, <1>6 DEF EnrollSync, enroll_for, Goto, PipelineTypeOK, Stage
  <2>2. /\ pc[t] # "commit" /\ pc'[t] # "commit"
        /\ pc[t] \notin Syncing /\ pc'[t] \notin Syncing
        /\ pc[t] \in Flushing /\ pc'[t] \notin Flushing
    BY <2>1 DEF Syncing, Flushing
  <2>3. InCommit' = a /\ InSync' = c /\ InFlush' = <<>> /\ e = final_queue[t]
    BY <1>1, <2>2, PartsMove
  <2>4. Line' = Joined(a, b, c, Behind(d, e), <<>>)
    BY <2>1, <2>3 DEF Line, Behind
  <2>5. Line = Joined(a, b, c, d, e)
    BY DEF Line
  <2> HIDE DEF a, b, c, d, e
  <2>6. Joined(a, b, c, Behind(d, e), <<>>) = Joined(a, b, c, d, e)
    BY <1>q, LineMoves
  <2> QED BY <2>4, <2>5, <2>6
<1>7. CASE LockSync(t)
  <2>1. /\ m_queue'["COMMIT"] = b /\ m_queue'["SYNC"] = <<>>
        /\ final_queue'[t] = d
        /\ pc[t] = "lock_sync" /\ pc'[t] = "sync"
    BY <1>0, <1>7 DEF LockSync, fetch_queue_for, Goto, PipelineTypeOK, Stage
  <2>2. /\ pc[t] # "commit" /\ pc'[t] # "commit"
        /\ pc[t] \notin Syncing /\ pc'[t] \in Syncing
        /\ pc[t] \notin Flushing /\ pc'[t] \notin Flushing
    BY <2>1 DEF Syncing, Flushing
  <2>3. InCommit' = a /\ c = <<>> /\ InSync' = d /\ InFlush' = e
    BY <1>1, <2>1, <2>2, PartsMove
  <2>4. Line' = Joined(a, b, d, <<>>, e)
    BY <2>1, <2>3 DEF Line
  <2>5. Line = Joined(a, b, <<>>, d, e)
    BY <2>3 DEF Line
  <2> HIDE DEF a, b, c, d, e
  <2>6. Joined(a, b, d, <<>>, e) = Joined(a, b, <<>>, d, e)
    BY <1>q, LineMoves
  <2> QED BY <2>4, <2>5, <2>6
<1>8. CASE EnterCommit(t)
  <2>1. /\ m_queue'["COMMIT"] = b \o final_queue[t] /\ m_queue'["SYNC"] = d
        /\ pc[t] = "enter_commit" /\ pc'[t] \in {"lock_commit", "follower"}
    BY <1>0, <1>8 DEF EnterCommit, enroll_for, Goto, PipelineTypeOK, Stage
  <2>2. /\ pc[t] # "commit" /\ pc'[t] # "commit"
        /\ pc[t] \in Syncing /\ pc'[t] \notin Syncing
        /\ pc[t] \notin Flushing /\ pc'[t] \notin Flushing
    BY <2>1 DEF Syncing, Flushing
  <2>3. InCommit' = a /\ c = final_queue[t] /\ InSync' = <<>> /\ InFlush' = e
    BY <1>1, <2>2, PartsMove
  <2>4. Line' = Joined(a, Behind(b, c), <<>>, d, e)
    BY <2>1, <2>3 DEF Line, Behind
  <2>5. Line = Joined(a, b, c, d, e)
    BY DEF Line
  <2> HIDE DEF a, b, c, d, e
  <2>6. Joined(a, Behind(b, c), <<>>, d, e) = Joined(a, b, c, d, e)
    BY <1>q, LineMoves
  <2> QED BY <2>4, <2>5, <2>6
<1>9. CASE LockCommit(t)
  <2>1. /\ m_queue'["COMMIT"] = <<>> /\ m_queue'["SYNC"] = d
        /\ todo'[t] = b
        /\ pc[t] = "lock_commit" /\ pc'[t] = "commit"
    BY <1>0, <1>9 DEF LockCommit, fetch_queue_for, Goto, PipelineTypeOK, Stage
  <2>2. /\ pc[t] # "commit"
        /\ pc[t] \notin Syncing /\ pc'[t] \notin Syncing
        /\ pc[t] \notin Flushing /\ pc'[t] \notin Flushing
    BY <2>1 DEF Syncing, Flushing
  <2>3. a = <<>> /\ InCommit' = b /\ InSync' = c /\ InFlush' = e
    BY <1>1, <2>1, <2>2, PartsMove
  <2>4. Line' = Joined(b, <<>>, c, d, e)
    BY <2>1, <2>3 DEF Line
  <2>5. Line = Joined(<<>>, b, c, d, e)
    BY <2>3 DEF Line
  <2> HIDE DEF a, b, c, d, e
  <2>6. Joined(b, <<>>, c, d, e) = Joined(<<>>, b, c, d, e)
    BY <1>q, LineMoves
  <2> QED BY <2>4, <2>5, <2>6
<1> QED BY <1>3, <1>4, <1>5, <1>6, <1>7, <1>8, <1>9

(* Rotations, snapshots and new statements leave the line alone. *)
LEMMA LineOutside ==
  ASSUME IndInv, Led, Led', NEW t \in Session, ~Die,
         Rotate(t) \/ Snapshot(t) \/ Begin(t)
  PROVE  Line' = Line
<1>1. /\ UNCHANGED <<m_queue, final_queue, todo>>
      /\ pc[t] \notin {"commit"} \cup Syncing \cup Flushing
      /\ pc'[t] \notin {"commit"} \cup Syncing \cup Flushing
      /\ \A v \in Session : v # t => pc'[v] = pc[v]
  <2>0. pc \in [Session -> Label]
    BY DEF IndInv, TypeOK, PipelineTypeOK
  <2>1. CASE Rotate(t)
    BY <2>0, <2>1 DEF Rotate, RotateLock, RotateClose, RotateReopen,
       RotateFails, Return, Goto, queues, Syncing, Flushing
  <2>2. CASE Snapshot(t)
    BY <2>0, <2>2 DEF Snapshot, xlock, xlock_commits, xunlock, Goto, queues,
       Syncing, Flushing
  <2>3. CASE Begin(t)
    BY <2>0, <2>3 DEF Begin, prepare, CommitUnlogged, FlushLogs, StartSnapshot,
       Goto, queues, Syncing, Flushing
  <2> QED BY <2>1, <2>2, <2>3
<1>2. InCommit' = InCommit /\ InSync' = InSync /\ InFlush' = InFlush
  BY <1>1, PartsMove
<1> QED BY <1>1, <1>2 DEF Line

(* A session that is flushed joins the line. *)
LEMMA FlushJoins ==
  ASSUME IndInv, DurInv, Led, Led', LineLogged, LinePrepared, server = "up",
         ~IoErrors, NEW t \in Session, FlushOne(t) \/ FlushRest(t)
  PROVE  LineLogged' /\ LinePrepared'
<1>0. TypeOK /\ PipelineTypeOK /\ PipeInv
  BY DEF IndInv, TypeOK
<1>1. PICK h \in Session : /\ ToFlush(h) /\ flush_thread_caches(h, TRUE)
                           /\ final_queue'[t] = Append(final_queue[t], h)
                           /\ Unflushed(h)
  <2>1. CASE FlushOne(t)
    <3> DEFINE h == Head(m_queue["FLUSH"])
    <3>1. h \in Session /\ ToFlush(h)
      BY <1>0, <2>1, FlushOneMoves
    <3>2. /\ flush_thread_caches(h, TRUE)
          /\ final_queue'[t] = Append(final_queue[t], h)
      BY <1>0, <2>1 DEF FlushOne, flush_thread_caches, PipelineTypeOK
    <3> QED BY <3>1, <3>2 DEF ToFlush, Unflushed
  <2>2. CASE FlushRest(t)
    <3> DEFINE h == Head(todo[t])
    <3>1. h \in Session /\ ToFlush(h)
      BY <1>0, <2>2, FlushRestMoves
    <3>2. /\ flush_thread_caches(h, TRUE)
          /\ final_queue'[t] = Append(final_queue[t], h)
      BY <1>0, <2>2 DEF FlushRest, flush_thread_caches, PipelineTypeOK
    <3> QED BY <3>1, <3>2 DEF ToFlush, Unflushed
  <2> QED BY <2>1, <2>2
<1>2. /\ UNCHANGED <<commit_log, boot, prepared, trx>>
      /\ m_queue'["COMMIT"] = m_queue["COMMIT"]
      /\ m_queue'["SYNC"] = m_queue["SYNC"]
      /\ pc[t] \in Flushing /\ pc'[t] \in Flushing
      /\ \A v \in Session : v # t =>
           /\ pc'[v] = pc[v] /\ todo'[v] = todo[v]
           /\ final_queue'[v] = final_queue[v]
  BY <1>0 DEF FlushOne, FlushRest, Goto, engine, restart, PipelineTypeOK, Stage,
     Flushing
<1>3. /\ binlog' = Append(binlog, Tid(h))
      /\ xid_written' = [xid_written EXCEPT ![h] = TRUE]
      /\ Tid(h) \in prepared /\ ~xid_written[h]
  BY <1>1 DEF flush_thread_caches, DurInv, PreparedOnWay, IndInv, FlushOnce
<1>4. /\ InCommit' = InCommit /\ InSync' = InSync
      /\ InFlush = final_queue[t] /\ InFlush' = final_queue'[t]
  <2>1. /\ pc[t] # "commit" /\ pc'[t] # "commit"
        /\ pc[t] \notin Syncing /\ pc'[t] \notin Syncing
    BY <1>2 DEF Syncing, Flushing
  <2> QED BY <1>2, <2>1, PartsMove
<1>5. Line' = Behind(Line, <<h>>)
  <2> DEFINE b == m_queue["COMMIT"]
             d == m_queue["SYNC"]
             x == <<h>>
  <2>1. /\ InCommit \in Seq(Session) /\ b \in Seq(Session)
        /\ InSync \in Seq(Session) /\ d \in Seq(Session)
        /\ InFlush \in Seq(Session) /\ x \in Seq(Session)
    BY <1>0, LineParts
  <2>2. InFlush' = Behind(InFlush, x)
    <3>1. Append(final_queue[t], h) = final_queue[t] \o <<h>>
      BY <1>4, <2>1, AppendIsConcat
    <3> QED BY <1>1, <1>4, <3>1 DEF Behind
  <2>3. /\ Line = Joined(InCommit, b, InSync, d, InFlush)
        /\ Line' = Joined(InCommit, b, InSync, d, Behind(InFlush, x))
    BY <1>2, <1>4, <2>2 DEF Line
  <2> HIDE DEF b, d, x
  <2>4. Line' = Behind(Line, x)
    BY <2>1, <2>3, LineMoves
  <2> QED BY <2>4 DEF x
<1> QED BY <1>2, <1>3, <1>5, LineJoins

(* A session that is committed leaves the line, from its head. *)
LEMMA CommitLeaves ==
  ASSUME IndInv, TypeOK', Led, Led', LineLogged, LinePrepared, server = "up",
         NEW t \in Session, CommitOne(t)
  PROVE  LineLogged' /\ LinePrepared'
<1>0. TypeOK /\ PipelineTypeOK /\ PipeInv
  BY DEF IndInv, TypeOK
<1> DEFINE h == Head(todo[t])
<1>1. /\ pc[t] = "commit" /\ pc'[t] \in {"commit", "sync_error", "signal"}
      /\ pc'[t] # "commit" => ~(Len(todo[t]) > 1)
      /\ todo'[t] = Tail(todo[t])
      /\ UNCHANGED <<m_queue, binlog, boot, trx>>
      /\ commit_low(h) => ha_commit_low(Tid(h))
      /\ dec_prep_xids(h)
      /\ \A v \in Session : v # t =>
           /\ pc'[v] = pc[v] /\ todo'[v] = todo[v]
           /\ final_queue'[v] = final_queue[v]
  BY <1>0 DEF CommitOne, Goto, logfile, restart, PipelineTypeOK,
     dec_after_commit
<1>2. todo[t] \in Seq(Session) /\ todo[t] # <<>>
  BY <1>0, <1>1 DEF PipelineTypeOK, PipeInv, LoopState
<1>3. /\ InCommit = todo[t] /\ InCommit' = Tail(todo[t])
      /\ InSync' = InSync /\ InFlush' = InFlush
  <2>1. Len(todo[t]) > 1 <=> Tail(todo[t]) # <<>>
    BY <1>2, ElemsHeadTail
  <2>2. /\ pc[t] \notin Syncing /\ pc'[t] \notin Syncing
        /\ pc[t] \notin Flushing /\ pc'[t] \notin Flushing
    BY <1>1 DEF Syncing, Flushing
  <2>3. InSync' = InSync /\ InFlush' = InFlush /\ InCommit = todo[t]
    BY <1>1, <2>2, PartsMove
  <2>4. CASE pc'[t] = "commit"
    BY <1>1, <2>3, <2>4, PartsMove
  <2>5. CASE pc'[t] # "commit"
    BY <1>1, <2>1, <2>3, <2>5, PartsMove
  <2> QED BY <2>3, <2>4, <2>5
<1>4. Line = Behind(<<h>>, Line') /\ Line' \in Seq(Session) /\ h \in Session
  <2> DEFINE b == m_queue["COMMIT"]
             d == m_queue["SYNC"]
  <2>1. /\ b \in Seq(Session) /\ InSync \in Seq(Session) /\ d \in Seq(Session)
        /\ InFlush \in Seq(Session) /\ InCommit' \in Seq(Session)
        /\ Line' \in Seq(Session)
    <3>1. (TypeOK => InCommit \in Seq(Session) /\ Line \in Seq(Session))'
      BY LineType, PTL
    <3> QED BY <1>0, <3>1, LineParts
  <2>2. /\ Line = Joined(InCommit, b, InSync, d, InFlush)
        /\ Line' = Joined(InCommit', b, InSync, d, InFlush)
    BY <1>1, <1>3 DEF Line
  <2>3. h \in Session /\ InCommit = Behind(<<h>>, InCommit')
    BY <1>2, <1>3, HeadTailCons
  <2> DEFINE x == <<h>>
  <2>4. x \in Seq(Session)
    BY <2>3
  <2> HIDE DEF b, d, x
  <2>5. Joined(Behind(x, InCommit'), b, InSync, d, InFlush)
          = Behind(x, Joined(InCommit', b, InSync, d, InFlush))
    BY <2>1, <2>4, LineHead, SMTT(20)
  <2>6. Line = Behind(x, Line')
    BY <2>2, <2>3, <2>5 DEF x
  <2> QED BY <2>1, <2>3, <2>6 DEF x
<1>5. h \in Session /\ h \in Elems(Line)
  <2> HIDE DEF h
  <2>1. Line # <<>> /\ Head(Line) = h
    BY <1>4, HeadTailCons
  <2>2. Line \in Seq(Session)
    BY <1>0, LineParts
  <2>3. Head(Line) \in Elems(Line)
    BY <2>1, <2>2, ElemsHeadTail
  <2> QED BY <1>4, <2>1, <2>3
<1>6. Tid(h) \in prepared
  BY <1>5 DEF LinePrepared
<1>7. commit_log' = Append(commit_log, Tid(h)) /\ prepared' = prepared \ {Tid(h)}
  BY <1>1, <1>6 DEF commit_low, ha_commit_low
<1>8. \A u \in Session : u # h => xid_written'[u] = xid_written[u]
  BY <1>0, <1>1, <1>5 DEF dec_prep_xids, PipelineTypeOK
<1> HIDE DEF h
<1> QED BY <1>1, <1>4, <1>7, <1>8, LineLeaves

(***************************************************************************)
(* The order of the log is the order of the engine.                        *)
(***************************************************************************)

(* The line stays what the log is ahead of the engine. *)
LEMMA LineStep ==
  ASSUME Ordered, IndInv, DurInv, ModeInv, ErrorFree, LogKept, LineInv,
         IndInv', DurInv', ModeInv', [Next]_vars
  PROVE  LineInv'
<1>0. /\ TypeOK /\ TypeOK' /\ is_open /\ order_commits /\ KeepsLog
      /\ \A t \in Session : ~SyncError(t)
  BY DEF Ordered, IndInv, TypeOK, PipelineTypeOK, LogKept, KeepsLog, ErrorFree,
         SyncError
<1>1. SyncHeld'
  BY <1>0, SyncHeldStep DEF LineInv
<1>2. Led /\ Led'
  <2>1. Led
    BY DEF Led, LineInv, SyncHeld, DurInv, LogHeld, ModeInv, CommitHeld,
           Flushing, LogOwner
  <2>2. Led'
    BY <1>1 DEF Led, SyncHeld, DurInv, LogHeld, ModeInv, CommitHeld, Flushing,
                Syncing, LogOwner
  <2> QED BY <2>1, <2>2
<1>3. CASE Die
  BY <1>1, <1>3 DEF Die, LineInv, LineLogged, LinePrepared
<1>4. ASSUME NEW t \in Session, server = "up", OrderedCommit(t), ~Die
      PROVE  LineLogged' /\ LinePrepared'
  <2>1. CASE FlushOne(t) \/ FlushRest(t)
    BY <1>2, <1>4, <2>1, FlushJoins DEF Ordered, LineInv
  <2>2. CASE CommitOne(t)
    BY <1>0, <1>2, <1>4, <2>2, CommitLeaves DEF LineInv
  <2>3. CASE ~FlushOne(t) /\ ~FlushRest(t) /\ ~CommitOne(t)
    <3>1. \/ EnrollFlush(t) \/ LockLog(t) \/ FetchRest(t) \/ FlushToFile(t)
          \/ EnrollSync(t) \/ LockSync(t) \/ sync_binlog_file(t)
          \/ EnterCommit(t) \/ LockCommit(t) \/ signal_done(t)
          \/ finish_commit(t)
      BY <1>0, <1>4, <2>3, NeverCloses DEF OrderedCommit
    <3>2. Line' = Line
      BY <1>0, <1>2, <3>1, LineKept
    <3>3. finish_commit(t) => UNCHANGED engine
      <4>1. finish_commit(t) => ~pending[t] /\ pc[t] # "prepared"
        BY DEF finish_commit, IndInv, PipeInv, PendingCommits, Committing
      <4>2. finish_commit(t) => Tid(t) \notin prepared
        BY <1>0, <1>4, <4>1 DEF ModeInv, Settled
      <4> QED BY <4>2 DEF finish_commit
    <3>4. UNCHANGED <<binlog, commit_log, prepared, boot, trx>>
      BY <3>1, <3>3 DEF EnrollFlush, LockLog, FetchRest, FlushToFile,
         EnrollSync, LockSync, sync_binlog_file, EnterCommit, LockCommit,
         signal_done, finish_commit, engine, logfile, restart
    <3>5. \A u \in Elems(Line) : u # t \/ xid_written' = xid_written
      <4>1. EnrollFlush(t) \/ finish_commit(t) => ~pending[t]
        BY DEF EnrollFlush, finish_commit, IndInv, PipeInv, PendingCommits,
               Committing
      <4>2. EnrollFlush(t) \/ finish_commit(t) => t \notin Elems(Line)
        BY <4>1, LineWaits
      <4>3. EnrollFlush(t) \/ finish_commit(t) \/ xid_written' = xid_written
        BY <3>1 DEF LockLog, FetchRest, FlushToFile, EnrollSync, LockSync,
           sync_binlog_file, EnterCommit, LockCommit, signal_done, flags
      <4> QED BY <4>2, <4>3
    <3>6. \A u \in Session : u # t => xid_written'[u] = xid_written[u]
      BY <1>0, <3>1 DEF EnrollFlush, LockLog, FetchRest, FlushToFile,
         EnrollSync, LockSync, sync_binlog_file, EnterCommit, LockCommit,
         signal_done, finish_commit, dec_prep_xids, flags, TypeOK,
         PipelineTypeOK
    <3>7. \A u \in Elems(Line) : Tid(u)' = Tid(u) /\ xid_written'[u] = xid_written[u]
      BY <3>4, <3>5, <3>6, LineWaits DEF Tid
    <3> QED BY <1>4, <3>2, <3>4, <3>7, LineQuiet DEF LineInv
  <2> QED BY <2>1, <2>2, <2>3
<1>5. ASSUME NEW t \in Session, server = "up",
             Rotate(t) \/ Snapshot(t) \/ Begin(t), ~Die
      PROVE  LineLogged' /\ LinePrepared'
  <2>1. Line' = Line
    BY <1>2, <1>5, LineOutside
  <2>2. ~RotateFails(t) /\ ~CommitUnlogged(t)
    BY <1>0, <1>5, NeverCloses DEF CommitUnlogged
  <2>3. /\ UNCHANGED <<binlog, commit_log, boot, xid_written>>
        /\ prepared \subseteq prepared'
    BY <1>5, <2>2 DEF Rotate, RotateLock, RotateClose, RotateReopen, Snapshot,
       xlock, xlock_commits, xunlock, Begin, prepare, FlushLogs, StartSnapshot,
       engine, logfile, restart, flags
  <2>4. \A u \in Session : pc[u] # "idle" => trx'[u] = trx[u]
    BY <1>0, <1>5 DEF Rotate, RotateLock, RotateClose, RotateReopen,
       RotateFails, Snapshot, xlock, xlock_commits, xunlock, Begin, prepare,
       CommitUnlogged, FlushLogs, StartSnapshot, TypeOK, DataTypeOK
  <2>5. \A u \in Elems(Line) : Tid(u)' = Tid(u)
    <3>1. \A u \in Elems(Line) : u \in Session /\ pc[u] # "idle"
      BY LineWaits DEF IndInv, PipeInv, PendingCommits, Committing
    <3> QED BY <2>4, <3>1 DEF Tid
  <2> QED BY <1>5, <2>1, <2>3, <2>5, LineQuiet DEF LineInv
<1>6. CASE SetSyncPeriod \/ SetOrderCommits \/ UNCHANGED vars
  <2>1. UNCHANGED <<pc, m_queue, final_queue, todo, LOCK_log, LOCK_sync,
                    LOCK_commit, xid_written, binlog, commit_log, prepared,
                    boot, server, trx>>
    BY <1>6 DEF SetSyncPeriod, SetOrderCommits, vars, queues, locks, flags,
       engine, logfile, restart
  <2>2. Line' = Line
    BY <2>1 DEF Line, Joined, InCommit, InSync, InFlush, Group
  <2>3. \A u : Tid(u)' = Tid(u)
    BY <2>1 DEF Tid
  <2>4. server = "up" => LineLogged' /\ LinePrepared'
    BY <2>1, <2>2, <2>3, LineQuiet DEF LineInv
  <2> QED BY <1>1, <2>1, <2>4 DEF LineInv, LineLogged, LinePrepared
<1>7. CASE ha_recover
  <2>1. server' = "up" =>
          /\ boot' = Len(binlog) /\ binlog' = binlog /\ commit_log' = <<>>
          /\ Line' = <<>>
    <3>1. Reset /\ commit_log = <<>>
      BY <1>7 DEF ha_recover, DurInv, DownReset
    <3>2. /\ \A t \in Session : pc'[t] = "idle"
          /\ m_queue'["COMMIT"] = <<>> /\ m_queue'["SYNC"] = <<>>
          /\ commit_log' = <<>> /\ binlog' = binlog
      BY <1>7, <3>1 DEF ha_recover, Reset, queues, Stage
    <3>3. InCommit' = <<>> /\ InSync' = <<>> /\ InFlush' = <<>>
      BY <3>2 DEF InCommit, InSync, InFlush, Group, Syncing, Flushing
    <3>4. Line' = <<>>
      <4>1. Line' = Joined(<<>>, <<>>, <<>>, <<>>, <<>>)
        BY <3>2, <3>3 DEF Line
      <4>2. <<>> \o <<>> = <<>>
        OBVIOUS
      <4> QED BY <4>1, <4>2 DEF Joined, Behind
    <3> QED BY <1>7, <3>2, <3>4 DEF ha_recover
  <2>2. Len(binlog) \in Nat
    BY LineTypes
  <2>3. LineLogged'
    BY <2>1, <2>2 DEF LineLogged
  <2>4. LinePrepared'
    BY <2>1 DEF LinePrepared, Distinct, Elems
  <2> QED BY <1>1, <2>3, <2>4 DEF LineInv
<1> QED BY <1>1, <1>3, <1>4, <1>5, <1>6, <1>7 DEF Next, Step, Crash, LineInv

(* With ordered commits and without I/O errors the sessions between their  *)
(* flush and their commit are, in order, what the log is ahead of the      *)
(* engine, in every state and after any number of crashes.                 *)
THEOREM LineInvariant ==
  ASSUME Ordered
  PROVE  Spec => [](IndInv /\ DurInv /\ ModeInv /\ LineInv)
<1>0. OrderFixed
  BY DEF Ordered, OrderFixed
<1>1. Init => LineInv
  <2> SUFFICES ASSUME Init PROVE LineInv
    OBVIOUS
  <2>1. /\ \A t \in Session : pc[t] = "idle"
        /\ m_queue["COMMIT"] = <<>> /\ m_queue["SYNC"] = <<>>
        /\ commit_log = <<>> /\ binlog = <<>> /\ boot = 0
    BY DEF Init, Stage
  <2>2. InCommit = <<>> /\ InSync = <<>> /\ InFlush = <<>>
    BY <2>1 DEF InCommit, InSync, InFlush, Group, Syncing, Flushing
  <2>3. Line = <<>>
    <3>1. Line = Joined(<<>>, <<>>, <<>>, <<>>, <<>>)
      BY <2>1, <2>2 DEF Line
    <3>2. <<>> \o <<>> = <<>>
      OBVIOUS
    <3> QED BY <3>1, <3>2 DEF Joined, Behind
  <2> QED BY <2>1, <2>3 DEF LineInv, SyncHeld, Syncing, LineLogged,
             LinePrepared, Distinct, Elems
<1>2. (/\ IndInv /\ DurInv /\ ErrorFree /\ LogKept /\ ModeInv /\ LineInv
       /\ IndInv' /\ DurInv' /\ ModeInv' /\ [Next]_vars) => LineInv'
  BY LineStep
<1>3. Spec => [](IndInv /\ DurInv /\ ModeInv)
  BY <1>0, ModeInvariant
<1> QED BY <1>1, <1>2, <1>3, KeptInvariant, PTL DEF Spec

(* The COMMIT stage gives the engine the order of the log: for any number  *)
(* of sessions, any sync_binlog and any crashes, what the engine committed *)
(* since the start is the log since the start, in order and without a gap. *)
THEOREM EngineFollowsLog ==
  ASSUME Ordered
  PROVE  Spec => []CommitOrder
<1>1. IndInv /\ DurInv /\ LineInv => CommitOrder
  <2> SUFFICES ASSUME IndInv, DurInv, LineInv PROVE CommitOrder
    OBVIOUS
  <2>0. /\ binlog \in Seq(Trx) /\ commit_log \in Seq(Trx) /\ boot \in Nat
        /\ Len(binlog) \in Nat /\ Len(commit_log) \in Nat /\ Len(Line) \in Nat
        /\ boot <= Len(binlog)
    BY LineTypes DEF DurInv, FileOrder, IndInv, TypeOK, DataTypeOK
  <2>1. /\ boot + Len(commit_log) <= Len(binlog)
        /\ \A i \in 1..Len(commit_log) : commit_log[i] = binlog[boot + i]
    <3>1. CASE server = "up"
      BY <2>0, <3>1 DEF LineInv, LineLogged
    <3>2. CASE server # "up"
      BY <2>0, <3>2 DEF DurInv, DownReset
    <3> QED BY <3>1, <3>2
  <2> DEFINE s == SubSeq(binlog, boot + 1, boot + Len(commit_log))
  <2>2. /\ s \in Seq(Trx) /\ Len(s) = Len(commit_log)
        /\ \A i \in 1..Len(commit_log) : s[i] = binlog[boot + i]
    <3>1. \A i \in boot + 1..boot + Len(commit_log) : binlog[i] \in Trx
      BY <2>0, <2>1
    <3>2. /\ s \in Seq(Trx)
          /\ Len(s) = IF boot + 1 <= boot + Len(commit_log)
                      THEN boot + Len(commit_log) - (boot + 1) + 1 ELSE 0
          /\ \A i \in 1..boot + Len(commit_log) - (boot + 1) + 1 :
               s[i] = binlog[boot + 1 + i - 1]
      BY <2>0, <2>1, <3>1, SubSeqProperties
    <3>3. /\ boot + Len(commit_log) - (boot + 1) + 1 = Len(commit_log)
          /\ boot + 1 <= boot + Len(commit_log) <=> Len(commit_log) # 0
          /\ \A i \in 1..Len(commit_log) : boot + 1 + i - 1 = boot + i
      BY <2>0
    <3> QED BY <3>2, <3>3
  <2> HIDE DEF s
  <2>3. s = commit_log
    BY <2>0, <2>1, <2>2, SeqEqual
  <2> QED BY <2>3 DEF CommitOrder, s
<1> QED BY <1>1, LineInvariant, PTL

(***************************************************************************)
(* Answers after errors.                                                   *)
(***************************************************************************)

(* Where the transaction of a COMMIT is: prepared or committed while the   *)
(* COMMIT is under way, committed when it rotates and when it is answered. *)
(* A server that dies may lose commits; as long as it has not, none is.    *)
Underway == Committing \cup {"prepared", "finish"}
Rotating == {"rotate", "rot_wait", "rot_reopen"}
Answers ==
  crashes = 0 =>
    /\ acked \subseteq Done
    /\ \A t \in Session :
         /\ pc[t] \in Underway => Tid(t) \in prepared \cup Done
         /\ pc[t] \in Rotating /\ do_rotate[t] => Tid(t) \in Done

(* A step of t after which the engine has no less. *)
LEMMA AnswersKept ==
  ASSUME Answers, NEW t \in Session, crashes' = crashes,
         Done \subseteq Done', prepared \subseteq prepared' \cup Done',
         \A u \in Session : u # t =>
           /\ pc'[u] = pc[u] /\ do_rotate'[u] = do_rotate[u]
           /\ trx'[u] = trx[u],
         crashes = 0 =>
           /\ acked' \subseteq Done'
           /\ pc'[t] \in Underway => Tid(t)' \in prepared' \cup Done'
           /\ pc'[t] \in Rotating /\ do_rotate'[t] => Tid(t)' \in Done'
  PROVE  Answers'
<1> SUFFICES ASSUME crashes = 0, NEW u \in Session
             PROVE  /\ acked' \subseteq Done'
                    /\ pc'[u] \in Underway => Tid(u)' \in prepared' \cup Done'
                    /\ pc'[u] \in Rotating /\ do_rotate'[u] => Tid(u)' \in Done'
  BY Zenon DEF Answers
<1>1. CASE u = t
  BY <1>1
<1>2. CASE u # t
  <2>1. Tid(u)' = Tid(u)
    BY <1>2 DEF Tid
  <2> QED BY <1>2, <2>1 DEF Answers
<1> QED BY <1>1, <1>2

(* The steps of ordered_commit.  The COMMIT stage commits whatever the     *)
(* errors, so that finish_commit finds nobody prepared.                    *)
LEMMA OrderedCommitAnswers ==
  ASSUME IndInv, DurInv, ModeInv, order_commits, server = "up", Answers,
         NEW t \in Session, OrderedCommit(t), ~Die
  PROVE  Answers'
<1>0. TypeOK /\ DataTypeOK /\ FileOrder /\ Tid(t) \in Trx
  BY TidInjective DEF IndInv, DurInv, TypeOK
<1>1. CASE ~CommitOne(t) /\ ~finish_commit(t)
  <2>1. UNCHANGED <<prepared, commit_log, committed, crashes, trx, acked>>
    BY <1>1 DEF OrderedCommit, EnrollFlush, LockLog, FlushOne, FetchRest,
       FlushRest, FlushToFile, HandleFlushError, EnrollSync, LockSync,
       sync_binlog_file, EnterCommit, LockCommit, HandleSyncError,
       signal_done, engine, restart
  <2>2. pc[t] \in Underway /\ pc'[t] \notin Rotating
    <3>1. CASE EnrollFlush(t) \/ LockLog(t) \/ EnrollSync(t) \/ EnterCommit(t)
      BY <1>0, <3>1 DEF EnrollFlush, LockLog, EnrollSync, EnterCommit,
         enroll_for, Goto, TypeOK, PipelineTypeOK, Underway, Committing, Rotating
    <3>2. CASE \/ FlushOne(t) \/ FetchRest(t) \/ FlushRest(t) \/ FlushToFile(t)
               \/ HandleFlushError(t) \/ LockSync(t) \/ sync_binlog_file(t)
               \/ LockCommit(t) \/ HandleSyncError(t) \/ signal_done(t)
      BY <1>0, <3>2 DEF FlushOne, FetchRest, FlushRest, FlushToFile,
         HandleFlushError, LockSync, sync_binlog_file, LockCommit,
         HandleSyncError, signal_done, Goto, TypeOK, PipelineTypeOK, Underway,
         Committing, Rotating
    <3> QED BY <1>1, <3>1, <3>2 DEF OrderedCommit
  <2>3. \A u \in Session : u # t => /\ pc'[u] = pc[u]
                                    /\ do_rotate'[u] = do_rotate[u]
    <3>1. CASE EnrollFlush(t) \/ LockLog(t) \/ EnrollSync(t) \/ EnterCommit(t)
      BY <1>0, <3>1 DEF EnrollFlush, LockLog, EnrollSync, EnterCommit,
         enroll_for, Goto, TypeOK, PipelineTypeOK, locals
    <3>2. CASE \/ FlushOne(t) \/ FetchRest(t) \/ FlushRest(t) \/ FlushToFile(t)
               \/ HandleFlushError(t) \/ LockSync(t) \/ sync_binlog_file(t)
               \/ LockCommit(t) \/ HandleSyncError(t) \/ signal_done(t)
      BY <1>0, <3>2 DEF FlushOne, FetchRest, FlushRest, FlushToFile,
         HandleFlushError, LockSync, sync_binlog_file, LockCommit,
         HandleSyncError, signal_done, Goto, TypeOK, PipelineTypeOK, locals
    <3> QED BY <1>1, <3>1, <3>2 DEF OrderedCommit
  <2>4. Done' = Done /\ Tid(t)' = Tid(t)
    BY <2>1 DEF Done, Tid
  <2> QED BY <2>1, <2>2, <2>3, <2>4, AnswersKept DEF Answers
<1>2. CASE CommitOne(t)
  <2>1. PICK h \in Session : CommitsOne(h)
    BY <1>2, CommitOneCommits
  <2>2. /\ pc[t] = "commit" /\ UNCHANGED <<do_rotate, crashes, trx, acked>>
        /\ committed' = committed
        /\ \A u \in Session : u # t => pc'[u] = pc[u]
        /\ pc'[t] \in {"commit", "sync_error", "signal"}
    BY <1>0, <1>2 DEF CommitOne, Goto, TypeOK, PipelineTypeOK, locals, restart
  <2>3. Done \subseteq Done' /\ prepared \subseteq prepared' \cup Done'
    <3>1. CASE ha_commit_low(Tid(h))
      BY <1>0, <2>2, <3>1, CommitLow, TidInjective
    <3>2. CASE UNCHANGED engine
      BY <2>2, <3>2 DEF engine, Done
    <3> QED BY <2>1, <3>1, <3>2 DEF CommitsOne
  <2>4. Tid(t)' = Tid(t) /\ pc[t] \in Underway /\ pc'[t] \notin Rotating
    BY <2>2 DEF Tid, Underway, Committing, Rotating
  <2> QED BY <2>2, <2>3, <2>4, AnswersKept DEF Answers
<1>3. CASE finish_commit(t)
  <2>1. /\ UNCHANGED <<do_rotate, crashes, trx>> /\ committed' = committed
        /\ \A u \in Session : u # t => pc'[u] = pc[u]
        /\ pc'[t] \in {"idle", "rotate"}
        /\ acked' \in {acked, acked \cup {Tid(t)}}
    BY <1>0, <1>3 DEF finish_commit, Goto, TypeOK, PipelineTypeOK, locals,
       restart
  <2>2. ~pending[t] /\ pc[t] # "prepared" /\ pc[t] \in Underway
    BY <1>3 DEF finish_commit, IndInv, PipeInv, PendingCommits, Committing,
       Underway
  <2>3. Tid(t) \notin prepared
    BY <2>2 DEF ModeInv, Settled
  <2>4. UNCHANGED <<prepared, commit_log>>
    BY <1>3, <2>3 DEF finish_commit, engine
  <2>5. Done' = Done /\ Tid(t)' = Tid(t)
    BY <2>1, <2>4 DEF Done, Tid
  <2>6. crashes = 0 => Tid(t) \in Done
    BY <2>2, <2>3 DEF Answers
  <2>7. pc'[t] \notin Underway
    BY <2>1 DEF Underway, Committing
  <2> QED BY <2>1, <2>4, <2>5, <2>6, <2>7, AnswersKept DEF Answers
<1> QED BY <1>1, <1>2, <1>3

(* Everything else a session does. *)
LEMMA OutsideAnswers ==
  ASSUME IndInv, Answers, NEW t \in Session,
         Rotate(t) \/ Snapshot(t) \/ Begin(t), ~Die
  PROVE  Answers'
<1>0. TypeOK
  BY DEF IndInv
<1>1. CASE Rotate(t)
  <2>1. /\ UNCHANGED <<prepared, commit_log, committed, crashes, trx, do_rotate>>
        /\ \A u \in Session : u # t => pc'[u] = pc[u]
        /\ pc[t] \in Rotating /\ pc'[t] \in Rotating \cup {"idle"}
        /\ acked' \in {acked, IF do_rotate[t] THEN acked \cup {Tid(t)} ELSE acked}
    BY <1>0, <1>1 DEF Rotate, RotateLock, RotateClose, RotateReopen,
       RotateFails, Return, Goto, Rotating, TypeOK, PipelineTypeOK, engine,
       restart, locals
  <2>2. Done' = Done /\ Tid(t)' = Tid(t)
    BY <2>1 DEF Done, Tid
  <2>3. pc'[t] \notin Underway
    BY <2>1 DEF Underway, Committing, Rotating
  <2> QED BY <2>1, <2>2, <2>3, AnswersKept DEF Answers
<1>2. CASE Snapshot(t) \/ FlushLogs(t) \/ StartSnapshot(t)
  <2>1. /\ UNCHANGED <<prepared, commit_log, committed, crashes, acked>>
        /\ \A u \in Session : u # t => /\ pc'[u] = pc[u] /\ trx'[u] = trx[u]
                                       /\ do_rotate'[u] = do_rotate[u]
        /\ pc'[t] \in {"snap_lock", "snap_commit", "snap_rw", "snapshot",
                       "idle", "rotate"}
        /\ pc'[t] = "rotate" => ~do_rotate'[t]
    BY <1>0, <1>2 DEF Snapshot, xlock, xlock_commits, xunlock, FlushLogs,
       StartSnapshot, Goto, TypeOK, PipelineTypeOK, DataTypeOK, engine, restart,
       locals
  <2>2. Done' = Done
    BY <2>1 DEF Done
  <2>3. /\ pc'[t] \notin Underway
        /\ pc'[t] \in Rotating => pc'[t] = "rotate"
    BY <2>1 DEF Underway, Committing, Rotating
  <2> QED BY <2>1, <2>2, <2>3, AnswersKept DEF Answers
<1>3. CASE prepare(t)
  <2>1. /\ UNCHANGED <<commit_log, committed, crashes, acked, do_rotate>>
        /\ \A u \in Session : u # t => pc'[u] = pc[u] /\ trx'[u] = trx[u]
        /\ pc'[t] = "prepared" /\ trx'[t] = trx[t] + 1
        /\ prepared' = prepared \cup {<<t, trx[t] + 1>>}
    BY <1>0, <1>3 DEF prepare, Goto, TypeOK, PipelineTypeOK, DataTypeOK,
       restart, locals
  <2>2. Done' = Done /\ Tid(t)' \in prepared'
    BY <2>1 DEF Done, Tid
  <2>3. pc'[t] \notin Rotating
    BY <2>1 DEF Rotating
  <2> QED BY <2>1, <2>2, <2>3, AnswersKept DEF Answers
<1>4. CASE CommitUnlogged(t)
  <2>1. PICK x : x = <<t, trx[t] + 1>>
    OBVIOUS
  <2>2. /\ UNCHANGED <<prepared, committed, crashes, do_rotate, pc>>
        /\ \A u \in Session : u # t => trx'[u] = trx[u]
        /\ pc[t] = "idle" /\ trx[t] < MaxTrx
        /\ commit_log' = Append(commit_log, x) /\ acked' = acked \cup {x}
    BY <1>0, <1>4, <2>1 DEF CommitUnlogged, TypeOK, DataTypeOK, restart, locals
  <2>3. x \in Trx /\ commit_log \in Seq(Trx)
    BY <1>0, <2>1, <2>2, BoundAssumption DEF TypeOK, DataTypeOK, Trx
  <2>4. Elems(commit_log') = Elems(commit_log) \cup {x}
    <3>1. /\ Append(commit_log, x) = commit_log \o <<x>>
          /\ Elems(commit_log \o <<x>>) = Elems(commit_log) \cup {x}
      BY <2>3, ElemsAppend
    <3> QED BY <2>2, <3>1
  <2>5. Done' = Done \cup {x}
    BY <2>2, <2>4 DEF Done
  <2>6. pc'[t] \notin Underway /\ pc'[t] \notin Rotating
    BY <2>2 DEF Underway, Committing, Rotating
  <2> QED BY <2>2, <2>5, <2>6, AnswersKept DEF Answers
<1> QED BY <1>1, <1>2, <1>3, <1>4 DEF Begin

LEMMA AnswersStep ==
  ASSUME IndInv, DurInv, ModeInv, order_commits, Answers, [Next]_vars
  PROVE  Answers'
<1>1. CASE Die
  <2>1. crashes \in Nat /\ crashes' = crashes + 1
    BY <1>1 DEF Die, IndInv, TypeOK, DataTypeOK
  <2> QED BY <2>1 DEF Answers
<1>2. ASSUME NEW t \in Session, Step(t), ~Die
      PROVE  Answers'
  BY <1>2, OrderedCommitAnswers, OutsideAnswers DEF Step
<1>3. ASSUME NEW t \in Session, Begin(t), ~Die
      PROVE  Answers'
  BY <1>3, OutsideAnswers
<1>4. CASE SetSyncPeriod \/ SetOrderCommits \/ UNCHANGED vars
  <2>1. UNCHANGED <<pc, prepared, commit_log, committed, crashes, trx, acked,
                    do_rotate>>
    BY <1>4 DEF SetSyncPeriod, SetOrderCommits, vars, engine, restart, locals
  <2> QED BY <2>1 DEF Answers, Done, Tid
<1>5. CASE ha_recover
  <2>1. /\ UNCHANGED <<pc, commit_log, crashes, trx, acked, do_rotate>>
        /\ committed \subseteq committed'
    BY <1>5 DEF ha_recover, locals
  <2>2. \A t \in Session : pc[t] = "idle"
    BY <1>5 DEF ha_recover, DurInv, DownReset, Reset
  <2>3. Done \subseteq Done'
    BY <2>1 DEF Done
  <2> QED BY <2>1, <2>2, <2>3 DEF Answers, Underway, Committing, Rotating
<1> QED BY <1>1, <1>2, <1>3, <1>4, <1>5 DEF Next, Crash

(* With ordered commits, a COMMIT that was answered is committed in the    *)
(* engine as long as the server has not died, whatever writes and syncs of *)
(* the log failed and whether the log was closed: the COMMIT stage ignores *)
(* flush and sync errors.                                                  *)
THEOREM AnsweredDespiteErrors ==
  ASSUME OrderModes = {TRUE}
  PROVE  Spec => [](crashes = 0 => AckedIsCommitted)
<1>0. OrderFixed
  BY DEF OrderFixed
<1>1. Init => Answers
  <2> SUFFICES ASSUME Init PROVE Answers
    OBVIOUS
  <2>1. acked = {} /\ \A t \in Session : pc[t] = "idle"
    BY DEF Init
  <2> QED BY <2>1 DEF Answers, Underway, Committing, Rotating
<1>2. IndInv /\ DurInv /\ ModeInv /\ Answers /\ [Next]_vars => Answers'
  <2>1. IndInv => order_commits
    BY DEF IndInv, TypeOK, PipelineTypeOK
  <2> QED BY <2>1, AnswersStep
<1>3. Answers => (crashes = 0 => AckedIsCommitted)
  BY DEF Answers, AckedIsCommitted, Done
<1>4. Spec => [](IndInv /\ DurInv /\ ModeInv)
  BY <1>0, ModeInvariant
<1> QED BY <1>1, <1>2, <1>3, <1>4, PTL DEF Spec

=============================================================================
