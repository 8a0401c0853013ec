-------------------- MODULE GroupCommitRefinementProofs --------------------
(***************************************************************************)
(* A server that syncs every group (sync_binlog = 1) and meets no I/O      *)
(* error implements AtomicCommit, for any number of sessions, with and     *)
(* without binlog_order_commits, through rotations, crashes and recovery.  *)
(*                                                                         *)
(* SyncInv is inductive relative to the invariants of GroupCommitProofs    *)
(* and GroupCommitDurability.  It says where a transaction is on disk:     *)
(* behind LOCK_log nothing is unsynced, a commit record follows a synced   *)
(* log entry of the current file, an answered transaction is visible.      *)
(***************************************************************************)
EXTENDS GroupCommitRefinement, GroupCommitDurability

(* The setting in which the log is a reliable coordinator. *)
AlwaysSynced == ~IoErrors /\ SyncPeriods = {1}

(* Transaction x is in the log, past position m and not past n. *)
InLog(x, m, n) == \E i \in (m + 1)..n : binlog[i] = x

(* The leader keeps LOCK_log until its group is on disk. *)
SyncLock == \A t \in Session : pc[t] \in {"lock_sync", "sync"} => LOCK_log = t

(* After the flush stage the whole log has left the IO_CACHE. *)
FileWritten ==
  \A t \in Session :
    pc[t] \in {"enter_sync", "lock_sync", "sync"} => written = Len(binlog)

(* While nobody is between the first flush and the sync, all is on disk. *)
Writing ==
  {"flush", "flush_rest", "flushed", "enter_sync", "lock_sync", "sync"}
IdleSynced ==
  (\A t \in Session : pc[t] \notin Writing) => synced = Len(binlog)

(* A counted XID is in the current file, and there on disk unless its      *)
(* session is in a group on its way to the sync.                           *)
Unsynced(u) ==
  \/ u \in Elems(m_queue["SYNC"])
  \/ \E t \in Session : pc[t] \in Writing /\ u \in Elems(final_queue[t])
XidLogged ==
  \A u \in Session : xid_written[u] =>
    \/ InLog(Tid(u), log_start, synced)
    \/ Unsynced(u) /\ InLog(Tid(u), log_start, Len(binlog))

(* Who has left the flush behind is in the log, and counted until it is    *)
(* committed.                                                              *)
Past(u) == pc[u] \in Committing \cup {"finish"} /\ ~ToFlush(u)
PastLogged ==
  \A u \in Session : Past(u) =>
    /\ Tid(u) \in Elems(binlog)
    /\ Tid(u) \in prepared => xid_written[u]

(* No transaction is logged before its statement, or twice. *)
Fresh ==
  /\ \A x \in Elems(binlog) : x[2] <= trx[x[1]]
  /\ \A u \in Session :
       ToFlush(u) \/ pc[u] = "prepared" => Tid(u) \notin Elems(binlog)

(* A commit record that a crash may lose is one that recovery makes up     *)
(* for: its transaction is on disk in the current file.                    *)
CommitsLogged ==
  \A x \in Elems(commit_log) :
    x \in Elems(Prefix(commit_log, redo)) \/ InLog(x, log_start, synced)

(* Nothing is committed before it is on disk in the log. *)
DoneLogged == \A x \in Done : InLog(x, 0, synced)

(* Between two files every commit record is on disk. *)
RotFlushed ==
  \A t \in Session : pc[t] = "rot_reopen" => redo = Len(commit_log)

(* A COMMIT that rotates the log is committed before. *)
RotAnswers ==
  \A t \in Session :
    pc[t] \in {"rotate", "rot_wait", "rot_reopen"} /\ do_rotate[t] =>
      Tid(t) \in Done

(* What was answered is visible, or will be after recovery. *)
AckedKept == acked \subseteq Visible

(* The inductive invariant of this module. *)
SyncInv ==
  /\ SyncLock /\ FileWritten /\ IdleSynced /\ XidLogged /\ PastLogged /\ Fresh
  /\ CommitsLogged /\ DoneLogged /\ RotFlushed /\ RotAnswers /\ AckedKept

(* What the steps below start from. *)
Kept == IndInv /\ DurInv /\ ErrorFree /\ LogKept

(***************************************************************************)
(* LOCK_log and the end of the file.                                       *)
(***************************************************************************)

(* Whoever writes the file, or waits to sync it, holds LOCK_log. *)
LEMMA WriterHolds ==
  ASSUME DurInv, SyncLock, NEW t \in Session, pc[t] \in Writing
  PROVE  LOCK_log = t
BY DEF DurInv, LogHeld, LogOwner, SyncLock, Writing

(* With sync_binlog = 1 the leader of a flushed group finds the SYNC queue *)
(* empty: the leader before it held LOCK_log until its own sync was done.  *)
LEMMA SyncQueueEmpty ==
  ASSUME IndInv, DurInv, SyncLock, NEW t \in Session, pc[t] = "enter_sync"
  PROVE  m_queue["SYNC"] = <<>>
<1>1. \A u \in Session : pc[u] # "lock_sync"
  BY WriterHolds DEF Writing
<1> QED BY <1>1 DEF IndInv, PipeInv, OneLeader, Leads, Stage

(* No step leaves something in the log that is not on disk and not behind  *)
(* LOCK_log.                                                               *)
LEMMA SyncLockStep ==
  ASSUME AlwaysSynced, Kept, SyncInv, [Next]_vars, DurInv'
  PROVE  (SyncLock /\ FileWritten /\ IdleSynced)'
<1> DEFINE Goal == SyncLock /\ FileWritten /\ IdleSynced
<1> SUFFICES Goal'
  OBVIOUS
<1>0. /\ pc \in [Session -> Label] /\ sync_period = 1 /\ is_open
      /\ sync_counter \in Nat
      /\ NoOne \notin Session
      /\ \A t \in Session : pc[t] \in {"lock_sync", "sync"} => LOCK_log = t
      /\ \A t \in Session : pc[t] \in {"enter_sync", "lock_sync", "sync"} =>
           written = Len(binlog)
      /\ (\A t \in Session : pc[t] \notin Writing) => synced = Len(binlog)
      /\ \A t \in Session : pc[t] \in Writing => LOCK_log = t
  BY SessionAssumption, WriterHolds DEF AlwaysSynced, Kept, KeepsLog, LogKept,
     IndInv, TypeOK, PipelineTypeOK, SyncInv, SyncLock, FileWritten, IdleSynced
<1>00. ASSUME (\A t \in Session :
                 pc[t] \in {"lock_sync", "sync"} => LOCK_log = t)',
              (\A t \in Session :
                 pc[t] \in {"enter_sync", "lock_sync", "sync"} =>
                   written = Len(binlog))',
              ((\A t \in Session : pc[t] \notin Writing) =>
                 synced = Len(binlog))'
       PROVE  Goal'
  BY <1>00 DEF SyncLock, FileWritten, IdleSynced
<1>1. CASE Die
  <2>1. /\ \A t \in Session : pc'[t] = "idle"
        /\ synced' = Len(binlog')
    BY <1>1 DEF Die, DurInv, DownReset
  <2> QED BY <1>00, <2>1
<1> USE <1>0 DEF Writing, Goto
<1>2. ASSUME NEW t \in Session, OrderedCommit(t), ~Die PROVE Goal'
  <2>0. ~HandleFlushError(t) /\ ~HandleSyncError(t)
    BY <1>2, NeverCloses DEF Kept, AlwaysSynced, KeepsLog
  <2>1. CASE EnrollFlush(t) \/ LockLog(t) \/ FetchRest(t)
    <3>1. /\ UNCHANGED <<binlog, written, synced>>
          /\ \A u \in Session : pc'[u] # pc[u] => u = t
          /\ LOCK_log' = LOCK_log \/ LOCK_log = NoOne
          /\ pc[t] \in Writing => pc'[t] \in Writing
          /\ pc'[t] \notin {"enter_sync", "lock_sync", "sync"}
      BY <2>1 DEF EnrollFlush, LockLog, FetchRest, enroll_for, logfile, locks
    <3> QED BY <1>00, <3>1
  <2>2. CASE FlushOne(t) \/ FlushRest(t)
    <3>1. /\ LOCK_log' = LOCK_log /\ pc[t] \in {"flush", "flush_rest"}
          /\ \A u \in Session : u # t => pc'[u] = pc[u]
          /\ pc'[t] \in {"flush", "flush_rest", "flushed"}
      BY <2>2 DEF FlushOne, FlushRest, locks
    <3>2. \A u \in Session : u # t => pc[u] \notin Writing
      BY <3>1
    <3> QED BY <1>00, <3>1, <3>2
  <2>3. CASE FlushToFile(t)
    <3>1. /\ LOCK_log' = LOCK_log /\ pc[t] = "flushed"
          /\ \A u \in Session : u # t => pc'[u] = pc[u]
          /\ pc'[t] = "enter_sync" /\ written' = Len(binlog) /\ binlog' = binlog
      BY <2>3 DEF FlushToFile, locks
    <3> QED BY <1>00, <3>1
  <2>4. CASE EnrollSync(t)
    <3>1. m_queue["SYNC"] = <<>>
      BY <2>4, SyncQueueEmpty DEF EnrollSync, Kept, SyncInv
    <3>2. /\ pc[t] = "enter_sync" /\ pc'[t] = "lock_sync" /\ LOCK_log' = LOCK_log
          /\ \A u \in Session : u # t => pc'[u] = pc[u]
          /\ UNCHANGED <<binlog, written, synced>>
      BY <2>4, <3>1 DEF EnrollSync, enroll_for, need_LOCK_log, logfile
    <3> QED BY <1>00, <3>2
  <2>5. CASE LockSync(t)
    <3>1. /\ pc[t] = "lock_sync" /\ pc'[t] = "sync" /\ LOCK_log' = LOCK_log
          /\ \A u \in Session : u # t => pc'[u] = pc[u]
          /\ UNCHANGED <<binlog, written, synced>>
      BY <2>5 DEF LockSync, logfile
    <3> QED BY <1>00, <3>1
  <2>6. CASE sync_binlog_file(t)
    <3>1. /\ pc[t] = "sync" /\ pc'[t] = "enter_commit"
          /\ \A u \in Session : u # t => pc'[u] = pc[u]
          /\ UNCHANGED <<binlog, written>>
      BY <2>6 DEF sync_binlog_file
    <3>2. synced' = written
      <4>1. flush_error[t] = 0 /\ ~IoErrors
        BY <3>1 DEF Kept, ErrorFree, AlwaysSynced
      <4> QED BY <2>6, <4>1 DEF sync_binlog_file, sync_due
    <3>3. \A u \in Session : u # t => pc[u] \notin Writing
      BY <3>1
    <3> QED BY <1>00, <3>1, <3>2, <3>3
  <2>7. CASE \/ EnterCommit(t) \/ LockCommit(t) \/ CommitOne(t) \/ signal_done(t)
             \/ finish_commit(t)
    <3>1. /\ \A u \in Session : u # t => pc'[u] = pc[u]
          /\ pc[t] \notin Writing /\ pc'[t] \notin Writing
          /\ UNCHANGED <<binlog, written, synced>>
          /\ LOCK_log' = Unlock(LOCK_log, t) \/ LOCK_log' = LOCK_log
      BY <2>7 DEF EnterCommit, LockCommit, CommitOne, signal_done,
                  finish_commit, enroll_for, logfile, locks
    <3> QED BY <1>00, <3>1 DEF Unlock
  <2> QED BY <1>2, <2>0, <2>1, <2>2, <2>3, <2>4, <2>5, <2>6, <2>7
          DEF OrderedCommit
<1>3. ASSUME NEW t \in Session, Rotate(t), ~Die PROVE Goal'
  <2>0. ~RotateFails(t)
    BY <1>3, NeverCloses DEF Kept, AlwaysSynced, KeepsLog
  <2>1. /\ \A u \in Session : u # t => pc'[u] = pc[u]
        /\ pc[t] \notin Writing /\ pc'[t] \notin Writing
        /\ binlog' = binlog
        /\ \/ UNCHANGED <<written, synced>>
           \/ written' = Len(binlog) /\ synced' = Len(binlog)
    BY <1>3, <2>0 DEF Rotate, RotateLock, RotateClose, RotateReopen, Return,
                      logfile
  <2>2. LOCK_log' = LOCK_log \/ LOCK_log = NoOne \/ LOCK_log = t
    <3>1. pc[t] = "rot_reopen" => LOCK_log = t
      BY DEF Kept, DurInv, LogHeld, LogOwner
    <3> QED BY <1>3, <2>0, <3>1 DEF Rotate, RotateLock, RotateClose,
                                   RotateReopen, locks
  <2> QED BY <1>00, <2>1, <2>2
<1>4. ASSUME NEW t \in Session, Snapshot(t) PROVE Goal'
  <2>1. /\ \A u \in Session : u # t => pc'[u] = pc[u]
        /\ pc[t] \notin Writing /\ pc'[t] \notin Writing
        /\ UNCHANGED <<binlog, written, synced>>
    BY <1>4 DEF Snapshot, xlock, xlock_commits, xunlock, logfile
  <2>2. LOCK_log' = LOCK_log \/ LOCK_log = NoOne \/ LOCK_log = t
    <3>1. pc[t] = "snapshot" => LOCK_log = t
      BY DEF Kept, DurInv, LogHeld, LogOwner
    <3> QED BY <1>4, <3>1 DEF Snapshot, xlock, xlock_commits, xunlock
  <2> QED BY <1>00, <2>1, <2>2
<1>5. ASSUME NEW t \in Session, Begin(t) PROVE Goal'
  <2>1. /\ \A u \in Session : u # t => pc'[u] = pc[u]
        /\ pc[t] \notin Writing /\ pc'[t] \notin Writing
        /\ UNCHANGED <<binlog, written, synced, LOCK_log>>
    BY <1>5 DEF Begin, prepare, CommitUnlogged, FlushLogs, StartSnapshot,
                logfile, locks
  <2> QED BY <1>00, <2>1
<1>6. CASE SetSyncPeriod \/ SetOrderCommits \/ ha_recover \/ UNCHANGED vars
  <2>1. UNCHANGED <<pc, binlog, written, synced, LOCK_log>>
    BY <1>6 DEF SetSyncPeriod, SetOrderCommits, ha_recover, vars, logfile, locks
  <2> QED BY <1>00, <2>1
<1> HIDE DEF Goal
<1> QED BY <1>1, <1>2, <1>3, <1>4, <1>5, <1>6 DEF Next, Step, Crash

(***************************************************************************)
(* Steps that change neither the log nor the engine's transactions.        *)
(***************************************************************************)

(* What SyncInv says about transactions. *)
TrxInv == /\ XidLogged /\ PastLogged /\ Fresh /\ CommitsLogged /\ DoneLogged
          /\ RotFlushed /\ RotAnswers /\ AckedKept

(* Without a flush nobody is newly past it, and who is in a group that is  *)
(* not synced stays in one until the sync.                                 *)
LEMMA SyncMoves ==
  ASSUME IndInv, is_open, NEW t \in Session, ~Die, NEW u \in Session,
         \/ EnrollFlush(t) \/ LockLog(t) \/ FetchRest(t) \/ FlushToFile(t)
         \/ HandleFlushError(t) \/ EnrollSync(t) \/ LockSync(t)
         \/ sync_binlog_file(t) \/ EnterCommit(t) \/ LockCommit(t)
         \/ CommitOne(t) \/ HandleSyncError(t) \/ signal_done(t)
         \/ finish_commit(t)
  PROVE  /\ Past(u)' => Past(u)
         /\ pc[t] # "sync" /\ Unsynced(u) => Unsynced(u)'
<1>0. /\ pc \in [Session -> Label] /\ m_queue \in [Stage -> Seq(Session)]
      /\ final_queue \in [Session -> Seq(Session)]
      /\ todo \in [Session -> Seq(Session)]
      /\ {"FLUSH", "SYNC", "COMMIT"} \subseteq Stage
  BY DEF IndInv, TypeOK, PipelineTypeOK, Stage
<1>00. ASSUME \/ /\ pc[t] \in Committing \cup {"finish"}
                 /\ ToFlush(u) => ToFlush(u)'
              \/ (ToFlush(u) => ToFlush(u)') /\ ToFlush(t)',
              \A v \in Session : v # t => pc'[v] = pc[v]
       PROVE  Past(u)' => Past(u)
  BY <1>00 DEF Past
<1>1. CASE EnrollFlush(t)
  <2>1. /\ m_queue'["FLUSH"] = m_queue["FLUSH"] \o <<t>>
        /\ m_queue'["SYNC"] = m_queue["SYNC"] /\ final_queue' = final_queue
        /\ todo' = todo /\ pc[t] = "prepared"
        /\ \A v \in Session : v # t => pc'[v] = pc[v]
    BY <1>0, <1>1 DEF EnrollFlush, enroll_for, Goto
  <2>2. Elems(m_queue["FLUSH"] \o <<t>>) = Elems(m_queue["FLUSH"]) \cup {t}
    BY <1>0, ElemsAppend
  <2> QED BY <1>00, <2>1, <2>2 DEF ToFlush, Unsynced, Writing
<1>2. CASE LockLog(t) \/ FetchRest(t) \/ FlushToFile(t)
  <2>1. /\ m_queue'["SYNC"] = m_queue["SYNC"] /\ final_queue' = final_queue
        /\ pc[t] \in {"lock_log", "flush", "flushed"}
        /\ pc'[t] \in {"flush", "flush_rest", "enter_sync"}
        /\ pc'[t] = "flush_rest" =>
             m_queue'["FLUSH"] = <<>> /\ todo'[t] = m_queue["FLUSH"]
        /\ pc'[t] # "flush_rest" => m_queue' = m_queue /\ todo' = todo
        /\ \A v \in Session : v # t => pc'[v] = pc[v] /\ todo'[v] = todo[v]
    BY <1>0, <1>2 DEF LockLog, FetchRest, FlushToFile, Goto, queues
  <2>2. ToFlush(u) => ToFlush(u)'
    BY <2>1, ElemsEmpty DEF ToFlush
  <2>3. Unsynced(u) => Unsynced(u)'
    BY <2>1 DEF Unsynced, Writing
  <2> QED BY <1>00, <2>1, <2>2, <2>3 DEF Committing
<1>3. CASE EnrollSync(t)
  <2> DEFINE q == m_queue["SYNC"] \o final_queue[t]
  <2>1. /\ m_queue'["SYNC"] = q /\ todo' = todo
        /\ m_queue'["FLUSH"] = m_queue["FLUSH"]
        /\ pc[t] = "enter_sync" /\ pc'[t] \in {"lock_sync", "follower"}
        /\ \A v \in Session : v # t => pc'[v] = pc[v]
                                       /\ final_queue'[v] = final_queue[v]
    BY <1>0, <1>3 DEF EnrollSync, enroll_for, Goto
  <2>2. Elems(q) = Elems(m_queue["SYNC"]) \cup Elems(final_queue[t])
    BY <1>0, ElemsConcat
  <2> HIDE DEF q
  <2>3. ToFlush(u) => ToFlush(u)'
    BY <2>1 DEF ToFlush
  <2>4. Unsynced(u) => Unsynced(u)'
    BY <2>1, <2>2 DEF Unsynced
  <2> QED BY <1>00, <2>1, <2>3, <2>4 DEF Committing
<1>4. CASE LockSync(t)
  <2>1. /\ todo' = todo /\ m_queue'["FLUSH"] = m_queue["FLUSH"]
        /\ pc[t] = "lock_sync" /\ pc'[t] = "sync"
        /\ final_queue'[t] = m_queue["SYNC"]
        /\ \A v \in Session : v # t => pc'[v] = pc[v]
                                       /\ final_queue'[v] = final_queue[v]
    BY <1>0, <1>4 DEF LockSync, fetch_queue_for, Goto
  <2>2. Elems(final_queue[t]) = {}
    BY <1>0, <2>1, HoldsNobody DEF IndInv, TypeOK, PipeInv, Holding
  <2>3. ToFlush(u) => ToFlush(u)'
    BY <2>1 DEF ToFlush
  <2>4. Unsynced(u) => Unsynced(u)'
    BY <2>1, <2>2 DEF Unsynced, Writing
  <2> QED BY <1>00, <2>1, <2>3, <2>4 DEF Committing
<1>5. CASE \/ sync_binlog_file(t) \/ EnterCommit(t) \/ LockCommit(t)
           \/ CommitOne(t) \/ signal_done(t) \/ finish_commit(t)
           \/ HandleSyncError(t) \/ HandleFlushError(t)
  <2>1. /\ m_queue'["FLUSH"] = m_queue["FLUSH"]
        /\ m_queue'["SYNC"] = m_queue["SYNC"]
        /\ \A v \in Session : v # t => todo'[v] = todo[v]
                                       /\ final_queue'[v] = final_queue[v]
    BY <1>0, <1>5 DEF sync_binlog_file, EnterCommit, LockCommit, CommitOne,
       signal_done, finish_commit, HandleSyncError, HandleFlushError,
       enroll_for, fetch_queue_for, queues
  <2>2. /\ pc[t] \in {"sync", "enter_commit", "lock_commit", "commit",
                      "signal", "finish", "follower", "sync_error", "flushed"}
        /\ \A v \in Session : v # t => pc'[v] = pc[v]
        /\ pc[t] = "flushed" =>
             pc'[t] = "enter_sync" /\ final_queue' = final_queue
    BY <1>0, <1>5 DEF sync_binlog_file, EnterCommit, LockCommit, CommitOne,
       signal_done, finish_commit, HandleSyncError, HandleFlushError,
       enroll_for, Goto, queues
  <2>3. ToFlush(u) => ToFlush(u)'
    BY <2>1, <2>2 DEF ToFlush
  <2>4. pc[t] # "sync" /\ Unsynced(u) => Unsynced(u)'
    BY <2>1, <2>2 DEF Unsynced, Writing
  <2> QED BY <1>00, <2>2, <2>3, <2>4 DEF Committing
<1> QED BY <1>1, <1>2, <1>3, <1>4, <1>5

(* Such a step: it may sync the log or flush the redo log, and a COMMIT    *)
(* that rotated may be answered.                                           *)
QuietForTrx ==
  /\ server = "up" /\ server' = "up"
  /\ UNCHANGED <<binlog, log_start, committed, commit_log>>
  /\ redo' \in {redo, Len(commit_log)}
  /\ synced' \in {synced, Len(binlog)}
  /\ \A u \in Session :
       /\ xid_written'[u] <=> xid_written[u]
       /\ Past(u)' => Past(u)
       /\ Past(u) /\ Tid(u) \in prepared' => Tid(u) \in prepared
       /\ Unsynced(u) => Unsynced(u)' \/ synced' = Len(binlog)
       /\ ToFlush(u)' \/ pc'[u] = "prepared" =>
            \/ ToFlush(u) \/ pc[u] = "prepared"
            \/ Tid(u)' \notin Elems(binlog)
       /\ pc'[u] = "rot_reopen" =>
            pc[u] = "rot_reopen" \/ redo' = Len(commit_log)
       /\ pc'[u] \in Rotating /\ do_rotate'[u] =>
            pc[u] \in Rotating /\ do_rotate[u]
       /\ trx[u] <= trx'[u] /\ (pc[u] # "idle" => trx'[u] = trx[u])
  /\ \/ acked' = acked
     \/ \E u \in Session : /\ pc[u] \in Rotating /\ do_rotate[u]
                           /\ acked' = acked \cup {Tid(u)}

(* It keeps the invariant. *)
LEMMA QuietTrx ==
  ASSUME Kept, SyncInv, QuietForTrx, DataTypeOK'
  PROVE  TrxInv'
<1> USE DEF QuietForTrx
<1>0. /\ binlog \in Seq(Trx) /\ commit_log \in Seq(Trx) /\ Len(binlog) \in Nat
      /\ log_start \in Nat /\ synced \in Nat /\ synced <= Len(binlog)
      /\ redo \in 0..Len(commit_log) /\ Len(commit_log) \in 0..Len(commit_log)
      /\ trx \in [Session -> 0..MaxTrx] /\ Elems(binlog) \subseteq Trx
  <2>1. /\ binlog \in Seq(Trx) /\ commit_log \in Seq(Trx)
        /\ log_start \in Nat /\ synced \in Nat /\ written \in Nat
        /\ redo \in Nat /\ trx \in [Session -> 0..MaxTrx]
    BY DEF Kept, IndInv, TypeOK, DataTypeOK
  <2>2. /\ synced <= written /\ written <= Len(binlog)
        /\ redo <= Len(commit_log)
    BY DEF Kept, DurInv, FileOrder
  <2>3. Elems(binlog) \subseteq Trx
    BY <2>1, ElemsType
  <2> QED BY <2>1, <2>2, <2>3
<1>1. \A x, m : InLog(x, m, synced) => InLog(x, m, synced')
  BY <1>0 DEF InLog
<1>2. Done' = Done /\ Visible' = Done' /\ Visible = Done
  BY DEF Done, Visible
<1>3. \A u \in Session : /\ pc[u] = "idle" => ~xid_written[u] /\ ~ToFlush(u)
                         /\ Past(u) => pc[u] # "idle"
  BY Outside DEF Kept, Committing, Past
<1>4. \A u \in Session : pc[u] # "idle" => Tid(u)' = Tid(u)
  BY DEF Tid
<1>5. \A u \in Session :
        /\ xid_written'[u] \/ Past(u)' \/ ToFlush(u) \/ pc[u] = "prepared"
             => pc[u] # "idle"
        /\ pc'[u] \in Rotating /\ do_rotate'[u] => pc[u] # "idle"
  BY <1>3 DEF Rotating
<1>6. XidLogged'
  <2> SUFFICES ASSUME NEW u \in Session, xid_written[u]
               PROVE  \/ InLog(Tid(u), log_start, synced')
                      \/ Unsynced(u)' /\ InLog(Tid(u), log_start, Len(binlog))
    BY <1>4, <1>5 DEF XidLogged, InLog
  <2> QED BY <1>1 DEF SyncInv, XidLogged
<1>7. PastLogged'
  BY <1>4, <1>5 DEF SyncInv, PastLogged
<1>8. Fresh'
  <2>1. \A x \in Elems(binlog) : x[2] <= trx'[x[1]]
    <3> SUFFICES ASSUME NEW x \in Elems(binlog) PROVE x[2] <= trx'[x[1]]
      OBVIOUS
    <3>1. x \in Trx /\ x[1] \in Session /\ x[2] \in Nat
      BY <1>0 DEF Trx
    <3>2. trx[x[1]] \in Nat /\ x[2] <= trx[x[1]] /\ trx[x[1]] <= trx'[x[1]]
      BY <1>0, <3>1 DEF SyncInv, Fresh
    <3>3. trx'[x[1]] \in Int
      BY <3>1 DEF DataTypeOK
    <3> QED BY <3>1, <3>2, <3>3
  <2>2. \A u \in Session : ToFlush(u)' \/ pc'[u] = "prepared" =>
          Tid(u)' \notin Elems(binlog)
    BY <1>4, <1>5 DEF SyncInv, Fresh
  <2> QED BY <2>1, <2>2 DEF Fresh
<1>9. CommitsLogged'
  <2>1. Prefix(commit_log, Len(commit_log)) = commit_log
    BY <1>0, PrefixElems
  <2>2. \A x : InLog(x, log_start, synced)' <=> InLog(x, log_start, synced')
    BY DEF InLog
  <2> QED BY <1>1, <2>1, <2>2 DEF SyncInv, CommitsLogged
<1>10. DoneLogged'
  <2>1. \A x : InLog(x, 0, synced)' <=> InLog(x, 0, synced')
    BY DEF InLog
  <2> QED BY <1>1, <1>2, <2>1 DEF SyncInv, DoneLogged
<1>11. RotFlushed'
  BY DEF SyncInv, RotFlushed
<1>12. RotAnswers'
  BY <1>2, <1>4, <1>5 DEF SyncInv, RotAnswers, Rotating
<1>13. AckedKept'
  BY <1>2 DEF SyncInv, AckedKept, RotAnswers, Rotating
<1> QED BY <1>6, <1>7, <1>8, <1>9, <1>10, <1>11, <1>12, <1>13 DEF TrxInv

(* The quiet steps of ordered_commit. *)
LEMMA PipelineQuietTrx ==
  ASSUME AlwaysSynced, Kept, SyncInv, server = "up", NEW t \in Session, ~Die,
         \/ EnrollFlush(t) \/ LockLog(t) \/ FetchRest(t) \/ FlushToFile(t)
         \/ EnrollSync(t) \/ LockSync(t) \/ sync_binlog_file(t)
         \/ EnterCommit(t) \/ LockCommit(t) \/ signal_done(t)
  PROVE  QuietForTrx
<1>0. /\ pc \in [Session -> Label] /\ is_open /\ TypeOK /\ PipeInv /\ IndInv
      /\ xid_written \in [Session -> BOOLEAN]
      /\ trx \in [Session -> 0..MaxTrx] /\ MaxTrx \in Nat
  BY BoundAssumption DEF AlwaysSynced, Kept, KeepsLog, LogKept, IndInv, TypeOK,
                         PipelineTypeOK, DataTypeOK
<1>1. /\ server' = "up"
      /\ UNCHANGED <<binlog, log_start, committed, commit_log, prepared, redo,
                     trx, acked>>
  BY DEF EnrollFlush, LockLog, FetchRest, FlushToFile, EnrollSync, LockSync,
     sync_binlog_file, EnterCommit, LockCommit, signal_done, restart, logfile,
     engine
<1>2. /\ pc[t] \in Committing \cup {"prepared"}
      /\ pc'[t] \in Committing \cup {"finish"}
      /\ \A v \in Session : v # t => pc'[v] = pc[v]
      /\ pc[t] = "prepared" => EnrollFlush(t)
      /\ pc[t] = "sync" => sync_binlog_file(t)
  BY <1>0 DEF EnrollFlush, LockLog, FetchRest, FlushToFile, EnrollSync,
     LockSync, sync_binlog_file, EnterCommit, LockCommit, signal_done,
     enroll_for, Goto, Committing
<1>3. \A v \in Session : v # t => do_rotate'[v] = do_rotate[v]
  BY <1>0 DEF EnrollFlush, LockLog, FetchRest, FlushToFile, EnrollSync,
     LockSync, sync_binlog_file, EnterCommit, LockCommit, signal_done, locals,
     TypeOK, PipelineTypeOK
<1>4. \A u \in Session : xid_written'[u] <=> xid_written[u]
  <2>1. CASE EnrollFlush(t)
    <3>1. /\ pc[t] = "prepared"
          /\ xid_written' = [xid_written EXCEPT ![t] = FALSE]
      BY <2>1 DEF EnrollFlush
    <3>2. ~xid_written[t]
      BY <1>0, <3>1, Outside DEF Committing
    <3> QED BY <1>0, <3>1, <3>2
  <2>2. CASE ~EnrollFlush(t)
    <3>1. xid_written' = xid_written
      BY <2>2 DEF LockLog, FetchRest, FlushToFile, EnrollSync, LockSync,
         sync_binlog_file, EnterCommit, LockCommit, signal_done, flags
    <3> QED BY <3>1
  <2> QED BY <2>1, <2>2
<1>5. synced' = synced \/ (synced' = Len(binlog) /\ pc[t] = "sync")
  <2>1. CASE sync_binlog_file(t)
    <3>1. pc[t] = "sync" /\ synced' \in {synced, written}
      BY <2>1 DEF sync_binlog_file
    <3>2. written = Len(binlog)
      BY <3>1 DEF SyncInv, FileWritten
    <3> QED BY <3>1, <3>2
  <2>2. CASE ~sync_binlog_file(t)
    BY <2>2 DEF EnrollFlush, LockLog, FetchRest, FlushToFile, EnrollSync,
       LockSync, EnterCommit, LockCommit, signal_done, logfile
  <2> QED BY <2>1, <2>2
<1>6. pc[t] = "sync" => synced' = Len(binlog)
  <2> SUFFICES ASSUME pc[t] = "sync" PROVE synced' = Len(binlog)
    OBVIOUS
  <2>1. /\ sync_binlog_file(t) /\ flush_error[t] = 0 /\ ~IoErrors
        /\ sync_period = 1 /\ sync_counter \in Nat
    BY <1>0, <1>2 DEF Kept, ErrorFree, AlwaysSynced, TypeOK, PipelineTypeOK
  <2>2. written = Len(binlog)
    BY DEF SyncInv, FileWritten
  <2> QED BY <2>1, <2>2 DEF sync_binlog_file, sync_due
<1>7. OrderedCommit(t)
  BY DEF OrderedCommit
<1>8. \A u \in Session : /\ Past(u)' => Past(u)
                         /\ pc[t] # "sync" /\ Unsynced(u) => Unsynced(u)'
  BY <1>0, SyncMoves
<1>9. \A u \in Session :
        ToFlush(u)' => ToFlush(u) \/ (pc[t] = "prepared" /\ u = t)
  BY <1>0, <1>7, Moves
<1>10. \A u \in Session : trx[u] <= trx'[u]
  BY <1>0, <1>1
<1> QED BY <1>1, <1>2, <1>3, <1>4, <1>5, <1>6, <1>8, <1>9, <1>10
        DEF QuietForTrx, Rotating, Committing

(* Statements that write nothing, rotation up to the new file, snapshots   *)
(* and options.                                                            *)
LEMMA OutsideQuietTrx ==
  ASSUME Kept, SyncInv, server = "up",
         \/ \E t \in Session : \/ FlushLogs(t) \/ StartSnapshot(t)
                              \/ RotateLock(t) \/ RotateClose(t) \/ Snapshot(t)
         \/ SetSyncPeriod \/ SetOrderCommits
  PROVE  QuietForTrx
<1>0. /\ pc \in [Session -> Label] /\ do_rotate \in [Session -> BOOLEAN]
      /\ trx \in [Session -> 0..MaxTrx] /\ MaxTrx \in Nat
  BY BoundAssumption DEF Kept, IndInv, TypeOK, PipelineTypeOK, DataTypeOK
<1> DEFINE Away == {"idle", "snap_lock", "snap_commit", "snap_rw", "snapshot"}
                   \cup Rotating
<1>1. ASSUME NEW t \in Session,
             UNCHANGED <<server, m_queue, final_queue, todo, binlog, log_start,
                         committed, commit_log, prepared, xid_written>>,
             redo' \in {redo, Len(commit_log)},
             synced' \in {synced, Len(binlog)},
             pc[t] \in Away, pc'[t] \in Away,
             \A v \in Session : v # t => /\ pc'[v] = pc[v] /\ trx'[v] = trx[v]
                                         /\ do_rotate'[v] = do_rotate[v],
             pc'[t] = "rot_reopen" => redo' = Len(commit_log),
             pc'[t] \in Rotating /\ do_rotate'[t] =>
               pc[t] \in Rotating /\ do_rotate[t],
             trx[t] <= trx'[t], pc[t] # "idle" => trx'[t] = trx[t],
             \/ acked' = acked
             \/ /\ pc[t] \in Rotating /\ do_rotate[t]
                /\ acked' = acked \cup {Tid(t)}
      PROVE  QuietForTrx
  <2>1. Away \cap (Committing \cup {"finish", "flush_rest", "prepared"}
                   \cup Writing) = {}
    BY DEF Committing, Writing, Rotating
  <2> HIDE DEF Away
  <2>2. \A u \in Session : ToFlush(u)' <=> ToFlush(u)
    BY <1>1, <2>1 DEF ToFlush
  <2>3. \A u \in Session : Unsynced(u)' <=> Unsynced(u)
    BY <1>1, <2>1 DEF Unsynced
  <2>4. \A u \in Session : Past(u)' => Past(u)
    BY <1>1, <2>1, <2>2 DEF Past
  <2>5. \A u \in Session : trx[u] <= trx'[u]
    BY <1>0, <1>1
  <2>6. \A u \in Session : pc'[u] = "prepared" => pc[u] = "prepared"
    BY <1>1, <2>1
  <2> QED BY <1>1, <2>2, <2>3, <2>4, <2>5, <2>6 DEF QuietForTrx
<1> USE DEF Rotating, Goto, queues, flags, locals, logfile, engine, restart
<1>2. ASSUME NEW t \in Session, FlushLogs(t) \/ StartSnapshot(t)
      PROVE  QuietForTrx
  BY <1>0, <1>1, <1>2 DEF FlushLogs, StartSnapshot
<1>3. ASSUME NEW t \in Session, RotateLock(t) PROVE QuietForTrx
  BY <1>0, <1>1, <1>3 DEF RotateLock, Return
<1>4. ASSUME NEW t \in Session, RotateClose(t) PROVE QuietForTrx
  BY <1>0, <1>1, <1>4 DEF RotateClose, ha_flush_logs
<1>5. ASSUME NEW t \in Session, Snapshot(t) PROVE QuietForTrx
  BY <1>0, <1>1, <1>5 DEF Snapshot, xlock, xlock_commits, xunlock
<1>6. CASE SetSyncPeriod \/ SetOrderCommits
  <2>1. UNCHANGED <<pc, m_queue, final_queue, todo, server, binlog, log_start,
                    committed, commit_log, prepared, redo, synced, trx, acked,
                    xid_written, do_rotate>>
    BY <1>6 DEF SetSyncPeriod, SetOrderCommits
  <2>2. \A u \in Session : /\ ToFlush(u)' <=> ToFlush(u)
                           /\ Unsynced(u)' <=> Unsynced(u)
    BY <2>1 DEF ToFlush, Unsynced
  <2> QED BY <1>0, <2>1, <2>2 DEF QuietForTrx, Past
<1> QED BY <1>2, <1>3, <1>4, <1>5, <1>6

(* ha_commit_trans starts a transaction that the log does not have yet. *)
LEMMA PrepareQuietTrx ==
  ASSUME Kept, SyncInv, server = "up", NEW t \in Session, prepare(t)
  PROVE  QuietForTrx
<1>0. /\ pc \in [Session -> Label] /\ trx \in [Session -> 0..MaxTrx]
      /\ MaxTrx \in Nat
  BY BoundAssumption DEF Kept, IndInv, TypeOK, PipelineTypeOK, DataTypeOK
<1>1. /\ UNCHANGED <<server, m_queue, final_queue, todo, binlog, log_start,
                     committed, commit_log, xid_written, do_rotate, synced,
                     acked>>
      /\ redo' = Len(commit_log)
      /\ prepared' = prepared \cup {<<t, trx[t] + 1>>}
  BY DEF prepare, restart, logfile, flags, queues, locals
<1>2. /\ pc[t] = "idle" /\ pc'[t] = "prepared" /\ trx'[t] = trx[t] + 1
      /\ \A v \in Session : v # t => pc'[v] = pc[v] /\ trx'[v] = trx[v]
  BY <1>0 DEF prepare, Goto
<1>3. \A u \in Session : /\ ToFlush(u)' <=> ToFlush(u)
                         /\ Unsynced(u)' <=> Unsynced(u)
  BY <1>1, <1>2 DEF ToFlush, Unsynced, Writing
<1>4. \A u \in Session : Past(u)' => Past(u)
  BY <1>2, <1>3 DEF Past, Committing
<1>5. \A u \in Session : Past(u) /\ Tid(u) \in prepared' => Tid(u) \in prepared
  <2>1. \A u \in Session : Past(u) => u # t
    BY <1>2 DEF Past, Committing
  <2> QED BY <1>1, <2>1 DEF Tid
<1>6. Tid(t)' \notin Elems(binlog)
  <2>1. Tid(t)' = <<t, trx[t] + 1>>
    BY <1>2 DEF Tid
  <2>2. <<t, trx[t] + 1>> \in Elems(binlog) => trx[t] + 1 <= trx[t]
    BY DEF SyncInv, Fresh
  <2> QED BY <1>0, <2>1, <2>2
<1>7. \A u \in Session : /\ trx[u] <= trx'[u]
                         /\ pc[u] # "idle" => trx'[u] = trx[u]
  BY <1>0, <1>2
<1>8. \A u \in Session :
        /\ pc'[u] \in Rotating => pc'[u] = pc[u]
        /\ pc'[u] = "prepared" => pc[u] = "prepared" \/ u = t
  BY <1>2 DEF Rotating
<1> QED BY <1>1, <1>3, <1>4, <1>5, <1>6, <1>7, <1>8 DEF QuietForTrx, Rotating

(***************************************************************************)
(* A step of the pipeline is a step of the coordinator.                    *)
(***************************************************************************)

(* What AtomicCommit may do next, or nothing. *)
Simulates == Coordinator!Next \/ UNCHANGED <<binlog, Visible, acked>>

(* A transaction is logged. *)
LEMMA SimulatesDecide ==
  ASSUME NEW x \in Trx, x \notin Elems(binlog), binlog' = Append(binlog, x),
         Visible' = Visible, acked' = acked
  PROVE  Simulates
<1>1. Coordinator!Decide(x)
  BY DEF Coordinator!Decide, Coordinator!Logged, Elems
<1> QED BY <1>1 DEF Simulates, Coordinator!Next

(* A logged transaction becomes visible, or is answered, or both. *)
LEMMA SimulatesCommit ==
  ASSUME NEW x \in Trx, x \in Elems(binlog), binlog' = binlog,
         \/ Visible' = Visible /\ acked' = acked
         \/ /\ Visible' = Visible \cup {x}
            /\ acked' \in {acked, acked \cup {x}}
  PROVE  Simulates
<1>1. CASE Visible' = Visible /\ acked' = acked
  BY <1>1 DEF Simulates
<1>2. CASE Visible' # Visible /\ acked' = acked
  <2>1. Coordinator!Commit(x)
    BY <1>2 DEF Coordinator!Commit, Coordinator!Logged, Elems
  <2> QED BY <2>1 DEF Simulates, Coordinator!Next
<1>3. CASE acked' # acked
  <2>1. Coordinator!Answer(x)
    BY <1>3 DEF Coordinator!Answer, Coordinator!Logged, Elems
  <2> QED BY <2>1 DEF Simulates, Coordinator!Next
<1> QED BY <1>1, <1>2, <1>3

(* A crash keeps a beginning of the log with all that is visible.          *)
LEMMA SimulatesCrash ==
  ASSUME NEW n \in 0..Len(binlog), binlog' = Prefix(binlog, n),
         Visible \subseteq Elems(binlog'), Visible' = Elems(binlog'),
         acked' = acked
  PROVE  Simulates
<1>1. Coordinator!Crash
  BY DEF Coordinator!Crash, Coordinator!Logged, Elems, Prefix
<1> QED BY <1>1 DEF Simulates, Coordinator!Next

(* Quiet steps: nothing, or the answer of a COMMIT that rotated. *)
LEMMA QuietSimulates ==
  ASSUME Kept, SyncInv, QuietForTrx
  PROVE  Simulates
<1>1. Visible' = Done /\ Visible = Done /\ binlog' = binlog
  BY DEF QuietForTrx, Done, Visible
<1>2. CASE acked' = acked
  BY <1>1, <1>2 DEF Simulates
<1>3. ASSUME NEW u \in Session, pc[u] \in Rotating, do_rotate[u],
             acked' = acked \cup {Tid(u)}
      PROVE  Simulates
  <2>1. Tid(u) \in Done
    BY <1>3 DEF SyncInv, RotAnswers, Rotating
  <2>2. Tid(u) \in Trx
    BY TidInjective DEF Kept, IndInv
  <2>3. synced \in Nat /\ synced <= Len(binlog) /\ binlog \in Seq(Trx)
    BY DEF Kept, IndInv, TypeOK, DataTypeOK, DurInv, FileOrder
  <2>4. Tid(u) \in Elems(binlog)
    BY <2>1, <2>3 DEF SyncInv, DoneLogged, InLog, Elems
  <2> QED BY <1>1, <1>3, <2>1, <2>2, <2>4, SimulatesCommit
<1> QED BY <1>2, <1>3 DEF QuietForTrx

(***************************************************************************)
(* Steps of the log and of the engine.                                     *)
(***************************************************************************)

(* A flush loop logs a transaction for the first time; it is in a group    *)
(* that is not synced yet.                                                 *)
LEMMA FlushesTrx ==
  ASSUME AlwaysSynced, Kept, SyncInv, NEW t \in Session, NEW h \in Session,
         Flushes(t, h)
  PROVE  TrxInv' /\ Simulates
<1> USE DEF Flushes
<1>0. /\ binlog \in Seq(Trx) /\ Len(binlog) \in Nat /\ Tid(h) \in Trx
      /\ log_start \in Nat /\ synced \in Nat /\ synced <= Len(binlog)
      /\ log_start <= Len(binlog)
      /\ xid_written \in [Session -> BOOLEAN]
      /\ final_queue \in [Session -> Seq(Session)]
      /\ trx \in [Session -> 0..MaxTrx]
  <2> HIDE DEF Flushes
  <2>1. /\ binlog \in Seq(Trx) /\ log_start \in Nat /\ synced \in Nat
        /\ written \in Nat /\ log_start <= synced /\ synced <= written
        /\ written <= Len(binlog)
    BY DEF Kept, IndInv, TypeOK, DataTypeOK, DurInv, FileOrder
  <2>2. Tid(h) \in Trx
    BY TidInjective DEF Kept, IndInv
  <2> QED BY <2>1, <2>2 DEF Kept, IndInv, TypeOK, PipelineTypeOK, DataTypeOK
<1>1. /\ binlog' = Append(binlog, Tid(h))
      /\ xid_written' = [xid_written EXCEPT ![h] = TRUE]
  BY DEF flush_thread_caches, AlwaysSynced
<1>2. /\ \A u \in Session : Tid(u)' = Tid(u)
      /\ \A u \in Session : Tid(u) = Tid(h) => u = h
      /\ Done' = Done /\ Visible = Done /\ Visible' = Done
  BY TidInjective DEF Kept, IndInv, Tid, Done, Visible
<1>3. /\ Len(binlog') = Len(binlog) + 1
      /\ \A i \in 1..Len(binlog) : binlog'[i] = binlog[i]
      /\ binlog'[Len(binlog) + 1] = Tid(h)
  <2> HIDE DEF Flushes
  <2> QED BY <1>0, <1>1
<1>4. Elems(binlog') = Elems(binlog) \cup {Tid(h)}
  <2> HIDE DEF Flushes
  <2>1. /\ Append(binlog, Tid(h)) = binlog \o <<Tid(h)>>
        /\ Elems(binlog \o <<Tid(h)>>) = Elems(binlog) \cup {Tid(h)}
    BY <1>0, ElemsAppend
  <2> QED BY <1>1, <2>1
<1>5. /\ \A x, m : m \in Nat /\ InLog(x, m, synced) =>
           \E i \in (m + 1)..synced : binlog'[i] = x
      /\ \A x : InLog(x, log_start, Len(binlog)) =>
           \E i \in (log_start + 1)..Len(binlog') : binlog'[i] = x
  <2> HIDE DEF Flushes
  <2>1. ASSUME NEW x, NEW m \in Nat, InLog(x, m, synced)
        PROVE  \E i \in (m + 1)..synced : binlog'[i] = x
    <3>1. PICK i \in (m + 1)..synced : binlog[i] = x
      BY <2>1 DEF InLog
    <3>2. i \in 1..Len(binlog)
      BY <1>0
    <3> QED BY <1>3, <3>1, <3>2
  <2>2. ASSUME NEW x, InLog(x, log_start, Len(binlog))
        PROVE  \E i \in (log_start + 1)..Len(binlog') : binlog'[i] = x
    <3>1. PICK i \in (log_start + 1)..Len(binlog) : binlog[i] = x
      BY <2>2 DEF InLog
    <3>2. i \in 1..Len(binlog) /\ i \in (log_start + 1)..Len(binlog')
      BY <1>0, <1>3
    <3> QED BY <1>3, <3>1, <3>2
  <2> QED BY <2>1, <2>2
<1>6. /\ pc'[t] \in Writing /\ pc[t] \in Committing
      /\ \A u \in Session : u # t => pc'[u] = pc[u]
      /\ Elems(final_queue'[t]) = Elems(final_queue[t]) \cup {h}
  <2>1. /\ final_queue'[t] = final_queue[t] \o <<h>>
        /\ Elems(final_queue[t] \o <<h>>) = Elems(final_queue[t]) \cup {h}
    BY <1>0, ElemsAppend
  <2> QED BY <2>1 DEF Writing, Committing
<1>7. \A u \in Session : Unsynced(u) \/ u = h => Unsynced(u)'
  <2>1. \A v \in Session : v # t => final_queue'[v] = final_queue[v]
    BY <1>0
  <2> QED BY <1>6, <2>1 DEF Unsynced
<1>8. Tid(h) \notin Elems(binlog) /\ pc[h] # "prepared"
  <2>1. pc[h] \in Committing \cup {"finish"}
    BY Outside DEF Kept
  <2> QED BY <2>1 DEF SyncInv, Fresh, Committing
<1>9. XidLogged'
  <2> SUFFICES ASSUME NEW u \in Session, xid_written'[u]
               PROVE  \/ InLog(Tid(u), log_start, synced)'
                      \/ Unsynced(u)' /\ InLog(Tid(u), log_start, Len(binlog))'
    BY DEF XidLogged
  <2>1. CASE u = h
    <3>1. Len(binlog) + 1 \in (log_start + 1)..Len(binlog')
      BY <1>0, <1>3
    <3> QED BY <1>2, <1>3, <1>7, <2>1, <3>1 DEF InLog
  <2>2. CASE u # h
    <3>1. xid_written[u]
      BY <1>0, <1>1, <2>2
    <3>2. CASE InLog(Tid(u), log_start, synced)
      <4>1. \E i \in (log_start + 1)..synced : binlog'[i] = Tid(u)
        BY <1>0, <1>5, <3>2
      <4> QED BY <1>2, <4>1 DEF InLog
    <3>3. CASE Unsynced(u) /\ InLog(Tid(u), log_start, Len(binlog))
      <4>1. \E i \in (log_start + 1)..Len(binlog') : binlog'[i] = Tid(u)
        BY <1>5, <3>3
      <4> QED BY <1>2, <1>7, <3>3, <4>1 DEF InLog
    <3> QED BY <3>1, <3>2, <3>3 DEF SyncInv, XidLogged
  <2> QED BY <2>1, <2>2
<1>10. PastLogged'
  <2> SUFFICES ASSUME NEW u \in Session, Past(u)'
               PROVE  /\ Tid(u) \in Elems(binlog')
                      /\ Tid(u) \in prepared => xid_written'[u]
    BY <1>2 DEF PastLogged
  <2>1. CASE u = h
    BY <1>0, <1>1, <1>4, <2>1
  <2>2. CASE u # h
    <3>1. Past(u)
      BY <1>6, <2>2 DEF Past
    <3> QED BY <1>0, <1>1, <1>4, <2>2, <3>1 DEF SyncInv, PastLogged
  <2> QED BY <2>1, <2>2
<1>11. Fresh'
  <2>1. Tid(h)[2] <= trx[Tid(h)[1]]
    BY <1>0 DEF Tid
  <2>2. \A x \in Elems(binlog') : x[2] <= trx'[x[1]]
    BY <1>4, <2>1 DEF SyncInv, Fresh
  <2>3. \A u \in Session : pc'[u] = "prepared" => pc[u] = "prepared"
    BY <1>6 DEF Writing
  <2>4. \A u \in Session : ToFlush(u)' \/ pc'[u] = "prepared" =>
          Tid(u)' \notin Elems(binlog')
    BY <1>2, <1>4, <1>8, <2>3 DEF SyncInv, Fresh
  <2> QED BY <2>2, <2>4 DEF Fresh
<1>12. CommitsLogged'
  <2> SUFFICES ASSUME NEW x \in Elems(commit_log)
               PROVE  \/ x \in Elems(Prefix(commit_log, redo))
                      \/ InLog(x, log_start, synced)'
    BY DEF CommitsLogged
  <2>1. \/ x \in Elems(Prefix(commit_log, redo))
        \/ \E i \in (log_start + 1)..synced : binlog'[i] = x
    BY <1>0, <1>5 DEF SyncInv, CommitsLogged
  <2> QED BY <2>1 DEF InLog
<1>13. DoneLogged'
  BY <1>2, <1>5 DEF SyncInv, DoneLogged, InLog
<1>14. RotFlushed' /\ RotAnswers'
  <2>1. \A u \in Session : pc'[u] \in Rotating => pc'[u] = pc[u]
    BY <1>6 DEF Rotating, Writing
  <2> QED BY <1>2, <2>1 DEF SyncInv, RotFlushed, RotAnswers, Rotating
<1>15. AckedKept'
  BY <1>2 DEF SyncInv, AckedKept
<1>16. Simulates
  BY <1>0, <1>1, <1>2, <1>8, SimulatesDecide
<1> QED BY <1>9, <1>10, <1>11, <1>12, <1>13, <1>14, <1>15, <1>16 DEF TrxInv

(* Session h, past the flush and the sync, is committed in the engine; it  *)
(* may be answered, or may go on to rotate the log.                        *)
CommitsSynced(h) ==
  /\ CommitsOne(h) /\ Past(h) /\ ~Unsynced(h)
  /\ acked' \in {acked, acked \cup {Tid(h)}}
  /\ \A u \in Session :
       /\ Past(u)' => Past(u)
       /\ Unsynced(u) => Unsynced(u)'
       /\ pc'[u] \in Rotating /\ do_rotate'[u] =>
            u = h \/ (pc[u] \in Rotating /\ do_rotate[u])

(* A commit record follows the log: its transaction is on disk there. *)
LEMMA CommitsTrx ==
  ASSUME AlwaysSynced, Kept, SyncInv, NEW h \in Session, CommitsSynced(h)
  PROVE  TrxInv' /\ Simulates
<1> USE DEF CommitsSynced
<1>0. /\ binlog \in Seq(Trx) /\ Len(binlog) \in Nat /\ Tid(h) \in Trx
      /\ log_start \in Nat /\ synced \in Nat /\ synced <= Len(binlog)
      /\ commit_log \in Seq(Trx) /\ redo \in 0..Len(commit_log) /\ is_open
      /\ server = "up" /\ server' = "up"
      /\ UNCHANGED <<binlog, log_start, synced, committed, trx>>
      /\ DataTypeOK /\ FileOrder
  BY TidInjective DEF Kept, IndInv, TypeOK, DataTypeOK, DurInv, FileOrder,
                      LogKept, KeepsLog, AlwaysSynced, CommitsOne
<1>1. /\ \A u \in Session : Tid(u)' = Tid(u)
      /\ \A u \in Session : Tid(u) = Tid(h) => u = h
      /\ Visible = Done /\ Visible' = Done'
  BY <1>0, TidInjective DEF Kept, IndInv, Tid, Done, Visible
<1>2. /\ Tid(h) \in Elems(binlog)
      /\ Tid(h) \in prepared =>
           xid_written[h] /\ InLog(Tid(h), log_start, synced)
  BY DEF SyncInv, PastLogged, XidLogged
<1>3. \/ Tid(h) \in prepared /\ ha_commit_low(Tid(h))
      \/ UNCHANGED <<prepared, commit_log, redo>> /\ Tid(h) \notin prepared
  BY <1>0, <1>2 DEF CommitsOne, engine
<1>4. /\ Done' = Done \cup {Tid(h)} /\ prepared' = prepared \ {Tid(h)}
      /\ redo' = redo
  <2>1. CASE ha_commit_low(Tid(h))
    BY <1>0, <2>1, CommitLow
  <2>2. CASE ~ha_commit_low(Tid(h))
    <3>1. Tid(h) \in Done
      BY <1>2, <1>3, <2>2 DEF Kept, DurInv, Accounted
    <3> QED BY <1>0, <1>3, <2>2, <3>1 DEF Done
  <2> QED BY <2>1, <2>2
<1>5. InLog(Tid(h), 0, synced)
  <2>1. CASE Tid(h) \in prepared
    BY <1>0, <1>2, <2>1 DEF InLog
  <2>2. CASE Tid(h) \notin prepared
    <3>1. Tid(h) \in Done
      BY <1>2, <2>2 DEF Kept, DurInv, Accounted
    <3> QED BY <3>1 DEF SyncInv, DoneLogged
  <2> QED BY <2>1, <2>2
<1>6. \A u \in Session : xid_written'[u] <=> xid_written[u] /\ u # h
  BY DEF CommitsOne
<1>7. XidLogged'
  BY <1>0, <1>1, <1>6 DEF SyncInv, XidLogged, InLog
<1>8. PastLogged'
  BY <1>0, <1>1, <1>4, <1>6 DEF SyncInv, PastLogged
<1>9. Fresh'
  BY <1>0, <1>1 DEF SyncInv, Fresh, CommitsOne
<1>10. CommitsLogged'
  <2>1. CASE UNCHANGED <<commit_log, redo>>
    BY <1>0, <2>1 DEF SyncInv, CommitsLogged, InLog
  <2>2. CASE Tid(h) \in prepared /\ ha_commit_low(Tid(h))
    <3>1. commit_log' = Append(commit_log, Tid(h))
      BY <2>2 DEF ha_commit_low
    <3>2. /\ commit_log' \in Seq(Trx) /\ Len(commit_log') = Len(commit_log) + 1
          /\ \A i \in 1..Len(commit_log) : commit_log'[i] = commit_log[i]
          /\ redo \in 0..Len(commit_log')
      <4> HIDE DEF CommitsSynced
      <4> QED BY <1>0, <3>1
    <3> HIDE DEF CommitsSynced
    <3>3. Elems(commit_log') = Elems(commit_log) \cup {Tid(h)}
      <4>1. /\ Append(commit_log, Tid(h)) = commit_log \o <<Tid(h)>>
            /\ Elems(commit_log \o <<Tid(h)>>)
                 = Elems(commit_log) \cup {Tid(h)}
        BY <1>0, ElemsAppend
      <4> QED BY <3>1, <4>1
    <3>4. Elems(Prefix(commit_log, redo)) = {commit_log[i] : i \in 1..redo}
      BY <1>0, PrefixElems
    <3>5. Elems(Prefix(commit_log', redo)) = {commit_log'[i] : i \in 1..redo}
      <4> DEFINE c == commit_log'
      <4>1. c \in Seq(Trx) /\ redo \in 0..Len(c)
        BY <3>2
      <4> HIDE DEF c
      <4>2. Elems(Prefix(c, redo)) = {c[i] : i \in 1..redo}
        BY <4>1, PrefixElems
      <4> QED BY <4>2 DEF c
    <3>6. \A i \in 1..redo : commit_log'[i] = commit_log[i]
      BY <1>0, <3>2
    <3>7. Elems(Prefix(commit_log, redo)) = Elems(Prefix(commit_log', redo))
      BY <3>4, <3>5, <3>6
    <3> QED BY <1>0, <1>2, <1>4, <2>2, <3>3, <3>7
         DEF SyncInv, CommitsLogged, InLog
  <2> QED BY <1>3, <2>1, <2>2
<1>11. DoneLogged'
  BY <1>0, <1>4, <1>5 DEF SyncInv, DoneLogged, InLog
<1>12. RotFlushed'
  <2> SUFFICES ASSUME NEW u \in Session, pc'[u] = "rot_reopen"
               PROVE  redo' = Len(commit_log')
    BY DEF RotFlushed
  <2>1. pc[u] = "rot_reopen"
    BY DEF CommitsOne
  <2>2. ~xid_written[h] /\ redo = Len(commit_log)
    BY <2>1 DEF Kept, DurInv, RotationWaits, SyncInv, RotFlushed
  <2> QED BY <1>2, <1>3, <2>2
<1>13. RotAnswers'
  BY <1>1, <1>4 DEF SyncInv, RotAnswers, Rotating
<1>14. AckedKept'
  BY <1>1, <1>4 DEF SyncInv, AckedKept
<1>15. Simulates
  BY <1>0, <1>1, <1>2, <1>4, SimulatesCommit
<1> QED BY <1>7, <1>8, <1>9, <1>10, <1>11, <1>12, <1>13, <1>14, <1>15
        DEF TrxInv

(* The loop of the COMMIT stage, and finish_commit. *)
LEMMA PipelineCommits ==
  ASSUME AlwaysSynced, Kept, server = "up", NEW t \in Session,
         CommitOne(t) \/ finish_commit(t)
  PROVE  \E h \in Session : CommitsSynced(h)
<1>0. /\ pc \in [Session -> Label] /\ is_open /\ TypeOK /\ PipeInv /\ IndInv
      /\ DurInv
  BY DEF AlwaysSynced, Kept, KeepsLog, LogKept, IndInv, TypeOK, PipelineTypeOK
<1>1. ~Die /\ pc[t] \notin Writing
  BY DEF CommitOne, finish_commit, restart, Die, Writing
<1>2. \A u \in Session : (Past(u)' => Past(u)) /\ (Unsynced(u) => Unsynced(u)')
  <2>1. pc[t] # "sync"
    BY <1>1 DEF Writing
  <2> QED BY <1>0, <1>1, <2>1, SyncMoves
<1>3. CASE CommitOne(t)
  <2> DEFINE h == Head(todo[t])
  <2>1. h \in Session /\ h \in Holds(t) /\ pending[h] /\ CommitsOne(h)
    BY <1>0, <1>3, CommitOneCommits
  <2> HIDE DEF h
  <2>2. Past(h)
    BY <1>0, <2>1 DEF Past, CommitsOne, PipeInv, PendingCommits
  <2>3. ~Unsynced(h)
    <3>1. h \notin Elems(m_queue["SYNC"])
      BY <1>0, <2>1 DEF PipeInv, OnePlace, NotQueuedAndHeld, Stage
    <3>2. \A v \in Session : h \in Holds(v) => v = t
      BY <1>0, <2>1 DEF PipeInv, OnePlace, NotHeldTwice
    <3> QED BY <1>1, <3>1, <3>2 DEF Unsynced, Holds
  <2>4. acked' = acked /\ do_rotate' = do_rotate
        /\ \A u \in Session : pc'[u] # pc[u] => pc'[u] \notin Rotating
    BY <1>0, <1>3 DEF CommitOne, Goto, locals, Rotating
  <2>5. CommitsSynced(h)
    BY <1>2, <2>1, <2>2, <2>3, <2>4 DEF CommitsSynced
  <2> QED BY <2>1, <2>5
<1>4. CASE finish_commit(t)
  <2>1. ~pending[t] /\ CommitsOne(t)
    BY <1>0, <1>4, FinishCommits
  <2>2. Past(t)
    BY <1>4, <2>1 DEF Past, CommitsOne, finish_commit, Committing
  <2>3. ~Unsynced(t)
    BY <1>0, <2>1, NotPlaced DEF PipeInv, Unsynced, Holds, Stage
  <2>4. /\ acked' \in {acked, acked \cup {Tid(t)}} /\ do_rotate' = do_rotate
        /\ \A u \in Session : u # t => pc'[u] = pc[u]
    BY <1>0, <1>4 DEF finish_commit, Goto, locals
  <2>5. CommitsSynced(t)
    BY <1>2, <2>1, <2>2, <2>3, <2>4 DEF CommitsSynced
  <2> QED BY <2>5
<1> QED BY <1>3, <1>4

(* A new file is opened: every commit record is on disk, so that recovery  *)
(* needs none of the transactions the old file held.                       *)
LEMMA ReopenTrx ==
  ASSUME Kept, SyncInv, server = "up", NEW t \in Session, RotateReopen(t)
  PROVE  TrxInv' /\ Simulates
<1>0. /\ binlog \in Seq(Trx) /\ synced \in Nat /\ synced <= Len(binlog)
      /\ commit_log \in Seq(Trx) /\ Len(commit_log) \in 0..Len(commit_log)
      /\ pc \in [Session -> Label] /\ Tid(t) \in Trx
  BY TidInjective DEF Kept, IndInv, TypeOK, PipelineTypeOK, DataTypeOK, DurInv,
                      FileOrder
<1>1. /\ pc[t] = "rot_reopen" /\ server' = "up"
      /\ UNCHANGED <<binlog, synced, prepared, commit_log, redo, committed, trx,
                     xid_written, m_queue, todo, do_rotate>>
  BY DEF RotateReopen, restart, flags, queues, engine, locals
<1>2. pc'[t] = "idle" /\ \A u \in Session : u # t => pc'[u] = pc[u]
  BY <1>0 DEF RotateReopen, Return, Goto
<1>3. /\ Done' = Done /\ Visible = Done /\ Visible' = Done
      /\ \A u \in Session : Tid(u)' = Tid(u)
  BY <1>1 DEF Done, Tid, Visible
<1>4. /\ \A u \in Session : ~xid_written[u]
      /\ redo = Len(commit_log)
      /\ do_rotate[t] => Tid(t) \in Done
  BY <1>1 DEF Kept, DurInv, RotationWaits, SyncInv, RotFlushed, RotAnswers
<1>5. \A u \in Session : ToFlush(u)' <=> ToFlush(u)
  BY <1>1, <1>2 DEF ToFlush
<1>6. \A u \in Session : Past(u)' => Past(u)
  BY <1>2, <1>5 DEF Past, Committing
<1>7. XidLogged' /\ PastLogged'
  BY <1>1, <1>3, <1>4, <1>6 DEF SyncInv, XidLogged, PastLogged
<1>8. Fresh'
  BY <1>1, <1>2, <1>3, <1>5 DEF SyncInv, Fresh
<1>9. CommitsLogged'
  <2>1. Prefix(commit_log, redo) = commit_log
    BY <1>0, <1>4, PrefixElems
  <2> QED BY <1>1, <2>1 DEF CommitsLogged
<1>10. DoneLogged' /\ RotFlushed' /\ RotAnswers'
  BY <1>1, <1>2, <1>3, <1>4 DEF SyncInv, DoneLogged, InLog, RotFlushed,
                                RotAnswers
<1>11. acked' = acked \/ (Tid(t) \in Done /\ acked' = acked \cup {Tid(t)})
  BY <1>4 DEF RotateReopen, Return
<1>12. AckedKept'
  BY <1>3, <1>11 DEF SyncInv, AckedKept
<1>13. Simulates
  <2>1. CASE acked' = acked
    BY <1>1, <1>3, <2>1 DEF Simulates
  <2>2. CASE acked' # acked
    <3>1. Tid(t) \in Elems(binlog)
      BY <1>0, <1>11, <2>2 DEF SyncInv, DoneLogged, InLog, Elems
    <3> QED BY <1>0, <1>1, <1>3, <1>11, <2>2, <3>1, SimulatesCommit
  <2> QED BY <2>1, <2>2
<1> QED BY <1>7, <1>8, <1>9, <1>10, <1>12, <1>13 DEF TrxInv

(* What recovery reads of the last file. *)
LEMMA LastFile ==
  ASSUME NEW S, NEW b \in Seq(S), NEW l \in 0..Len(b)
  PROVE  Elems(SubSeq(b, l + 1, Len(b))) = {b[i] : i \in (l + 1)..Len(b)}
<1>1. Len(b) \in 0..Len(b)
  OBVIOUS
<1> QED BY <1>1, CutElems

(* A crash, or an abort: a commit record that is lost belongs to a         *)
(* transaction that recovery finds in the last file.                       *)
LEMMA DieTrx ==
  ASSUME Kept, SyncInv, server = "up", Die, DurInv', DataTypeOK'
  PROVE  TrxInv' /\ Simulates
<1>0. /\ binlog \in Seq(Trx) /\ Len(binlog) \in Nat
      /\ commit_log \in Seq(Trx) /\ Len(commit_log) \in Nat
      /\ {log_start, synced, written, redo} \subseteq Nat
      /\ log_start <= synced /\ synced <= written
      /\ written <= Len(binlog) /\ redo <= Len(commit_log)
  <2>1. /\ binlog \in Seq(Trx) /\ commit_log \in Seq(Trx)
        /\ {log_start, synced, written, redo} \subseteq Nat
    BY DEF Kept, IndInv, TypeOK, DataTypeOK
  <2>2. /\ log_start <= synced /\ synced <= written
        /\ written <= Len(binlog) /\ redo <= Len(commit_log)
    BY DEF Kept, DurInv, FileOrder
  <2> QED BY <2>1, <2>2
<1>1. /\ server' = "down" /\ Reset' /\ commit_log' = <<>> /\ redo' = 0
      /\ \A u \in Session : ~xid_written'[u]
      /\ UNCHANGED <<log_start, trx, acked>>
  BY DEF Die, Reset
<1>2. PICK n \in synced..Len(binlog) :
        binlog' = Prefix(binlog, n) /\ synced' = n
  BY DEF Die
<1>3. PICK k \in redo..Len(commit_log) :
        /\ committed' = committed \cup Elems(Prefix(commit_log, k))
        /\ prepared' = prepared \cup
                       Elems(SubSeq(commit_log, k + 1, Len(commit_log)))
  BY DEF Die
<1>4. n \in 0..Len(binlog) /\ k \in 0..Len(commit_log) /\ redo \in 0..k
      /\ redo \in 0..Len(commit_log) /\ synced \in 0..n /\ log_start \in 0..n
  BY <1>0
<1>5. /\ Len(binlog') = n /\ \A i \in 1..n : binlog'[i] = binlog[i]
      /\ Elems(binlog') \subseteq Elems(binlog)
      /\ binlog' \in Seq(Trx)
  BY <1>0, <1>2, <1>4, PrefixElems
<1>6. Elems(binlog') = {binlog'[i] : i \in 1..n}
  BY <1>5 DEF Elems
<1>7. /\ Elems(Prefix(commit_log, redo)) \subseteq committed'
      /\ Elems(Prefix(commit_log, k)) \subseteq Elems(commit_log)
  <2>1. Elems(Prefix(commit_log, redo)) = {commit_log[i] : i \in 1..redo}
    BY <1>0, <1>4, PrefixElems
  <2>2. Elems(Prefix(commit_log, k)) = {commit_log[i] : i \in 1..k}
    BY <1>0, <1>4, PrefixElems
  <2>3. \A i \in 1..redo : i \in 1..k
    BY <1>0, <1>4
  <2>4. Elems(Prefix(commit_log, k)) \subseteq Elems(commit_log)
    BY <1>0, <1>4, PrefixElems
  <2> QED BY <1>3, <2>1, <2>2, <2>3, <2>4
<1>8. Elems(commit_log) \subseteq committed' \cup prepared'
  <2>1. Elems(commit_log) = Elems(Prefix(commit_log, k))
                       \cup Elems(SubSeq(commit_log, k + 1, Len(commit_log)))
    BY <1>0, <1>4, CutElems
  <2> QED BY <1>3, <2>1
<1>9. RecoveredXids' = {binlog'[i] : i \in (log_start + 1)..n}
  <2> DEFINE b == binlog'
             l == log_start'
  <2>1. b \in Seq(Trx) /\ l \in 0..Len(b) /\ Len(b) = n /\ l = log_start
        /\ Len(b) \in 0..Len(b)
    BY <1>0, <1>1, <1>4, <1>5
  <2> HIDE DEF b, l
  <2>2. Elems(SubSeq(b, l + 1, Len(b))) = {b[i] : i \in (l + 1)..Len(b)}
    BY <2>1, LastFile
  <2>3. RecoveredXids' = Elems(SubSeq(b, l + 1, Len(b)))
    BY DEF RecoveredXids, b, l
  <2>4. {b[i] : i \in (l + 1)..Len(b)} = {b[i] : i \in (log_start + 1)..n}
    BY <2>1
  <2> QED BY <2>2, <2>3, <2>4 DEF b
<1>10. /\ Visible = Done /\ Done' = committed'
       /\ Visible' = committed' \cup (prepared' \cap RecoveredXids')
  BY <1>1, ElemsEmpty DEF Visible, Done
<1>11. Done \subseteq Visible'
  <2> SUFFICES ASSUME NEW x \in Done, x \notin committed'
               PROVE  x \in prepared' \cap RecoveredXids'
    BY <1>10
  <2>1. x \in Elems(commit_log) /\ x \in prepared'
    BY <1>3, <1>8 DEF Done
  <2>2. InLog(x, log_start, synced)
    BY <1>7, <2>1 DEF SyncInv, CommitsLogged
  <2>3. PICK i \in (log_start + 1)..synced : binlog[i] = x
    BY <2>2 DEF InLog
  <2>4. i \in (log_start + 1)..n /\ i \in 1..n
    BY <1>0, <1>4
  <2> QED BY <1>5, <1>9, <2>1, <2>3, <2>4
<1>12. committed' \subseteq Done
  BY <1>3, <1>7 DEF Done
<1>13. \A x \in Done : \E i \in 1..n : binlog'[i] = x
  <2> SUFFICES ASSUME NEW x \in Done PROVE \E i \in 1..n : binlog'[i] = x
    OBVIOUS
  <2>1. PICK i \in (0 + 1)..synced : binlog[i] = x
    BY DEF SyncInv, DoneLogged, InLog
  <2>2. i \in 1..n
    BY <1>0, <1>4
  <2> QED BY <1>5, <2>1, <2>2
<1>14. DoneLogged'
  <2>1. \A x \in Done : \E i \in (0 + 1)..n : binlog'[i] = x
    BY <1>13
  <2> QED BY <1>2, <1>10, <1>12, <2>1 DEF DoneLogged, InLog
<1>15. \A u \in Session : pc'[u] = "idle" /\ ~ToFlush(u)'
  <2>1. /\ \A u \in Session : pc'[u] = "idle" /\ todo'[u] = <<>>
        /\ \A s \in Stage : m_queue'[s] = <<>>
    BY <1>1 DEF Reset
  <2> QED BY <2>1, ElemsEmpty DEF ToFlush, Stage
<1>16. XidLogged' /\ PastLogged' /\ RotFlushed' /\ RotAnswers'
  BY <1>1, <1>15 DEF XidLogged, PastLogged, Past, Committing, RotFlushed,
                     RotAnswers
<1>17. Fresh'
  BY <1>1, <1>5, <1>15 DEF SyncInv, Fresh
<1>18. CommitsLogged'
  BY <1>1, ElemsEmpty DEF CommitsLogged
<1>19. AckedKept'
  BY <1>1, <1>10, <1>11 DEF SyncInv, AckedKept
<1>20. Visible' = Elems(binlog')
  <2>1. ASSUME NEW x \in Visible' PROVE x \in Elems(binlog')
    <3>1. CASE x \in committed'
      BY <1>6, <1>12, <1>13, <3>1
    <3>2. CASE x \in RecoveredXids'
      <4>1. \A i \in (log_start + 1)..n : i \in 1..n
        BY <1>0
      <4> QED BY <1>6, <1>9, <3>2, <4>1
    <3> QED BY <1>10, <2>1, <3>1, <3>2
  <2>2. ASSUME NEW i \in 1..n PROVE binlog'[i] \in Visible'
    <3>1. binlog'[i] \in committed' \cup prepared'
      BY <1>6, <1>10 DEF DurInv, Accounted
    <3>2. CASE i \in 1..log_start
      <4>1. OnDisk' = committed'
        <5>1. Prefix(commit_log', redo') = <<>>
          BY <1>1 DEF Prefix
        <5> QED BY <5>1, ElemsEmpty DEF OnDisk
      <4>2. binlog'[i] \in OnDisk'
        BY <1>1, <3>2 DEF DurInv, OldFilesCommitted, OnDisk
      <4> QED BY <1>10, <4>1, <4>2
    <3>3. CASE i \notin 1..log_start
      <4>1. i \in (log_start + 1)..n
        BY <1>0, <3>3
      <4> QED BY <1>9, <1>10, <3>1, <4>1
    <3> QED BY <3>2, <3>3
  <2> QED BY <1>6, <2>1, <2>2
<1>21. Simulates
  <2>1. Visible \subseteq Elems(binlog')
    BY <1>6, <1>10, <1>13
  <2> QED BY <1>1, <1>2, <1>4, <1>20, <2>1, SimulatesCrash
<1> QED BY <1>14, <1>16, <1>17, <1>18, <1>19, <1>21 DEF TrxInv

(* Recovery makes visible what the crash had left to it. *)
LEMMA RecoverTrx ==
  ASSUME Kept, SyncInv, ha_recover
  PROVE  TrxInv' /\ Simulates
<1>0. /\ server = "down" /\ Reset /\ commit_log = <<>> /\ redo = 0
      /\ \A u \in Session : ~xid_written[u]
      /\ binlog \in Seq(Trx) /\ Len(binlog) \in Nat
      /\ log_start \in 0..Len(binlog) /\ synced = Len(binlog)
  BY DEF ha_recover, Kept, DurInv, DownReset, FileOrder, IndInv, TypeOK,
         DataTypeOK
<1>1. UNCHANGED <<pc, m_queue, todo, xid_written, binlog, synced, commit_log,
                  redo, trx, acked>>
  BY DEF ha_recover, queues, flags
<1>2. \A u \in Session : pc'[u] = "idle" /\ ~ToFlush(u)' /\ ~ToFlush(u)
  <2>1. /\ \A u \in Session : pc'[u] = "idle" /\ todo'[u] = <<>>
        /\ \A s \in Stage : m_queue'[s] = <<>>
    BY <1>0, <1>1 DEF Reset
  <2> QED BY <1>1, <2>1, ElemsEmpty DEF ToFlush, Stage
<1>3. XidLogged' /\ PastLogged' /\ RotFlushed' /\ RotAnswers'
  BY <1>0, <1>1, <1>2 DEF XidLogged, PastLogged, Past, Committing, RotFlushed,
                          RotAnswers
<1>4. Fresh' /\ CommitsLogged'
  BY <1>0, <1>1, <1>2, ElemsEmpty DEF SyncInv, Fresh, CommitsLogged
<1>5. RecoveredXids = {binlog[i] : i \in (log_start + 1)..Len(binlog)}
  BY <1>0, LastFile DEF RecoveredXids
<1>6. /\ Done = committed /\ Done' = committed'
      /\ Visible = committed \cup (prepared \cap RecoveredXids)
  BY <1>0, <1>1, ElemsEmpty DEF Done, Visible
<1>7. \A x \in Visible : \E i \in 1..Len(binlog) : binlog[i] = x
  <2>1. \A x \in committed : \E i \in (0 + 1)..Len(binlog) : binlog[i] = x
    BY <1>0, <1>6 DEF SyncInv, DoneLogged, InLog
  <2>2. \A i \in (log_start + 1)..Len(binlog) : i \in 1..Len(binlog)
    BY <1>0
  <2> QED BY <1>5, <1>6, <2>1, <2>2
<1>8. Visible' = Visible /\ committed' \subseteq Visible
  <2>1. CASE in_use \/ prepared = {}
    BY <1>0, <1>1, <1>6, <2>1, ElemsEmpty DEF ha_recover, Visible
  <2>2. CASE ~(in_use \/ prepared = {})
    <3>1. UNCHANGED <<committed, prepared, log_start, binlog>>
          /\ server' = "refused"
      BY <1>1, <2>2 DEF ha_recover
    <3>2. RecoveredXids' = RecoveredXids
      BY <3>1 DEF RecoveredXids
    <3> QED BY <1>6, <3>1, <3>2 DEF Visible
  <2> QED BY <2>1, <2>2
<1>9. DoneLogged'
  <2>1. \A x \in committed' : \E i \in (0 + 1)..Len(binlog) : binlog[i] = x
    BY <1>7, <1>8
  <2> QED BY <1>0, <1>1, <1>6, <2>1 DEF DoneLogged, InLog
<1>10. AckedKept' /\ Simulates
  BY <1>1, <1>8 DEF SyncInv, AckedKept, Simulates
<1> QED BY <1>3, <1>4, <1>9, <1>10 DEF TrxInv

(* Nothing happens. *)
LEMMA StutterTrx ==
  ASSUME SyncInv, UNCHANGED vars
  PROVE  TrxInv' /\ Simulates
<1>1. UNCHANGED <<pc, m_queue, final_queue, todo, binlog, log_start, synced,
                  prepared, commit_log, redo, committed, server, xid_written,
                  trx, acked, do_rotate>>
  BY DEF vars, queues, flags, locals, logfile, engine, restart
<1>2. /\ Done' = Done /\ Visible' = Visible
      /\ \A u : /\ Tid(u)' = Tid(u) /\ (Past(u)' <=> Past(u))
                /\ (ToFlush(u)' <=> ToFlush(u))
                /\ (Unsynced(u)' <=> Unsynced(u))
  BY <1>1 DEF Done, Visible, RecoveredXids, Tid, Past, ToFlush, Unsynced
<1>3. XidLogged' /\ PastLogged' /\ Fresh'
  BY <1>1, <1>2 DEF SyncInv, XidLogged, PastLogged, Fresh, InLog
<1>4. /\ CommitsLogged' /\ DoneLogged' /\ RotFlushed' /\ RotAnswers'
      /\ AckedKept'
  BY <1>1, <1>2 DEF SyncInv, CommitsLogged, DoneLogged, InLog, RotFlushed,
                    RotAnswers, AckedKept
<1>5. Simulates
  BY <1>1, <1>2 DEF Simulates
<1> QED BY <1>3, <1>4, <1>5 DEF TrxInv

(***************************************************************************)
(* The theorems.                                                           *)
(***************************************************************************)

(* Every step keeps the invariant and is a step of the coordinator. *)
LEMMA SyncStep ==
  ASSUME AlwaysSynced, Kept, SyncInv, [Next]_vars, DurInv', DataTypeOK'
  PROVE  SyncInv' /\ Simulates
<1>0. KeepsLog /\ ErrorFree /\ is_open /\ IndInv
  BY DEF AlwaysSynced, KeepsLog, Kept, LogKept
<1>1. (SyncLock /\ FileWritten /\ IdleSynced)'
  BY SyncLockStep
<1>2. TrxInv' /\ Simulates
  <2>1. ASSUME QuietForTrx PROVE TrxInv' /\ Simulates
    BY <2>1, QuietTrx, QuietSimulates
  <2>2. ASSUME Die, server = "up" PROVE TrxInv' /\ Simulates
    BY <2>2, DieTrx
  <2>3. ASSUME NEW t \in Session, Step(t), ~Die PROVE TrxInv' /\ Simulates
    <3>1. server = "up"
      BY <2>3 DEF Step
    <3>2. ~HandleFlushError(t) /\ ~HandleSyncError(t) /\ ~RotateFails(t)
      BY <1>0, <2>3, NeverCloses
    <3>3. CASE OrderedCommit(t)
      <4>1. CASE CommitOne(t) \/ finish_commit(t)
        BY <3>1, <4>1, PipelineCommits, CommitsTrx
      <4>2. CASE FlushOne(t) \/ FlushRest(t)
        BY <1>0, <3>1, <4>2, FlushFlushes, FlushesTrx
      <4>3. CASE ~(CommitOne(t) \/ finish_commit(t) \/ FlushOne(t)
                   \/ FlushRest(t))
        BY <2>1, <2>3, <3>1, <3>2, <3>3, <4>3, PipelineQuietTrx
           DEF OrderedCommit
      <4> QED BY <4>1, <4>2, <4>3
    <3>4. CASE RotateReopen(t)
      BY <3>1, <3>4, ReopenTrx
    <3>5. CASE RotateLock(t) \/ RotateClose(t) \/ Snapshot(t)
      BY <2>1, <3>1, <3>5, OutsideQuietTrx
    <3> QED BY <2>3, <3>2, <3>3, <3>4, <3>5 DEF Step, Rotate
  <2>4. ASSUME NEW t \in Session, Begin(t), server = "up"
        PROVE  TrxInv' /\ Simulates
    <3>1. ~CommitUnlogged(t)
      BY <1>0 DEF CommitUnlogged
    <3>2. CASE prepare(t)
      BY <2>1, <2>4, <3>2, PrepareQuietTrx
    <3>3. CASE FlushLogs(t) \/ StartSnapshot(t)
      BY <2>1, <2>4, <3>3, OutsideQuietTrx
    <3> QED BY <2>4, <3>1, <3>2, <3>3 DEF Begin
  <2>5. ASSUME SetSyncPeriod \/ SetOrderCommits, server = "up"
        PROVE  TrxInv' /\ Simulates
    BY <2>1, <2>5, OutsideQuietTrx
  <2>6. CASE ha_recover
    BY <2>6, RecoverTrx
  <2>7. CASE UNCHANGED vars
    BY <2>7, StutterTrx
  <2> QED BY <2>2, <2>3, <2>4, <2>5, <2>6, <2>7 DEF Next, Step, Crash
<1> QED BY <1>1, <1>2 DEF SyncInv, TrxInv

(* The first start. *)
LEMMA InitSync == Init => SyncInv
<1> SUFFICES ASSUME Init PROVE SyncInv
  OBVIOUS
<1>1. /\ binlog = <<>> /\ Len(binlog) = 0 /\ commit_log = <<>>
      /\ Len(commit_log) = 0 /\ redo = 0 /\ server = "up" /\ synced = 0
      /\ committed = {} /\ acked = {}
      /\ \A u \in Session : pc[u] = "idle" /\ ~xid_written[u]
                            /\ todo[u] = <<>>
      /\ m_queue["FLUSH"] = <<>>
  BY DEF Init, Stage
<1>2. /\ SyncLock /\ FileWritten /\ IdleSynced /\ XidLogged /\ RotFlushed
      /\ RotAnswers
  BY <1>1 DEF SyncLock, FileWritten, IdleSynced, XidLogged, RotFlushed,
              RotAnswers
<1>3. PastLogged
  BY <1>1 DEF PastLogged, Past, Committing
<1>4. Fresh /\ CommitsLogged /\ DoneLogged /\ AckedKept
  BY <1>1, ElemsEmpty DEF Fresh, ToFlush, CommitsLogged, DoneLogged, Done,
                          AckedKept
<1> QED BY <1>2, <1>3, <1>4 DEF SyncInv

(* The invariant of a server that syncs every group. *)
THEOREM SyncedInvariant ==
  ASSUME AlwaysSynced
  PROVE  Spec => [](Kept /\ SyncInv)
<1>1. Init => SyncInv
  BY InitSync
<1>2. Kept /\ SyncInv /\ [Next]_vars /\ Kept' => SyncInv'
  BY SyncStep DEF Kept, IndInv, TypeOK
<1>3. Spec => []Kept
  BY KeptInvariant DEF Kept
<1> QED BY <1>1, <1>2, <1>3, PTL DEF Spec

(* Whoever finds LOCK_log free finds nothing in the log that is not on     *)
(* disk: EnrollSync keeps the lock until sync_binlog_file is through.      *)
THEOREM SyncedIsVisible ==
  ASSUME AlwaysSynced
  PROVE  Spec => []SyncedBeforeVisible
<1>1. Kept /\ SyncInv => SyncedBeforeVisible
  <2> SUFFICES ASSUME Kept, SyncInv, LOCK_log = NoOne
               PROVE  synced = Len(binlog)
    BY DEF SyncedBeforeVisible
  <2>1. \A t \in Session : pc[t] \notin Writing
    BY WriterHolds, SessionAssumption DEF Kept, SyncInv
  <2> QED BY <2>1 DEF SyncInv, IdleSynced
<1> QED BY <1>1, SyncedInvariant, PTL

(* A COMMIT that returned success is not undone by a crash. *)
THEOREM AckedStaysCommitted ==
  ASSUME AlwaysSynced
  PROVE  Spec => []AckedIsCommitted
<1>1. SyncInv => AckedIsCommitted
  BY DEF SyncInv, AckedKept, Visible, AckedIsCommitted
<1> QED BY <1>1, SyncedInvariant, PTL

(* The pipeline, its crashes and its recovery implement AtomicCommit. *)
THEOREM Refinement ==
  ASSUME AlwaysSynced
  PROVE  Spec => ImplementsAtomicCommit
<1>1. Init => Coordinator!Init
  BY ElemsEmpty DEF Init, Coordinator!Init, Visible
<1>2. Kept /\ SyncInv /\ Kept' /\ [Next]_vars
        => [Coordinator!Next]_(Coordinator!vars)
  <2>1. Simulates => [Coordinator!Next]_(Coordinator!vars)
    BY DEF Simulates, Coordinator!vars
  <2> QED BY <2>1, SyncStep DEF Kept, IndInv, TypeOK
<1> QED BY <1>1, <1>2, SyncedInvariant, PTL
        DEF Spec, ImplementsAtomicCommit, Coordinator!Spec

=============================================================================
