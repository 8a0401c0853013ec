---------------------------- MODULE GroupCommit ----------------------------
(***************************************************************************)
(* The binary log as transaction coordinator: sql/binlog.cc.               *)
(*                                                                         *)
(* A session that commits is prepared in the storage engine and then goes  *)
(* through MYSQL_BIN_LOG::ordered_commit: it joins the queue of the FLUSH  *)
(* stage, and the session that finds a queue empty becomes the leader that *)
(* takes the whole queue through FLUSH, SYNC and COMMIT while the others   *)
(* sleep as followers.  Around the pipeline: rotation of the log file      *)
(* (FLUSH LOGS, or a file past max_size), the commit-blocking lock of      *)
(* START TRANSACTION WITH CONSISTENT SNAPSHOT, the I/O errors that         *)
(* binlog_error_action decides about, the two dynamic options the          *)
(* pipeline reads while it runs, and crash plus two-phase recovery.        *)
(*                                                                         *)
(* Every transaction has an XID (one 2PC engine and the binary log); an    *)
(* engine never fails to commit; an action is a run of code between two    *)
(* accesses to state another thread can interleave with.                   *)
(***************************************************************************)
EXTENDS Integers, Sequences, FiniteSets

CONSTANTS
  Session,      \* the THDs
  NoOne,        \* "no session": an unlocked mutex
  SyncPeriods,  \* the values SET GLOBAL sync_binlog may give
  OrderModes,   \* the values SET GLOBAL binlog_order_commits may give
  Dynamic,      \* may the two be set while the server runs?
  ErrorAction,  \* binlog_error_action
  IoErrors,     \* may writes and fsyncs of the log fail?
  MaxSize,      \* max_binlog_size, in transactions
  MaxTrx,       \* bound: statements a session issues
  MaxStatements,\* bound: statements all sessions issue
  MaxCrashes    \* bound: crashes (an abort is not bounded by it)

ASSUME SessionAssumption == NoOne \notin Session /\ IsFiniteSet(Session)

ASSUME OptionAssumption ==
  /\ SyncPeriods \subseteq Nat /\ SyncPeriods # {}
  /\ OrderModes \subseteq BOOLEAN /\ OrderModes # {}
  /\ ErrorAction \in {"ABORT_SERVER", "IGNORE_ERROR"}
  /\ IoErrors \in BOOLEAN /\ Dynamic \in BOOLEAN

ASSUME BoundAssumption ==
  /\ MaxSize \in Nat \ {0}
  /\ MaxTrx \in Nat /\ MaxStatements \in Nat /\ MaxCrashes \in Nat

VARIABLES
  pc,             \* where each session is
  m_queue,        \* Stage_manager::m_queue
  final_queue,    \* the leader's wait_queue / final_queue / commit_queue
  todo,           \* what the leader's loop over a fetched queue has left
  LOCK_log, LOCK_sync, LOCK_commit, LOCK_consistent_snapshot,
  pending, commit_error, xid_written,  \* THD: transaction.flags, commit_error
  flush_error, do_rotate,              \* locals of ordered_commit
  m_prep_xids,    \* transactions in the log not yet committed in the engine
  sync_counter,
  sync_period, order_commits,          \* the dynamic options
  binlog,         \* all log files, one after the other
  log_start,      \* where the current file starts
  written,        \* what has left the IO_CACHE for the file
  synced,         \* what is on disk
  is_open,        \* log_state # LOG_CLOSED
  in_use,         \* LOG_EVENT_BINLOG_IN_USE_F of the last file in the index
  prepared,       \* engine: transactions prepared, on disk
  commit_log,     \* engine: transactions committed since the server started
  redo,           \* engine: how much of commit_log is on disk
  committed,      \* engine: transactions found committed at the last start
  boot,           \* Len(binlog) at the last start
  server,         \* "up", "down", or "refused" to start
  trx,            \* statements issued by each session
  acked,          \* transactions whose COMMIT returned success
  crashes         \* times the server died

locks   == <<LOCK_log, LOCK_sync, LOCK_commit, LOCK_consistent_snapshot>>
queues  == <<m_queue, final_queue, todo>>
flags   == <<pending, commit_error, xid_written, m_prep_xids>>
locals  == <<flush_error, do_rotate>>
options == <<sync_period, order_commits>>
logfile == <<binlog, log_start, written, synced, is_open, in_use>>
engine  == <<prepared, commit_log, redo>>
restart == <<committed, boot, server, crashes>>

vars == <<pc, queues, locks, flags, locals, sync_counter, options, logfile,
          engine, restart, trx, acked>>

Stage == {"FLUSH", "SYNC", "COMMIT"}

(* A transaction is known by its session and the statement that commits it. *)
Tid(t) == <<t, trx[t]>>
Trx == Session \X (0..MaxTrx)

Elems(s) == {s[i] : i \in 1..Len(s)}
Prefix(s, n) == SubSeq(s, 1, n)

Goto(t, label) == pc' = [pc EXCEPT ![t] = label]

(* Mutexes: Unlock releases what the session holds and nothing else. *)
Unlock(mutex, t) == IF mutex = t THEN NoOne ELSE mutex

Label == {"idle", "prepared", "lock_log", "flush", "flush_rest", "flushed",
          "enter_sync", "lock_sync", "sync", "enter_commit", "lock_commit",
          "commit", "sync_error", "signal", "follower", "finish",
          "rotate", "rot_wait", "rot_reopen", "snap_lock",
          "snap_commit", "snap_rw", "snapshot"}

(***************************************************************************)
(* What the handlers share.                                                *)
(***************************************************************************)

(* Operators named Fault... are wrong variants of the definition that      *)
(* follows them, for checking that the properties would notice.            *)
FaultEnrollAtFront(t, stage, q, leader) ==
  /\ m_queue' = [m_queue EXCEPT ![stage] = q \o @]
  /\ Goto(t, IF m_queue[stage] = <<>> THEN leader ELSE "follower")

FaultEmptyTestedAfterAppend(t, stage, q, leader) ==
  /\ m_queue' = [m_queue EXCEPT ![stage] = @ \o q]
  /\ Goto(t, IF m_queue[stage] \o q = <<>> THEN leader ELSE "follower")

(* Stage_manager::enroll_for: the queue of sessions q joins a stage; who   *)
(* finds the stage empty leads it, the others sleep until signal_done.     *)
enroll_for(t, stage, q, leader) ==
  /\ m_queue' = [m_queue EXCEPT ![stage] = @ \o q]
  /\ Goto(t, IF m_queue[stage] = <<>> THEN leader ELSE "follower")

FaultQueueNotEmptied(t, stage) ==
  /\ final_queue' = [final_queue EXCEPT ![t] = m_queue[stage]]
  /\ UNCHANGED m_queue

(* Stage_manager::fetch_queue_for: the leader takes the whole queue. *)
fetch_queue_for(t, stage) ==
  /\ final_queue' = [final_queue EXCEPT ![t] = m_queue[stage]]
  /\ m_queue' = [m_queue EXCEPT ![stage] = <<>>]

(* A write that fails is noted for the group only. *)
FaultNotMarked(h, ok) ==
  IF ok
  THEN /\ binlog' = Append(binlog, Tid(h))
       /\ xid_written' = [xid_written EXCEPT ![h] = TRUE]
       /\ m_prep_xids' = m_prep_xids + 1
       /\ UNCHANGED commit_error
  ELSE IoErrors /\ UNCHANGED <<binlog, xid_written, m_prep_xids, commit_error>>

(* flush_thread_caches: session h's cache is appended to the log and its   *)
(* XID counted, or the write fails and the session is marked.              *)
flush_thread_caches(h, ok) ==
  IF ok
  THEN /\ binlog' = Append(binlog, Tid(h))
       /\ xid_written' = [xid_written EXCEPT ![h] = TRUE]
       /\ m_prep_xids' = m_prep_xids + 1
       /\ UNCHANGED commit_error
  ELSE /\ IoErrors
       /\ commit_error' = [commit_error EXCEPT ![h] = "FLUSH"]
       /\ UNCHANGED <<binlog, xid_written, m_prep_xids>>

(* The leader's flush_error: 1 until a first result of 0, then 0 for good. *)
note_result(t, ok) ==
  flush_error' = [flush_error EXCEPT ![t] =
                    IF @ = 1 THEN (IF ok THEN 0 ELSE 1) ELSE @]

(* ha_commit_low of a prepared transaction.  Nothing waits for the disk:   *)
(* ordered_commit asks for HA_IGNORE_DURABILITY.                           *)
ha_commit_low(x) ==
  /\ commit_log' = Append(commit_log, x)
  /\ prepared' = prepared \ {x}
  /\ UNCHANGED redo

FaultFlagNotCleared(h) ==
  /\ m_prep_xids' = m_prep_xids - (IF xid_written[h] THEN 1 ELSE 0)
  /\ UNCHANGED xid_written

(* dec_prep_xids, for a session that wrote an XID. *)
dec_prep_xids(h) ==
  /\ xid_written' = [xid_written EXCEPT ![h] = FALSE]
  /\ m_prep_xids' = m_prep_xids - (IF xid_written[h] THEN 1 ELSE 0)

FileSize == Len(binlog) - log_start

(* MYSQL_BIN_LOG::close for good: the file is written out and synced, the  *)
(* in-use flag cleared, and logging is off until the server is restarted.  *)
close_log(contents) ==
  /\ binlog' = contents
  /\ written' = Len(contents)
  /\ synced' = Len(contents)
  /\ is_open' = FALSE
  /\ in_use' = FALSE
  /\ UNCHANGED log_start

(* What a dying server leaves behind: some of the log past the last sync,  *)
(* some of the commit records past the last redo flush.  A transaction     *)
(* whose commit record is lost is prepared again.                          *)
Die ==
  /\ server' = "down"
  /\ \E n \in synced..Len(binlog) :
       /\ binlog' = Prefix(binlog, n)
       /\ written' = n
       /\ synced' = n
  /\ \E k \in redo..Len(commit_log) :
       /\ committed' = committed \cup Elems(Prefix(commit_log, k))
       /\ prepared' = prepared \cup
                      Elems(SubSeq(commit_log, k + 1, Len(commit_log)))
  /\ commit_log' = <<>>
  /\ redo' = 0
  /\ pc' = [t \in Session |-> "idle"]
  /\ m_queue' = [s \in Stage |-> <<>>]
  /\ final_queue' = [t \in Session |-> <<>>]
  /\ todo' = [t \in Session |-> <<>>]
  /\ LOCK_log' = NoOne /\ LOCK_sync' = NoOne
  /\ LOCK_commit' = NoOne /\ LOCK_consistent_snapshot' = NoOne
  /\ pending' = [t \in Session |-> FALSE]
  /\ commit_error' = [t \in Session |-> "NONE"]
  /\ xid_written' = [t \in Session |-> FALSE]
  /\ flush_error' = [t \in Session |-> 0]
  /\ do_rotate' = [t \in Session |-> FALSE]
  /\ m_prep_xids' = 0
  /\ sync_counter' = 0
  /\ crashes' = crashes + 1
  /\ UNCHANGED <<options, log_start, is_open, in_use, boot, trx, acked>>

(***************************************************************************)
(* A session starts a statement: COMMIT, FLUSH LOGS or START TRANSACTION   *)
(* WITH CONSISTENT SNAPSHOT.                                               *)
(***************************************************************************)

(* ha_commit_trans up to MYSQL_BIN_LOG::prepare: the engine writes its     *)
(* prepare record and flushes the redo log, earlier commit records too.    *)
prepare(t) ==
  /\ pc[t] = "idle" /\ trx[t] < MaxTrx
  /\ \A x \in prepared : x[1] # t
  /\ trx' = [trx EXCEPT ![t] = @ + 1]
  /\ prepared' = prepared \cup {<<t, trx[t] + 1>>}
  /\ redo' = Len(commit_log)
  /\ Goto(t, "prepared")
  /\ UNCHANGED <<queues, locks, flags, locals, sync_counter, options, logfile,
                 commit_log, restart, acked>>

(* A transaction begun after the log was closed has nothing in its caches: *)
(* MYSQL_BIN_LOG::commit only commits it in the engine, durably.           *)
CommitUnlogged(t) ==
  /\ pc[t] = "idle" /\ trx[t] < MaxTrx
  /\ ~is_open
  /\ \A x \in prepared : x[1] # t
  /\ trx' = [trx EXCEPT ![t] = @ + 1]
  /\ commit_log' = Append(commit_log, <<t, trx[t] + 1>>)
  /\ redo' = Len(commit_log) + 1
  /\ acked' = acked \cup {<<t, trx[t] + 1>>}
  /\ UNCHANGED <<pc, queues, locks, flags, locals, sync_counter, options,
                 logfile, prepared, restart>>

(* rotate_and_purge(force) by FLUSH LOGS. *)
FlushLogs(t) ==
  /\ pc[t] = "idle" /\ trx[t] < MaxTrx
  /\ trx' = [trx EXCEPT ![t] = @ + 1]
  /\ do_rotate' = [do_rotate EXCEPT ![t] = FALSE]
  /\ Goto(t, "rotate")
  /\ UNCHANGED <<queues, locks, flags, flush_error, sync_counter, options,
                 logfile, engine, restart, acked>>

StartSnapshot(t) ==
  /\ pc[t] = "idle" /\ trx[t] < MaxTrx
  /\ trx' = [trx EXCEPT ![t] = @ + 1]
  /\ Goto(t, "snap_lock")
  /\ UNCHANGED <<queues, locks, flags, locals, sync_counter, options, logfile,
                 engine, restart, acked>>

(***************************************************************************)
(* ordered_commit, stage #1: the leader holds LOCK_log and writes the      *)
(* caches of everyone in the FLUSH queue to the log.                       *)
(***************************************************************************)

EnrollFlush(t) ==
  /\ pc[t] = "prepared"
  /\ pending' = [pending EXCEPT ![t] = TRUE]
  /\ commit_error' = [commit_error EXCEPT ![t] = "NONE"]
  /\ xid_written' = [xid_written EXCEPT ![t] = FALSE]
  /\ do_rotate' = [do_rotate EXCEPT ![t] = FALSE]
  /\ enroll_for(t, "FLUSH", <<t>>, "lock_log")
  /\ UNCHANGED <<final_queue, todo, locks, m_prep_xids, flush_error,
                 sync_counter, options, logfile, engine, restart, trx, acked>>

(* With the log closed the FLUSH and SYNC stages are skipped and LOCK_log  *)
(* is what the leader leaves behind when it enters the COMMIT stage.       *)
LockLog(t) ==
  /\ pc[t] = "lock_log" /\ LOCK_log = NoOne
  /\ LOCK_log' = t
  /\ IF is_open
     THEN /\ flush_error' = [flush_error EXCEPT ![t] = 1]
          /\ Goto(t, "flush")
          /\ UNCHANGED <<m_queue, final_queue>>
     ELSE /\ flush_error' = [flush_error EXCEPT ![t] = 0]
          /\ fetch_queue_for(t, "FLUSH")
          /\ Goto(t, "enter_commit")
  /\ UNCHANGED <<todo, LOCK_sync, LOCK_commit, LOCK_consistent_snapshot, flags,
                 do_rotate, sync_counter, options, logfile, engine, restart,
                 trx, acked>>

(* The first loop of process_flush_stage_queue: one pop_front.  New        *)
(* sessions may join the queue while it runs.                              *)
FlushOne(t) ==
  /\ pc[t] = "flush"
  /\ LET h == Head(m_queue["FLUSH"]) IN
     /\ \E ok \in BOOLEAN : flush_thread_caches(h, ok) /\ note_result(t, ok)
     /\ final_queue' = [final_queue EXCEPT ![t] = Append(@, h)]
     /\ m_queue' = [m_queue EXCEPT !["FLUSH"] = Tail(@)]
     /\ Goto(t, IF Len(m_queue["FLUSH"]) > 1 THEN "flush" ELSE "flushed")
  /\ UNCHANGED <<todo, locks, pending, do_rotate, sync_counter, options,
                 log_start, written, synced, is_open, in_use, engine, restart,
                 trx, acked>>

(* binlog_max_flush_queue_time is over before the queue is empty: what is  *)
(* left is fetched whole, and flushed by the second loop.                  *)
FetchRest(t) ==
  /\ pc[t] = "flush"
  /\ todo' = [todo EXCEPT ![t] = m_queue["FLUSH"]]
  /\ m_queue' = [m_queue EXCEPT !["FLUSH"] = <<>>]
  /\ Goto(t, "flush_rest")
  /\ UNCHANGED <<final_queue, locks, flags, locals, sync_counter, options,
                 logfile, engine, restart, trx, acked>>

FlushRest(t) ==
  /\ pc[t] = "flush_rest"
  /\ LET h == Head(todo[t]) IN
     /\ \E ok \in BOOLEAN : flush_thread_caches(h, ok) /\ note_result(t, ok)
     /\ final_queue' = [final_queue EXCEPT ![t] = Append(@, h)]
     /\ todo' = [todo EXCEPT ![t] = Tail(@)]
     /\ Goto(t, IF Len(todo[t]) > 1 THEN "flush_rest" ELSE "flushed")
  /\ UNCHANGED <<m_queue, locks, pending, do_rotate, sync_counter, options,
                 log_start, written, synced, is_open, in_use, engine, restart,
                 trx, acked>>

(* The end of the stage: flush_cache_to_file, then the after_flush hook. *)
FlushToFile(t) ==
  /\ pc[t] = "flushed"
  /\ flush_error[t] = 0
  /\ do_rotate' = [do_rotate EXCEPT ![t] = FileSize >= MaxSize]
  /\ written' = Len(binlog)
  /\ Goto(t, "enter_sync")
  /\ UNCHANGED <<queues, locks, flags, flush_error, sync_counter, options,
                 binlog, log_start, synced, is_open, in_use, engine, restart,
                 trx, acked>>

(* handle_binlog_flush_or_sync_error while LOCK_log is held: no cache of   *)
(* the group could be written, or flushing the IO_CACHE to the file failed *)
(* (and some of it stays unwritten), or the hook failed.                   *)
HandleFlushError(t) ==
  /\ pc[t] = "flushed"
  /\ flush_error[t] = 1 \/ IoErrors
  /\ IF ErrorAction = "ABORT_SERVER"
     THEN Die
     ELSE /\ flush_error' = [flush_error EXCEPT ![t] = 1]
          /\ do_rotate' = [do_rotate EXCEPT ![t] =
                             flush_error[t] = 0 /\ FileSize >= MaxSize]
          /\ \/ flush_error[t] = 0
                /\ commit_error' = [commit_error EXCEPT ![t] = "FLUSH"]
                /\ \E n \in written..Len(binlog) : close_log(Prefix(binlog, n))
             \/ close_log(binlog) /\ UNCHANGED commit_error
          /\ Goto(t, "enter_sync")
          /\ UNCHANGED <<queues, locks, pending, xid_written, m_prep_xids,
                         sync_counter, options, engine, restart, trx, acked>>

(***************************************************************************)
(* Stage #2: the leader syncs the file for its own group and for the       *)
(* groups that joined.  With sync_binlog = 1 LOCK_log is kept so that no   *)
(* dump thread can read what is not on disk.                               *)
(***************************************************************************)

FaultLogReleased == FALSE
need_LOCK_log == sync_period = 1

EnrollSync(t) ==
  /\ pc[t] = "enter_sync"
  /\ enroll_for(t, "SYNC", final_queue[t], "lock_sync")
  /\ final_queue' = [final_queue EXCEPT ![t] = <<>>]
  /\ LOCK_log' = IF need_LOCK_log THEN LOCK_log ELSE NoOne
  /\ UNCHANGED <<todo, LOCK_sync, LOCK_commit, LOCK_consistent_snapshot, flags,
                 locals, sync_counter, options, logfile, engine, restart,
                 trx, acked>>

LockSync(t) ==
  /\ pc[t] = "lock_sync" /\ LOCK_sync = NoOne
  /\ LOCK_sync' = t
  /\ fetch_queue_for(t, "SYNC")
  /\ Goto(t, "sync")
  /\ UNCHANGED <<todo, LOCK_log, LOCK_commit, LOCK_consistent_snapshot, flags,
                 locals, sync_counter, options, logfile, engine, restart,
                 trx, acked>>

FaultPostIncrement == sync_counter >= sync_period
sync_due == sync_counter + 1 >= sync_period

(* sync_binlog_file, and the unlock of LOCK_log if it was kept.  fsync     *)
(* reaches what has left the IO_CACHE, not what a next leader is writing.  *)
sync_binlog_file(t) ==
  /\ pc[t] = "sync"
  /\ IF flush_error[t] = 0 /\ sync_period > 0
     THEN IF sync_due
          THEN /\ sync_counter' = 0
               /\ \/ synced' = written /\ UNCHANGED commit_error
                  \/ /\ IoErrors
                     /\ commit_error' = [commit_error EXCEPT ![t] = "SYNC"]
                     /\ UNCHANGED synced
          ELSE /\ sync_counter' = sync_counter + 1
               /\ UNCHANGED <<synced, commit_error>>
     ELSE UNCHANGED <<sync_counter, synced, commit_error>>
  /\ LOCK_log' = Unlock(LOCK_log, t)
  /\ Goto(t, "enter_commit")
  /\ UNCHANGED <<queues, LOCK_sync, LOCK_commit, LOCK_consistent_snapshot,
                 pending, xid_written, m_prep_xids, locals, options, binlog,
                 log_start, written, is_open, in_use, engine, restart,
                 trx, acked>>

(***************************************************************************)
(* Stage #3: the leader commits everyone in the engine, in queue order.    *)
(* Without binlog_order_commits each session commits itself in             *)
(* finish_commit.                                                          *)
(***************************************************************************)

(* sync_error of ordered_commit is the leader's commit_error. *)
SyncError(t) == commit_error[t] = "SYNC"

EnterCommit(t) ==
  /\ pc[t] = "enter_commit"
  /\ IF order_commits /\ (SyncError(t) => ErrorAction # "ABORT_SERVER")
     THEN /\ enroll_for(t, "COMMIT", final_queue[t], "lock_commit")
          /\ final_queue' = [final_queue EXCEPT ![t] = <<>>]
     ELSE /\ Goto(t, IF SyncError(t) THEN "sync_error" ELSE "signal")
          /\ UNCHANGED <<m_queue, final_queue>>
  /\ LOCK_log' = Unlock(LOCK_log, t)
  /\ LOCK_sync' = Unlock(LOCK_sync, t)
  /\ UNCHANGED <<todo, LOCK_commit, LOCK_consistent_snapshot, flags, locals,
                 sync_counter, options, logfile, engine, restart, trx, acked>>

LockCommit(t) ==
  /\ pc[t] = "lock_commit" /\ LOCK_commit = NoOne
  /\ LOCK_commit' = t
  /\ fetch_queue_for(t, "COMMIT")
  /\ todo' = [todo EXCEPT ![t] = m_queue["COMMIT"]]
  /\ Goto(t, "commit")
  /\ UNCHANGED <<LOCK_log, LOCK_sync, LOCK_consistent_snapshot, flags, locals,
                 sync_counter, options, logfile, engine, restart, trx, acked>>

(* Shall process_commit_stage_queue commit session h in the engine? *)
FaultErrorSkipsCommit(h) == Tid(h) \in prepared /\ commit_error[h] = "NONE"
commit_low(h) == Tid(h) \in prepared

(* Its XID is counted down whatever the error. *)
FaultErrorKeepsXid(h) ==
  IF commit_error[h] = "NONE" THEN dec_prep_xids(h)
  ELSE UNCHANGED <<xid_written, m_prep_xids>>
dec_after_commit(h) == dec_prep_xids(h)

(* One turn of process_commit_stage_queue: flush and sync errors are       *)
(* ignored.  LOCK_commit is released with the last session.                *)
CommitOne(t) ==
  /\ pc[t] = "commit"
  /\ LET h == Head(todo[t]) IN
     /\ IF commit_low(h) THEN ha_commit_low(Tid(h)) ELSE UNCHANGED engine
     /\ dec_after_commit(h)
  /\ todo' = [todo EXCEPT ![t] = Tail(@)]
  /\ IF Len(todo[t]) > 1
     THEN UNCHANGED <<pc, LOCK_commit>>
     ELSE /\ LOCK_commit' = NoOne
          /\ Goto(t, IF SyncError(t) THEN "sync_error" ELSE "signal")
  /\ UNCHANGED <<m_queue, final_queue, LOCK_log, LOCK_sync,
                 LOCK_consistent_snapshot, pending, commit_error, locals,
                 sync_counter, options, logfile, restart, trx, acked>>

(* handle_binlog_flush_or_sync_error(need_lock_log), after all the locks   *)
(* of the stages are released.                                             *)
HandleSyncError(t) ==
  /\ pc[t] = "sync_error"
  /\ IF ErrorAction = "ABORT_SERVER"
     THEN Die
     ELSE /\ LOCK_log = NoOne
          /\ IF is_open THEN close_log(binlog) ELSE UNCHANGED logfile
          /\ Goto(t, "signal")
          /\ UNCHANGED <<queues, locks, flags, locals, sync_counter, options,
                         engine, restart, trx, acked>>

(* The sessions that signal_done wakes. *)
FaultWakesItself(t) == {t}
woken(t) == Elems(final_queue[t])

signal_done(t) ==
  /\ pc[t] = "signal"
  /\ pending' = [u \in Session |-> pending[u] /\ u \notin woken(t)]
  /\ final_queue' = [final_queue EXCEPT ![t] = <<>>]
  /\ Goto(t, "finish")
  /\ UNCHANGED <<m_queue, todo, locks, commit_error, xid_written, m_prep_xids,
                 locals, sync_counter, options, logfile, engine, restart,
                 trx, acked>>

FaultNoSlock == TRUE
slock == LOCK_consistent_snapshot = NoOne

(* finish_commit, by the leader and by every follower it has woken.  The   *)
(* engine commit of an unordered group happens here, blocked by a snapshot *)
(* (slock).  Only the last leader rotates the log.                         *)
finish_commit(t) ==
  /\ pc[t] = "finish" \/ (pc[t] = "follower" /\ ~pending[t])
  /\ IF Tid(t) \in prepared /\ commit_error[t] = "NONE"
     THEN slock /\ ha_commit_low(Tid(t))
     ELSE UNCHANGED engine
  /\ dec_prep_xids(t)
  /\ IF pc[t] = "finish" /\ do_rotate[t] /\ commit_error[t] = "NONE"
     THEN Goto(t, "rotate") /\ UNCHANGED acked
     ELSE Goto(t, "idle") /\ acked' = acked \cup {Tid(t)}
  /\ UNCHANGED <<queues, locks, pending, commit_error, locals, sync_counter,
                 options, logfile, restart, trx>>

(***************************************************************************)
(* Rotation: MYSQL_BIN_LOG::rotate and new_file_impl.                      *)
(***************************************************************************)

(* A COMMIT that rotates (do_rotate) returns success when it is through. *)
Return(t) ==
  /\ Goto(t, "idle")
  /\ acked' = IF do_rotate[t] THEN acked \cup {Tid(t)} ELSE acked

RotateLock(t) ==
  /\ pc[t] = "rotate" /\ LOCK_log = NoOne
  /\ IF is_open /\ (do_rotate[t] => FileSize >= MaxSize)
     THEN LOCK_log' = t /\ Goto(t, "rot_wait") /\ UNCHANGED acked
     ELSE Return(t) /\ UNCHANGED LOCK_log
  /\ UNCHANGED <<queues, LOCK_sync, LOCK_commit, LOCK_consistent_snapshot,
                 flags, locals, sync_counter, options, logfile, engine,
                 restart, trx>>

(* The wait for m_prep_xids_cond, and the flush of the engine's redo log   *)
(* (InnoDB's never reports an error, on which the rotation would return).  *)
FaultNoWait == TRUE
no_prep_xids == m_prep_xids = 0

FaultNoFlush == UNCHANGED redo
ha_flush_logs == redo' = Len(commit_log)

(* Recovery reads the last file only: before a new one is started, every   *)
(* transaction of the old one must be committed in the engine, on disk.    *)
RotateClose(t) ==
  /\ pc[t] = "rot_wait"
  /\ no_prep_xids
  /\ ha_flush_logs
  /\ written' = Len(binlog)
  /\ synced' = Len(binlog)
  /\ in_use' = FALSE
  /\ Goto(t, "rot_reopen")
  /\ UNCHANGED <<queues, locks, flags, locals, sync_counter, options, binlog,
                 log_start, is_open, prepared, commit_log, restart, trx, acked>>

RotateReopen(t) ==
  /\ pc[t] = "rot_reopen"
  /\ log_start' = Len(binlog)
  /\ in_use' = TRUE
  /\ LOCK_log' = NoOne
  /\ Return(t)
  /\ UNCHANGED <<queues, LOCK_sync, LOCK_commit, LOCK_consistent_snapshot,
                 flags, locals, sync_counter, options, binlog, written, synced,
                 is_open, engine, restart, trx>>

(* The new file cannot be created: the COMMIT is answered with an error    *)
(* though its transaction is logged and committed.                         *)
RotateFails(t) ==
  /\ pc[t] = "rot_reopen" /\ IoErrors
  /\ IF ErrorAction = "ABORT_SERVER"
     THEN Die
     ELSE /\ is_open' = FALSE
          /\ LOCK_log' = NoOne
          /\ Goto(t, "idle")
          /\ UNCHANGED <<queues, LOCK_sync, LOCK_commit,
                         LOCK_consistent_snapshot, flags, locals, sync_counter,
                         options, binlog, log_start, written, synced, in_use,
                         engine, restart, trx, acked>>

(***************************************************************************)
(* START TRANSACTION WITH CONSISTENT SNAPSHOT: xlock, the snapshot of the  *)
(* engine and the log position, xunlock.                                   *)
(***************************************************************************)

xlock(t) ==
  /\ pc[t] = "snap_lock" /\ LOCK_log = NoOne
  /\ LOCK_log' = t
  /\ Goto(t, IF order_commits THEN "snap_commit" ELSE "snap_rw")
  /\ UNCHANGED <<queues, LOCK_sync, LOCK_commit, LOCK_consistent_snapshot,
                 flags, locals, sync_counter, options, logfile, engine,
                 restart, trx, acked>>

block_commit_stage(t) == LOCK_commit = NoOne /\ LOCK_commit' = t

xlock_commits(t) ==
  /\ \/ /\ pc[t] = "snap_commit"
        /\ block_commit_stage(t) /\ UNCHANGED LOCK_consistent_snapshot
     \/ /\ pc[t] = "snap_rw" /\ LOCK_consistent_snapshot = NoOne
        /\ LOCK_consistent_snapshot' = t /\ UNCHANGED LOCK_commit
  /\ Goto(t, "snapshot")
  /\ UNCHANGED <<queues, LOCK_log, LOCK_sync, flags, locals, sync_counter,
                 options, logfile, engine, restart, trx, acked>>

xunlock(t) ==
  /\ pc[t] = "snapshot"
  /\ LOCK_log' = NoOne
  /\ LOCK_commit' = Unlock(LOCK_commit, t)
  /\ LOCK_consistent_snapshot' = Unlock(LOCK_consistent_snapshot, t)
  /\ Goto(t, "idle")
  /\ UNCHANGED <<queues, LOCK_sync, flags, locals, sync_counter, options,
                 logfile, engine, restart, trx, acked>>

(***************************************************************************)
(* The administrator: SET GLOBAL of options that running commits read.     *)
(***************************************************************************)

SetSyncPeriod ==
  /\ Dynamic
  /\ \E p \in SyncPeriods \ {sync_period} : sync_period' = p
  /\ UNCHANGED <<pc, queues, locks, flags, locals, sync_counter, order_commits,
                 logfile, engine, restart, trx, acked>>

SetOrderCommits ==
  /\ Dynamic
  /\ \E b \in OrderModes \ {order_commits} : order_commits' = b
  /\ UNCHANGED <<pc, queues, locks, flags, locals, sync_counter, sync_period,
                 logfile, engine, restart, trx, acked>>

(***************************************************************************)
(* Crash, and the restart: open_binlog, recover and ha_recover.            *)
(***************************************************************************)

Crash ==
  /\ crashes < MaxCrashes
  /\ Die

FaultFirstXidMissed == Elems(SubSeq(binlog, log_start + 2, Len(binlog)))

(* MYSQL_BIN_LOG::recover: the XIDs found in the last log file. *)
RecoveredXids == Elems(SubSeq(binlog, log_start + 1, Len(binlog)))

(* If the last file is marked in use, what is prepared is committed when   *)
(* its XID is in that file and rolled back when not.  If it is not marked, *)
(* recover is not called, and ha_recover(0) refuses to start a server that *)
(* finds prepared transactions.  A started server opens a new log file.    *)
ha_recover ==
  /\ server = "down"
  /\ IF in_use \/ prepared = {}
     THEN /\ committed' = committed \cup (prepared \cap RecoveredXids)
          /\ prepared' = {}
          /\ log_start' = Len(binlog)
          /\ boot' = Len(binlog)
          /\ is_open' = TRUE
          /\ in_use' = TRUE
          /\ server' = "up"
     ELSE /\ server' = "refused"
          /\ UNCHANGED <<committed, prepared, log_start, boot, is_open, in_use>>
  /\ UNCHANGED <<pc, queues, locks, flags, locals, sync_counter, options,
                 binlog, written, synced, commit_log, redo, crashes, trx, acked>>

(***************************************************************************)
(* The specification.                                                      *)
(***************************************************************************)

Init ==
  /\ pc = [t \in Session |-> "idle"]
  /\ m_queue = [s \in Stage |-> <<>>]
  /\ final_queue = [t \in Session |-> <<>>]
  /\ todo = [t \in Session |-> <<>>]
  /\ LOCK_log = NoOne /\ LOCK_sync = NoOne
  /\ LOCK_commit = NoOne /\ LOCK_consistent_snapshot = NoOne
  /\ pending = [t \in Session |-> FALSE]
  /\ commit_error = [t \in Session |-> "NONE"]
  /\ xid_written = [t \in Session |-> FALSE]
  /\ flush_error = [t \in Session |-> 0]
  /\ do_rotate = [t \in Session |-> FALSE]
  /\ m_prep_xids = 0
  /\ sync_counter = 0
  /\ sync_period \in SyncPeriods
  /\ order_commits \in OrderModes
  /\ binlog = <<>>
  /\ log_start = 0 /\ written = 0 /\ synced = 0
  /\ is_open = TRUE /\ in_use = TRUE
  /\ prepared = {}
  /\ commit_log = <<>>
  /\ redo = 0
  /\ committed = {}
  /\ boot = 0
  /\ server = "up"
  /\ trx = [t \in Session |-> 0]
  /\ acked = {}
  /\ crashes = 0

Issued == {x \in Trx : x[2] \in 1..trx[x[1]]}

Begin(t) ==
  /\ Cardinality(Issued) < MaxStatements
  /\ prepare(t) \/ CommitUnlogged(t) \/ FlushLogs(t) \/ StartSnapshot(t)

OrderedCommit(t) ==
  \/ EnrollFlush(t) \/ LockLog(t) \/ FlushOne(t) \/ FetchRest(t) \/ FlushRest(t)
  \/ FlushToFile(t) \/ HandleFlushError(t)
  \/ EnrollSync(t) \/ LockSync(t) \/ sync_binlog_file(t)
  \/ EnterCommit(t) \/ LockCommit(t) \/ CommitOne(t)
  \/ HandleSyncError(t) \/ signal_done(t) \/ finish_commit(t)

Rotate(t) == RotateLock(t) \/ RotateClose(t) \/ RotateReopen(t) \/ RotateFails(t)

Snapshot(t) == xlock(t) \/ xlock_commits(t) \/ xunlock(t)

Step(t) == server = "up" /\ (OrderedCommit(t) \/ Rotate(t) \/ Snapshot(t))

Next ==
  \/ \E t \in Session : Step(t)
  \/ server = "up" /\ \E t \in Session : Begin(t)
  \/ server = "up" /\ (SetSyncPeriod \/ SetOrderCommits \/ Crash)
  \/ ha_recover

Spec == Init /\ [][Next]_vars

(* A session runs on unless it waits for a mutex, a condition or nothing:  *)
(* every thread is scheduled.  Statements are finitely many, so weak       *)
(* fairness is enough for a mutex that is free in the end.                 *)
Fairness == \A t \in Session : WF_vars(Step(t))

FairSpec == Spec /\ Fairness

(***************************************************************************)
(* Invariants.                                                             *)
(***************************************************************************)

Owner == Session \cup {NoOne}

PipelineTypeOK ==
  /\ pc \in [Session -> Label]
  /\ m_queue \in [Stage -> Seq(Session)]
  /\ final_queue \in [Session -> Seq(Session)]
  /\ todo \in [Session -> Seq(Session)]
  /\ LOCK_log \in Owner /\ LOCK_sync \in Owner
  /\ LOCK_commit \in Owner /\ LOCK_consistent_snapshot \in Owner
  /\ pending \in [Session -> BOOLEAN]
  /\ commit_error \in [Session -> {"NONE", "FLUSH", "SYNC"}]
  /\ xid_written \in [Session -> BOOLEAN]
  /\ flush_error \in [Session -> {0, 1}]
  /\ do_rotate \in [Session -> BOOLEAN]
  /\ sync_counter \in Nat
  /\ sync_period \in SyncPeriods
  /\ order_commits \in OrderModes

DataTypeOK ==
  /\ binlog \in Seq(Trx)
  /\ log_start \in Nat /\ written \in Nat /\ synced \in Nat
  /\ is_open \in BOOLEAN /\ in_use \in BOOLEAN
  /\ prepared \subseteq Trx
  /\ commit_log \in Seq(Trx)
  /\ redo \in Nat
  /\ committed \subseteq Trx
  /\ boot \in Nat
  /\ server \in {"up", "down", "refused"}
  /\ trx \in [Session -> 0..MaxTrx]
  /\ acked \subseteq Trx
  /\ crashes \in Nat

(* Every variable has its type.  That m_prep_xids is never negative says   *)
(* that no XID is counted down twice, by the leader of the COMMIT stage    *)
(* and again in finish_commit.                                             *)
TypeOK == PipelineTypeOK /\ DataTypeOK /\ m_prep_xids \in Nat

(* The COMMIT stage gives the engine the order of the log: what the engine *)
(* committed since the start is, in order and without a gap, what the log  *)
(* got since the start.                                                    *)
CommitOrder ==
  commit_log = SubSeq(binlog, boot + 1, boot + Len(commit_log))

(* Recovery reads the last file only, so rotation must leave nothing to    *)
(* recover behind: a transaction in an older file is committed in the      *)
(* engine, on disk.                                                        *)
OldFilesCommitted ==
  \A i \in 1..log_start :
    binlog[i] \in committed \cup Elems(Prefix(commit_log, redo))

(* A session is never forgotten and never handled twice: while it waits    *)
(* (pending) it is in exactly one stage queue or in exactly one leader's   *)
(* hands, and only a leader at work has anybody in its hands.              *)
Holds(t) == Elems(final_queue[t]) \cup Elems(todo[t])
Holding == {"flush", "flush_rest", "flushed", "enter_sync", "sync",
            "enter_commit", "commit", "sync_error", "signal"}
WaitingIsPlaced ==
  \A u \in Session : pending[u] <=>
    \/ \E s \in Stage : u \in Elems(m_queue[s])
    \/ \E t \in Session : u \in Holds(t)
NotInTwoQueues ==
  \A u \in Session : \A s1, s2 \in Stage :
    u \in Elems(m_queue[s1]) /\ u \in Elems(m_queue[s2]) => s1 = s2
NotQueuedAndHeld ==
  \A u, t \in Session : \A s \in Stage :
    ~(u \in Elems(m_queue[s]) /\ u \in Holds(t))
NotHeldTwice ==
  \A u, t1, t2 \in Session : u \in Holds(t1) /\ u \in Holds(t2) => t1 = t2
HoldersWork ==
  \A u, t \in Session : u \in Holds(t) => pc[t] \in Holding
OnePlace == /\ WaitingIsPlaced /\ NotInTwoQueues /\ NotQueuedAndHeld
            /\ NotHeldTwice /\ HoldersWork

(* A stage queue that is not empty has exactly one leader on its way, and  *)
(* an empty one has none.                                                  *)
Leads(s, t) == \/ s = "FLUSH"  /\ pc[t] \in {"lock_log", "flush"}
               \/ s = "SYNC"   /\ pc[t] = "lock_sync"
               \/ s = "COMMIT" /\ pc[t] = "lock_commit"
OneLeader ==
  \A s \in Stage :
    /\ m_queue[s] # <<>> <=> \E t \in Session : Leads(s, t)
    /\ \A t1, t2 \in Session : Leads(s, t1) /\ Leads(s, t2) => t1 = t2

(* With sync_binlog = 1, whoever finds LOCK_log free (a dump thread) finds *)
(* nothing in the log that is not on disk.                                 *)
SyncedBeforeVisible == LOCK_log = NoOne => synced = Len(binlog)

(* After recovery the engine has committed every transaction of the log:   *)
(* what a slave may have received is never rolled back.                    *)
LoggedIsRecovered ==
  server = "up" => Elems(Prefix(binlog, boot)) \subseteq committed

(* A COMMIT that returned success is not undone by a crash. *)
AckedIsCommitted ==
  server = "up" => acked \subseteq committed \cup Elems(commit_log)

(* While the log is open, what a session has committed in the engine is in *)
(* the log, for the slaves and for recovery.  The one exception is a       *)
(* session whose own cache could not be written, while another one of its  *)
(* group succeeded and the error was forgotten: it is marked.              *)
UnloggedIsMarked ==
  server = "up" /\ is_open =>
    \A t \in Session :
      Tid(t) \in Elems(commit_log) \ Elems(binlog) => commit_error[t] # "NONE"

(* No session waits in a stage with a stage mutex in its hands (enroll_for *)
(* releases it before it goes to sleep).                                   *)
NoSleepWithMutex ==
  \A t \in Session : pc[t] = "follower" =>
    t \notin {LOCK_log, LOCK_sync, LOCK_commit}

(* A server that is killed in the middle of a rotation, between the old    *)
(* log file and the new one, refuses to start if a transaction is prepared *)
(* (recover is not called).  Nothing is lost even then: all that is in the *)
(* log is committed on disk, so that what is prepared was never answered   *)
(* and may be rolled back by hand.                                         *)
RefusedLosesNothing ==
  server = "refused" => Elems(binlog) \subseteq committed

(***************************************************************************)
(* Action properties and liveness.                                         *)
(***************************************************************************)

InSnapshot == \E t \in Session : pc[t] = "snapshot"

(* xlock blocks every write to the log and every commit in the engine, as  *)
(* long as the log is open.                                                *)
SnapshotFreezes ==
  [][InSnapshot /\ is_open /\ server' = "up"
       => UNCHANGED <<binlog, commit_log>>]_vars

(* Nobody is left waiting: every statement returns.                        *)
StatementsReturn ==
  \A t \in Session : pc[t] # "idle" ~> pc[t] = "idle"

============================================================================
