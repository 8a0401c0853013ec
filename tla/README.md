# Percona Server: verification of its concurrent core

TLA+ models of the parts of Percona Server 5.6 (`src/`) in which threads,
crashes and I/O errors meet, TLC configurations that check them on small
instances, and TLAPS proofs of what holds for any instance.  The binary log as
transaction coordinator comes first: it decides whether a `COMMIT` that was
answered survives a crash, whether the slaves see what the master committed,
and whether anybody waits for ever.  Around it stand semi-synchronous
replication, which waits inside its hooks; the metadata locks and InnoDB's
rw-lock, which every statement takes; and the audit log, which every statement
writes to.

## Inventory of the system

| Component | State it keeps | Operations | Interacts with | What makes it correct | Here |
|---|---|---|---|---|---|
| Group commit: `sql/binlog.cc` (`ordered_commit`), `sql/binlog.h` (`Stage_manager`) | three stage queues, stage mutexes, per session `flags.pending`, `commit_error`, `flags.xid_written`; `m_prep_xids` | enroll, fetch, flush, sync, commit, signal, finish | engine (`ha_commit_low`), rotation, dump threads through `LOCK_log` | nobody lost or handled twice, one leader per queue, engine order = log order, everybody woken | `GroupCommit` |
| Two-phase commit and recovery: `sql/handler.cc`, `MYSQL_BIN_LOG::recover` | prepared and committed transactions, XIDs of the last log file, in-use flag | prepare, commit, crash, recover | engine's log, log files | log and engine agree after a crash; answered commits stay | `GroupCommit` |
| Rotation: `rotate`, `new_file_impl` | current file, index, `m_prep_xids` | wait, flush the engine, close, reopen | the pipeline (`LOCK_log`, XIDs) | older files need no recovery; no deadlock | `GroupCommit` |
| Consistent snapshot: `xlock`, `xunlock` | `LOCK_log`, `LOCK_commit` or `LOCK_consistent_snapshot` | lock, read position and engine, unlock | the pipeline | nothing moves under it; position and engine agree | `GroupCommit` |
| Audit log buffer: `plugin/audit_log/buffer.c` | ring buffer, `write_pos`, `flush_pos`, state | write (wait or drop), flush thread, pause/resume | log file, rotation | every record written once, whole, in order; nobody left waiting | `AuditBuffer` |
| Audit log file: `plugin/audit_log/file_logger.c` | open file, numbered older files, `path` | write, rotate by size, reopen | audit log buffer | the files keep the newest records, in order | `AuditFiles` |
| Semi-synchronous replication: `plugin/semisync/semisync_master.cc` | list of transactions waiting, reply position, on/off state | write, wait, acknowledge, time out, switch off and on | group commit hooks, dump threads | a waiter is answered or times out; what counts as replicated is | `SemiSyncMaster` |
| Metadata locks: `sql/mdl.cc` | granted and waiting tickets per lock | acquire, upgrade, release, deadlock search | every statement | compatibility, nobody forgotten, every deadlock broken | `MDL` |
| GTID state: `sql/rpl_gtid_state.cc` | owned and logged GTIDs | acquire, wait for owner, update on commit | group commit | one owner per GTID; logged once | not modelled |
| Multi-threaded slave: `sql/rpl_rli_pdb.cc` | job queues, assigned groups, checkpoint | assign, execute, checkpoint, recover gaps | relay log | order per database; low-water mark | not modelled |
| InnoDB rw-locks and mutexes: `storage/innobase/sync` | lock word, waiter flag, event | lock, unlock, wait, signal | everything in InnoDB | exclusion, no lost wake-up | `RWLock` |
| InnoDB record locks, read views: `lock0lock.cc`, `read0read.cc` | lock queues, active transactions | request, release, deadlock search, open view | transactions | compatibility, stable views | not modelled |
| Thread pool: `sql/threadpool_unix.cc` | per group queue, listener, counts | enqueue, listen, wait, timer | connections | no stalled queue | not modelled |
| Buffer pool, B-tree, parser, optimizer, executor, table cache, `TC_LOG_MMAP` | | | | | not modelled |

The hard behaviours of the parts modelled so far, each listed at its line under
`hazards` in `PROJECT.json`: sessions that join a stage while its leader takes
the queue; groups that overtake each other between two stages; options
(`sync_binlog`, `binlog_order_commits`) that change under running commits; one
session of a group failing and the others not; a rotation that waits for the
pipeline while the pipeline waits for it; crashes between any two steps,
in particular between the steps of a rotation; the counter of prepared XIDs
that two different threads count down; a ring buffer at its boundary, flushed
without the mutex, whose waiters depend on one thread; a rename that fails, or
a server that is killed, in the middle of a chain of renames; replies of slaves
that race with timeouts, lost connections and switches of the option; waiters
that announce themselves without a mutex while the lock is freed; a deadlock
search that reads a graph which changes under it.

## How the binary log commits

`ha_commit_trans` prepares the transaction in the engine and calls
`MYSQL_BIN_LOG::commit`, which calls `ordered_commit`.  There:

1. *FLUSH.*  The session joins the FLUSH queue.  Who finds it empty is the
   leader: it takes `LOCK_log`, pops sessions and writes their caches to the
   log until the queue is empty or `binlog_max_flush_queue_time` is over, and
   then takes the rest at once.  Every XID written counts in `m_prep_xids`.
2. *SYNC.*  The group as a whole joins the SYNC queue; the leader of that
   queue takes `LOCK_sync` and syncs the file every `sync_binlog` groups.  With
   `sync_binlog = 1` the leader keeps `LOCK_log` until the file is on disk.
3. *COMMIT.*  With `binlog_order_commits` the groups join the COMMIT queue and
   its leader commits all of them in the engine under `LOCK_commit`.  Without,
   every session commits itself in `finish_commit`.
4. The last leader clears `pending` of everyone in its hands.  Leader and
   followers go through `finish_commit`; a leader whose file is full rotates.

A rotation takes `LOCK_log`, waits until `m_prep_xids` is 0, flushes the
engine's log, closes the file and opens a new one: recovery reads the last
file only.  `START TRANSACTION WITH CONSISTENT SNAPSHOT` takes `LOCK_log` and
`LOCK_commit` (or `LOCK_consistent_snapshot`).  Errors of the log close it for
good (`IGNORE_ERROR`) or stop the server (`ABORT_SERVER`).

## How the audit log writes

`audit_log_buffer_write` copies a record into a ring buffer under a mutex; if
there is no room the session waits or drops the record (`audit_log_strategy`).
One worker takes what is there and writes it to the file without the mutex.
`write_pos` runs up to `flush_pos + size`, so that an empty and a full buffer
differ; when the contents wrap, the worker writes up to the end of the buffer
first, and until it has written the other part the state is
`LOG_RECORD_INCOMPLETE`.  A record larger than the buffer, and a reopening of
the file (`SET GLOBAL audit_log_flush = ON`), go past the buffer: they wait for
the state to be complete (`pause`), keep the mutex, and release it (`resume`).

## How semi-synchronous replication waits

The leader of a group reports the end of the group (`writeTranxInBinlog`, a
node in the list of active transactions).  After its engine commit every
transaction looks for the first node not before its own end and sleeps on it
(`commitTrx`) until a slave has acknowledged that position
(`reportReplyBinlog`, called by the dump thread that read the reply).  A wait
that times out switches semi-sync off and wakes everybody; a slave that has
caught up switches it on.  `LOCK_binlog_` is held by every method.

## How metadata locks are granted

A request that is compatible with the granted tickets and with the waiting ones
of higher priority is granted at once.  Otherwise its ticket is queued, the
context publishes what it waits for, searches the wait-for graph for a loop
and sleeps on its wait slot, which accepts one message.  Whoever releases,
downgrades or gives up a ticket goes through the queue and grants
(`reschedule_waiters`); after `max_write_lock_count` strong locks the weak ones
get a turn.  The search takes the locks' read-write locks for reading along its
path only, so the graph changes beside it.

## How InnoDB's rw-lock wakes its waiters

`lock_word` holds the readers, the writer and its recursion in one number, and
is changed by compare-and-swap.  A thread that cannot have the lock reserves a
cell in the wait array (resetting the event), announces itself (`waiters`, or a
counter of its priority), tries again, and sleeps.  A thread that frees the
lock looks for announcements, takes the flag back and sets the event.  Percona's
high priority waiters have events of their own, and all others stand back for
them.

## Modules

| Module | Contents |
|---|---|
| `GroupCommit` | the state machine, its properties, and wrong variants (`Fault...`) of some definitions, used to see that the properties notice them |
| `MCGroupCommit` | `GroupCommit` with the symmetry of sessions, for TLC |
| `GroupCommitProofs` | the inductive invariant of the pipeline, the lemmas and the theorems |
| `GroupCommitDurability` | proofs about what log and engine hold between them, with errors and crashes, and about the order of the engine's commits and snapshots |
| `AtomicCommit` | abstract specification of the coordinator: a transaction is decided, visible, answered; a crash decides about those on their way |
| `GroupCommitRefinement` | the mapping under which `GroupCommit` implements `AtomicCommit`; extended by `MCGroupCommit` |
| `GroupCommitRefinementProofs` | the proof that it does, with `sync_binlog = 1` and without I/O errors |
| `SemiSyncMaster`, `MCSemiSyncMaster`, `SemiSyncProofs` | the list of waiting transactions, the hooks, the dump threads and slaves; the module TLC runs; the proofs |
| `AuditBuffer`, `MCAuditBuffer`, `AuditBufferProofs` | the audit log's ring buffer, its worker and the sessions; the module TLC runs; the proofs |
| `AuditFiles`, `MCAuditFiles`, `AuditFilesProofs` | the audit log's files, system call by system call, and its restart; the options TLC runs; the proofs |
| `MDL`, `MCMDL`, `MDLProofs` | the tickets, wait slots and deadlock search; the tables and lock types TLC runs; the proofs |
| `RWLock`, `MCRWLock`, `RWLockProofs` | the rw-lock, its events and its waiters; the threads TLC runs; the proofs |

### State and code

`pc[t]` is where session `t` is between two steps.  `m_queue` is
`Stage_manager::m_queue` (the linked list of THDs as a sequence),
`final_queue[t]` and `todo[t]` are what the leader's local queue variables
point to: the whole group, and the part a loop has not reached.  `pending`,
`commit_error` and `xid_written` are fields of THD.  `flush_error` and
`do_rotate` are locals of `ordered_commit`.  The log is one sequence of
transactions over all files: `log_start` is where the last file starts,
`written` what has left the `IO_CACHE`, `synced` what is on disk, `in_use` the
flag that a clean close removes.  The engine is a set of prepared transactions
and a sequence of commits, the first `redo` of them on disk; `committed` and
`boot` keep what was found at the last start.  `acked` collects the commits
that returned success.

### Actions and code

Each action is the code between two points at which another thread can
interfere: taking a mutex, joining a queue, handling one session of a queue.

| Action | Code |
|---|---|
| `prepare`, `CommitUnlogged`, `FlushLogs`, `StartSnapshot` | a statement starts: `ha_prepare_low`; `MYSQL_BIN_LOG::commit` with empty caches; `rotate_and_purge`; `ha_start_consistent_snapshot` |
| `EnrollFlush`, `LockLog` | `ordered_commit` up to the FLUSH stage, `change_stage` |
| `FlushOne`, `FetchRest`, `FlushRest` | the two loops of `process_flush_stage_queue` |
| `FlushToFile`, `HandleFlushError` | `flush_cache_to_file`; `handle_binlog_flush_or_sync_error` with `LOCK_log` held |
| `EnrollSync`, `LockSync`, `sync_binlog_file` | the SYNC stage |
| `EnterCommit`, `LockCommit`, `CommitOne` | the COMMIT stage, `process_commit_stage_queue` |
| `HandleSyncError` | the error handler that takes `LOCK_log` itself |
| `signal_done`, `finish_commit` | the same functions |
| `RotateLock`, `RotateClose`, `RotateReopen`, `RotateFails` | `rotate`, `new_file_impl` |
| `xlock`, `xlock_commits`, `xunlock` | `MYSQL_BIN_LOG::xlock`, `xunlock` |
| `SetSyncPeriod`, `SetOrderCommits` | `SET GLOBAL` of the two options |
| `Crash`, `ha_recover` | the process dies; `open_binlog`, `recover`, `ha_recover` |

A crash keeps any prefix of the log from `synced` on and any prefix of the
engine's commit records from `redo` on; a prepared transaction is durable.  An
abort under `ABORT_SERVER` is a crash at that point.

In `AuditBuffer` a byte knows its record, its place in it and the record's
length, and `file` is everything written to the log.  `Write`, `BufferWrite`,
`Reopen`, `audit_log_buffer_pause` and `audit_log_buffer_resume` are the
sessions' side; `FlushBegin`, `FlushWrite` (without the mutex) and `FlushEnd`
are the three parts of `audit_log_flush`; `WorkerExit` ends the worker's loop
after `audit_log_buffer_shutdown`.  A session on `flushed_cond` is in `full` or
`pausing` and moves only when the worker broadcasts, so that a lost wake-up
would show.

In `AuditFiles` a directory maps names to files (`dir[0]` is the log) and
`file` is the open descriptor, which stays with its file when the name moves.
`logger_write`, `RenameOlder` (one turn of `do_rotate`'s loop), `RenameLog`,
`OpenLog` and `logger_sync` are the steps of a write; `logger_reopen`,
`set_option` and the close of the plugin are the administrator's; `Kill` stops
the server between any two of them.  A rename, an open or a close may fail
(`CloseFails`, `OpenFails`); a log without an open file stays so until the next
start.  A record in two writes is `n` and `-n`.

In `SemiSyncMaster` a position is the number of transactions up to it.  Every
method of `ReplSemiSyncMaster` is one step because it holds `LOCK_binlog_`;
`commitTrx` is cut where it sleeps (`commitTrx`, `Wake`, `Timeout`).
`SendEvent`, `QueueEvent`, `readSlaveReply`, `Connect` and `Disconnect` are the
dump thread and its slave (`readSlaveReply` also stands for `skipSlaveReply`),
`Shutdown` the server's end.  The group commit
pipeline appears as `writeTranxInBinlog` (a group of up to `MaxGroup` is in the
log) and `EnterHooks` (who runs the after_commit hooks of which transactions:
the leader for all, or each session for itself, as `binlog_order_commits` says).

In `RWLock` a step is one atomic operation or one access to shared state.
`Check`, `Try`, `Relock`, `Reserve`, `Announce`, `CheckAgain`, `TryAgain`,
`Sleep` and `Withdraw` are the parts of `rw_lock_s_lock_spin` and
`rw_lock_x_lock_func`; `FlagWaitEx`, `x_lock_wait` and `XLocked` the next
writer that waits for the readers to leave; `s_unlock`, `x_prepare_unlock`,
`x_unlock`, `FindWaiters`, `ResetFlag` and `SetEvent` the way out; `Monitor` is
`sync_arr_wake_threads_if_sema_free`.  `signalled` compares `signal_count` as
`os_event_wait_low` does.

In `MDL` a step holds one lock's `m_rwlock` for writing or visits one node of a
search.  `Acquire`, `upgrade_shared_lock`, `Merge`, `release_lock` and
`downgrade_lock` are the requests of a statement, `will_wait_for`,
`find_deadlock`, `SetVictim`, `timed_wait`, `done_waiting_for` and
`RemoveWaiting` the parts of a wait.  `path` is the stack of a search with the
edges left to follow, and what it holds for reading keeps writers out.
`reschedule_waiters` says which positions of the queue are granted in one pass
from its head: a ticket is granted if and only if it can be, given what the
ones before it have left.  `without` is the queue that remains.  A lock that
becomes empty goes to the cache, and the object that serves its key next has any
count of strong locks (`remove_ticket`).

The refinement: `AtomicCommit`'s `log` is the binary log, `answered` the
commits that returned success, and `visible` what the engine committed; while
the server is down, it is what recovery is going to commit.

### What is abstracted or left out

- A transaction is a session and a number; its cache is one entry of the log,
  and a cache that cannot be written leaves nothing in it.
- Every transaction has an XID: one two-phase engine besides the log.  Engine
  commits never fail.  Transactions that are rolled back but logged
  (`skip_commit`), XA, and the statement cache are not modelled.
- The file's own I/O in `close` succeeds, and so does `ha_flush_logs` in a
  rotation (`innobase_flush_logs` never reports an error).
- A session whose transaction is left prepared by an error starts no other one.
- The GTID calls, the backup locks, the purge of old
  files, the crash safety of the index file and debug-only preemption of a
  leader are not modelled.
- Audit log: a write to the file succeeds and is one append, also while two
  threads are in the logger (see below).  `written_cond` only shortens a
  wait that ends every second by itself.  The plugin is uninstalled when no
  session is inside it.

## Runs

Deadlock is not checked as such: the systems stop when the bounded number of
statements or requests is used up.  `StatementsReturn`, `CommitsReturn`,
`WritesReturn`, `NobodyForgotten`, `NothingGrantableWaits` and
`DeadlocksBroken` do that work.

| Run | Instance | Checks | States |
|---|---|---|---|
| `pipeline` | 4 sessions, 1 statement each, `sync_binlog` switching between 0 and 2, rotation at 2 transactions | `TypeOK`, `CommitOrder`, `OnePlace`, `OneLeader`, `OldFilesCommitted` | 303 k |
| `durability` | 3 sessions, `sync_binlog = 1`, `binlog_order_commits` either way but fixed (`Dynamic = FALSE`), at most 2 statements per session and 5 in all, rotation at 2 transactions, 1 crash | `SyncedBeforeVisible`, `AckedIsCommitted`, `RefusedLosesNothing`, `SnapshotFreezes`, `ImplementsAtomicCommit` | 1.3 M |
| `ignore_error` | 3 sessions, 1 statement, I/O errors, `IGNORE_ERROR`, rotation at 2 transactions, fairness | `AckedIsCommitted`, `StatementsReturn` | 303 k |
| `abort_server` | 3 sessions, 1 statement, I/O errors, `ABORT_SERVER`, the order option switching, rotation at every transaction, fairness | `LoggedIsRecovered`, `UnloggedIsMarked`, `StatementsReturn` | 179 k |
| `semisync` | 2 sessions, 1 slave that loses its connection up to twice, 2 transactions in groups of 1 or 2, `binlog_order_commits` either way, semi-sync enabled or disabled once, a shutdown, fairness | `TypeOK`, `YesMeansReceived`, `WaitersListed`, `NodeOrAcknowledged`, `NobodySleepsWhenOff`, `CommitsReturn`, `SwitchesOnAgain` | 176 k |
| `audit_buffer` | 2 sessions, 2 records each of 1 to 4 bytes, a buffer of 3, blocking or dropping, 1 reopening, fairness | `TypeOK`, `NothingLost`, `NothingTorn`, `FlushedRegionStable`, `WritesReturn`, `ShutdownDrains` | 429 k |
| `audit_files` | 2 sessions, 4 records, `ASYNCHRONOUS` or `SYNCHRONOUS`, 0 or 3 old files, a limit of 1 write, renames, opens and closes that fail, 1 reopening, 1 option set, 1 kill or restart | `NewestKept`, `SyncedUnlessRotated` | 9.0 M |
| `mdl` | 3 contexts with 2 requests each, two tables (SR, SW, SNW; SNW), upgrade and downgrade, `max_write_lock_count = 1`, 1 wait that ends by itself | `TypeOK`, `CompatibleLocks`, `SlotTellsTheTruth`, `NothingGrantableWaits`, `DeadlocksBroken` | 2.1 M |
| `rwlock` | 2 threads of low and 1 of high priority, 4 requests, x-locks up to depth 3, 1 wake-up by the error monitor | `TypeOK`, `Exclusive`, `LockWordCounts`, `WriterKnown`, `NobodyForgotten` | 1.4 M |

Why the bounds are enough for the cases meant:

- *Pipeline.*  A stage has a leader, a follower inside its group and a group
  behind it as soon as there are three sessions; the fourth gives a group that
  waits in the next stage meanwhile, or a rotation or snapshot beside all of
  them.  Two statements per session let a session come back with a second
  transaction after the first was rotated away, and after a crash.
  `sync_binlog = 2` is the smallest period that skips a sync, 0 the one that
  never syncs.  One crash shows what recovery does from every state; an abort
  is a crash too, and happens wherever an error does.  `MaxStatements` bounds
  the statements of all sessions together: five in `durability`, so that two
  sessions come back.
- *Refinement.*  `ImplementsAtomicCommit` says more than invariants about the
  state after a crash would: that the engine commits nothing that a crash can
  take from the log, and that log and engine agree after recovery, are what
  its steps `Crash` and `Commit` allow.
- *Semi-sync.*  Two transactions are a group with a transaction that has no
  node of its own, or two groups, one of which is acknowledged.  Two lost
  connections let a slave return behind what it has, and again after the
  switch off.
- *Audit log.*  The lengths go from one byte to one more than the buffer, and
  four records go round a buffer of three more than once, ending before, at and
  after its end.  Four records fill the log, the three old files and push one
  out; the kill, or a call that fails, may come in each of the renames.  Other
  limits come in when an option is set, which writes to the limit.
- *MDL.*  Three contexts with two requests can form loops of any length there
  is, and two loops through one context.  With a limit of one the second strong
  lock already stands back.
- *Rw-lock.*  A holder, a waiter and a third thread that comes between the
  holder's look for waiters and its event, of either priority; the
  fourth request lets one of them come back or lock again.

*Fairness.*  `WF_vars(Step(t))` for every session: a thread that can run is
scheduled, a mutex that stays free is taken, a condition that stays true is
seen.  No fairness is assumed of new statements, of option changes or of
crashes, and no strong fairness of a mutex: the statements are finitely many,
so a mutex that is contended is in the end free for good.  In `AuditBuffer`
the same holds for the sessions, and for the worker because its wait has a
time-out of one second.  In `SemiSyncMaster` the sessions' hooks and each dump
thread with its slave are weakly fair, a shutdown that has begun goes on and
disconnects the slaves; timeouts happen at any time but are not fair, so
`CommitsReturn` holds without their help.

### Disagreements with the code's own words

Three runs expect a violation; the quoted lines are under `findings`.

| Run | What TLC shows |
|---|---|
| `v_sleep_with_mutex` | `sync_binlog` goes from 0 to 1 while a group waits in the SYNC queue: the next leader joins it as a follower and sleeps with `LOCK_log`, which nobody releases |
| `v_audit_reopen` | `do_rotate` leaves the name of the first old file in `log->path`; the next `SET GLOBAL audit_log_flush = ON` opens that file instead of the log |
| `v_mdl_hog` | the limit on strong locks reached, an upgrade to X stands back for a waiting SU that its own SNW blocks: both wait, and there is no loop to find |

What else the models reach, and the properties say in their comments:

- A session whose cache could not be written is committed in the engine without
  a log entry when a later one of its group succeeded (`binlog.cc:6908`: the
  success replaces the error), with `ABORT_SERVER` too.  The comments say that
  after an error the threads are "marked accordingly (but not committed)" (6945)
  and that the server "will be aborted" (7271).  `UnloggedIsMarked` says that
  this is the only way: the session's own write has failed, and its
  `commit_error` says so.
- A group between FLUSH and COMMIT holds none of the locks of `xlock`, so the
  position of a consistent snapshot can be ahead of the engine
  (`binlog.cc:7792`, `handler.cc:2379`).
- With `binlog_order_commits = 0` and `IGNORE_ERROR` a `COMMIT` can return
  success and stay prepared (`binlog.cc:7213`), and the sync-error handler
  (7561) can wait for `LOCK_log` while its holder, a rotation, waits for the
  XIDs of that group.  `ignore_error` therefore has ordered commits.
- A crash between the two halves of a rotation leaves a last file that is not
  marked in use beside prepared transactions, and the server refuses to start
  (`binlog.cc:5212`).  `RefusedLosesNothing` says that nothing is lost by it.
- `xlock` takes the lock of the order mode it finds; a commit after
  `SET GLOBAL binlog_order_commits` uses the other one.  `SnapshotFreezes` is
  checked with the option fixed.
- Records that end exactly at the end of the audit buffer leave it empty and
  `INCOMPLETE` (`buffer.c:73`).  A pause then waits until another record is
  flushed, whether it is for a record larger than the buffer or for `SET GLOBAL
  audit_log_flush`; if every session has a large record, they hang.
  `WritesReturn` speaks of every wait in the buffer's code and names this one as
  the only one that may not end.
- The pause "flushing thread" (`buffer.c:187`) does not stop a worker that has
  left the mutex to write complete records: a large record, or a reopening,
  meets it in the logger, which has no mutex of its own then
  (`audit_file.c:84`).
- An audit log that cannot be opened again after a rotation stays closed until
  the next start (`file_logger.c:246`): `logger_reopen` gives up when it cannot
  close the file that is not open (182), and the records of that time are lost.
- With `SYNCHRONOUS` the record that makes the log reach its limit is moved
  away before it is synced, and never is (`audit_file.c:146`).  The two
  rotation options are written to each other's field (`audit_file.c:207`).  A
  server killed between two renames leaves a hole in the numbers, over which
  later rotations pass.
- Semi-sync: a session whose position was acknowledged before it slept is woken
  by the next reply only.  A transaction written before
  `rpl_semi_sync_master_enabled = ON` whose hook comes after it finds no node
  (`assert(entry)`, `semisync_master.cc:792`); `NodeOrAcknowledged` excepts it.
  With the option switched off and on, such a transaction waits for its
  timeout, which is why `semisync` switches it once.
- MDL: the short wait of `acquire_lock` returns without closing the wait slot
  when the client has gone (`mdl.cc:2385`; the comment there says that it is
  "the same as a wait timeout, this ensures all error handling is correct", and
  the one at 1453 that who leaves the slot open "intends to restart the wait").
  The lock can then still be granted, and the ticket is taken out of the wrong
  list: `corrupted`, where the model stops.  `SlotTellsTheTruth` says that the
  slot is right also then; the context just does not look again.
- MDL: the limit on strong locks can leave a strong lock that could be granted
  waiting for the next release; `NothingGrantableWaits` says when.
- `sync_array_reserve_cell` returns without leaving the array's mutex when the
  array is full (`sync0arr.cc:383`); the model's array is never full.

## Proofs

What follows holds for every finite set of sessions, threads, contexts and
slaves, any tables, every buffer size, record length and number of old files,
and all bounds.  The only assumptions are the
`ASSUME`s of the modules and, where the table says so, a setting of the server.

| Module | Theorem | Statement |
|---|---|---|
| `GroupCommitProofs` | `Invariance` | `Spec => []IndInv` |
| | `TypeCorrect` | `Spec => []TypeOK`, in particular `m_prep_xids` is never negative |
| | `SessionsInOnePlace` | `Spec => []OnePlace` |
| | `StagesHaveOneLeader` | `Spec => []OneLeader` |
| `GroupCommitDurability` | `Durability` | `Spec => [](IndInv /\ DurInv)` |
| | `OldFilesAreCommitted` | `Spec => []OldFilesCommitted` |
| | `LoggedRecovered` | `Spec => []LoggedIsRecovered` |
| | `RefusedIsSafe` | `Spec => []RefusedLosesNothing`, assuming `KeepsLog` |
| | `ModeInvariant` | `Spec => [](IndInv /\ DurInv /\ ModeInv)`, assuming `OrderFixed` |
| | `SnapshotsFreeze` | `Spec => SnapshotFreezes`, an action property, assuming `OrderFixed` |
| | `LineInvariant` | `Spec => [](IndInv /\ DurInv /\ ModeInv /\ LineInv)`, assuming `Ordered` |
| | `EngineFollowsLog` | `Spec => []CommitOrder`, assuming `Ordered` |
| | `AnsweredDespiteErrors` | `Spec => [](crashes = 0 => AckedIsCommitted)`, assuming `OrderModes = {TRUE}` |
| `GroupCommitRefinementProofs` | `SyncedInvariant` | `Spec => [](Kept /\ SyncInv)`, assuming `AlwaysSynced` |
| | `SyncedIsVisible` | `Spec => []SyncedBeforeVisible`, assuming `AlwaysSynced` |
| | `AckedStaysCommitted` | `Spec => []AckedIsCommitted`, assuming `AlwaysSynced` |
| | `Refinement` | `Spec => ImplementsAtomicCommit`, assuming `AlwaysSynced` |
| `RWLockProofs` | `RWLockInvariant` | `Spec => []IndInv` |
| | `RWLockTypeOK`, `RWLockExclusive`, `RWLockWord`, `RWLockWriterKnown`, `RWLockNobodyForgotten` | the five invariants of the run `rwlock` |
| `SemiSyncProofs` | `SemiSyncInvariant` | `Spec => []IndInv` |
| | `SemiSyncTypeOK`, `SemiSyncYesMeansReceived`, `SemiSyncWaitersListed`, `SemiSyncNodeOrAcknowledged`, `SemiSyncNobodySleepsWhenOff` | the five invariants of the run `semisync` |
| `AuditBufferProofs` | `BufferInvariant` | `Spec => []IndInv` |
| | `BufferTypeOK`, `BufferNothingTorn`, `BufferNothingLost` | the three invariants of the run `audit_buffer` |
| | `BufferRegionStable` | `Spec => FlushedRegionStable`, an action property |
| `AuditFilesProofs` | `FilesInvariant` | `Spec => []Inv` |
| | `FilesTypeOK` | `Spec => []TypeOK`, which no run checks |
| | `FilesKeepTheNewest`, `FilesSynced` | the two invariants of the run `audit_files` |
| `MDLProofs` | `MDLInvariant` | `Spec => []Inv` |
| | `TypesHold`, `LocksCompatible`, `SlotsTellTheTruth`, `NobodyForgotten` | four of the invariants of the run `mdl` |
| | `LoopsAreSearched` | `Spec => [](Inv /\ DeadlockInv)` |
| | `DeadlocksAreBroken` | `Spec => []DeadlocksBroken`, the fifth |

### The pipeline (`GroupCommitProofs`)

*The inductive invariant.*  `TypeOK` is not inductive because of
`m_prep_xids`: to see that a decrement does not go below zero one has to know
what it counts.  `XidCount` says it: the sessions with `xid_written` set.  A
flush counts up by one and sets one flag, so it has to find the flag clear:
`FlushOnce`, a session that waits for its flush has no XID written.  That in
turn needs a session to be in the FLUSH queue once (`FlushDistinct`) and
nowhere else (`OnePlace`).  `OnePlace` needs a group that joins a queue to be
disjoint from it, which is `OnePlace` itself, and a follower to be woken only
when it is in nobody's hands; `OneLeader` needs a leader to be a member of its
own group (`OwnGroup`), or a group could go on without one.  `LoopState` ties
the loops to what they have left and `PendingCommits` says that who waits is
inside `ordered_commit`.

*Layout.*  Lemmas about sequences as queues; four lemmas on the moves of a
group (stays, joins a queue, is taken by a leader, leaves), which every action
is one of; one lemma per action; `PipeStep`, `XidStep`, `TypeStep` put them
together for `Next`, and PTL turns that into the theorems.

### Log and engine (`GroupCommitDurability`)

`OldFilesCommitted` lets recovery read the last file only, and a rotation makes
it true by waiting for `m_prep_xids = 0`.  Why is that enough?  Because of
`OnItsWay`: a transaction of the current file is committed in the engine, or
its session still has its XID counted.  By `XidCount` no session is counted
when the counter is zero, so the whole file is committed, and `RotationWaits`
carries this, with the engine's log flushed, to the step that opens the next
file.  `OnItsWay` is kept by the commit of a session because the XID is given
back after the engine's commit.  The exception is a session with an error,
which `finish_commit` does not commit: `Doubtful` says that, while the log is
open, it can only be a leader whose sync failed, which the COMMIT stage commits
all the same or which closes the log first.  The rest of `DurInv` supports
these: who writes holds `LOCK_log` (`LogHeld`), the order of the positions
(`FileOrder`), a session on its way to be flushed is prepared
(`PreparedOnWay`), what is logged is committed or can be (`Accounted`), what a
crash leaves (`DownReset`), what the last recovery did (`BootCommitted`).

`KeepsLog` is `ErrorAction = "ABORT_SERVER" \/ ~IoErrors`.  `RefusedLosesNothing`
needs it: with `IGNORE_ERROR` an error closes the log and the server goes on
without it, so that a crash leaves a log that is not in use for another reason
than a rotation.

*Layout.*  A step is shown to be of one of a few kinds (nothing for the log, the
engine gets ahead, a session is committed, a cache is flushed, the file is
written), and each kind to keep `DurInv`.

### The order of commits (`GroupCommitDurability`)

`OrderFixed` says that `binlog_order_commits` keeps its value.  `SnapshotFreezes`
needs it, because `xlock` takes the lock of the mode it finds (see above).  Errors
and crashes are allowed.  Without ordered commits the engine commits in
`finish_commit`, which the snapshot's `LOCK_consistent_snapshot` stops.  With
ordered commits that lock is not taken, and `finish_commit` must have nothing to
commit: `Settled` says that whoever is prepared has still to pass the COMMIT
stage, whose mutex the snapshot holds, or waits for a server that is about to
abort.  `CommitHeld` relates the two locks to the mode, `OldPrepared` keeps a
prepared transaction from being taken for one of a later statement.

`Ordered` is ordered commits without I/O errors.  It is necessary for
`CommitOrder`: without the order the sessions commit in any order, and a session
whose cache could not be written is committed by the COMMIT stage without being
in the log.  The invariant is `Line`: what the COMMIT leader has left, the COMMIT
queue, the group being synced, the SYNC queue and the group being flushed, one
behind the other.  `LineLogged` says that the log since the start is the commit
log followed by the line, `LinePrepared` that nobody stands in it twice and that
everybody in it is prepared, so that the COMMIT leader skips nobody.  A flush
appends to log and line (`FlushJoins`), a commit moves the head of the line to
the commit log (`CommitLeaves`), and every other step (an enrolment, a queue that
is fetched) moves a group from one part of the line to the next and leaves the
line as it is (`LineKept`).  For the last one two leaders must never be in the
same part: the locks of the stages see to it (`Led`).

`AnsweredDespiteErrors` is about a server that has not died, whatever failed
before and with the log open or closed.  `Answers` says that the transaction of
a `COMMIT` under way is prepared or committed, and committed once it is answered
or rotates.  The point is `finish_commit`, which does not commit a session with
an error and still answers: by `Settled` the COMMIT stage has done it before.
Without ordered commits there is no such stage and the statement is false, and
after a crash it needs the log on disk (`AckedStaysCommitted`).

### The refinement (`GroupCommitRefinementProofs`)

`AlwaysSynced` is `~IoErrors /\ SyncPeriods = {1}`, the setting of the run
`durability`.  It is necessary: with another `sync_binlog` a crash loses log
entries of answered commits, and after an error a session can be committed
without a log entry (see above).

`SyncInv` says where a transaction is on disk.  The leader keeps `LOCK_log`
until its group is synced (`SyncLock`), so that whoever finds `LOCK_log` free
finds nothing unsynced (`IdleSynced`) and `SyncedBeforeVisible` follows.  A
counted XID is in the current file, on disk unless its group is still on its way
to the sync (`XidLogged`); so an engine commit is of a transaction on disk
(`DoneLogged`), and a commit record that a crash may lose is one that recovery
makes up for (`CommitsLogged`).  A rotation that would move such a transaction
out of the last file has flushed the engine before (`RotFlushed`).  No
transaction is logged twice (`Fresh`).  Together: what was answered is committed,
or will be after recovery (`AckedKept`).

Under the mapping the flush of a cache is `Decide`, the engine's commit is
`Commit` or, for a session that answers in the same step, also `Answer`, a
`COMMIT` that rotates answers when the rotation is over, the end of the server
is `Crash`, and `ha_recover` is a stuttering step: recovery changes nothing that
anybody could see, which is what it is for.

### The rw-lock (`RWLockProofs`)

`LockInv` is the lock proper: where a thread is and what it has (`Local`), one
writer (`OneWriter`), what `lock_word` counts (`Word`, with the cardinality of
the set of readers), and the two fields that name the writer (`Owner`), whose
order of assignment is the point.  `Exclusive`, `LockWordCounts` and
`WriterKnown` follow from it.

`WakeInv` is about lost wake-ups.  `NobodyForgotten` speaks of a state in which
everybody sleeps; its strengthening `Woken` speaks of every state: a thread that
has tried in vain since it announced itself finds somebody who has the lock, is
about to set its event, or is a thread of higher priority that will try and then
unlock in its turn.  It needs the counters to be the cardinalities of the
waiters (`Counters`), the cells to remember an event that was set (`Cells`),
and the waiter flag to be set, or its last reset to be followed by the event
(`FlagKept`, `FlagWaits`); `NextWriterWoken` does the same for the writer that
waits for the readers to leave.

### Semi-sync (`SemiSyncProofs`)

Four of the invariants are inductive with their neighbours; the heart is
`Covered`: while semi-sync is on, a transaction written since it was enabled has
a node at or after its position, or has been acknowledged, even when it was
written while semi-sync had been switched off by a timeout.  With `CommitPos` (where
the log ends, as the hooks saw it) this gives `NodeOrAcknowledged`.  A call of
`commitTrx` is shown to be one of three outcomes (returns, gives up, sleeps),
each keeping the invariant.

### The audit log's buffer (`AuditBufferProofs`)

`Control` bounds the positions (below twice the size, so that `% Size` subtracts
it at most once) and says what the worker may be writing and when a session
may go past the buffer.  `Stream` says that the file, and the cells from the
first one not in the file to `write_pos`, are whole records one after the other,
with at most one record across the border, and only while the state is
`INCOMPLETE`.  `NothingTorn` follows; `NothingLost` (file and buffer together
are what was accepted) is inductive with it, and `FlushedRegionStable`
follows from the positions alone.

### The audit log's files (`AuditFilesProofs`)

What can be read is a set of places: part `k` of the file with name `n`.
`Behind(p)` is what is read after `p`, and `NothingMissing` says that as much is
behind a part as was written after it.  A step does one of four things to the
places: nothing; a part is added at the end of the log, behind all others; a
file moves up by one name, which maps the places one to one and keeps what is
behind each; or an empty file gets a free name.  So the theorem is about
cardinalities and bijections, and nothing has to be read in sequence.

What the invariant adds: the open file is the log (`OpenIsLog`) unless it was
reopened by a wrong name (`strayed`, see the run `v_audit_reopen`); a part that
is added is of the newest record (`Parts`, `HalfIsLast`); a file has one name
(`OneName`).  A call that fails moves nothing, and a log without an open file
gets no parts.  A rename over an existing name drops a file, and that is only
right for the oldest one: `Numbers` says that, while the options stay, no number
is above the configured one and a file finds the next name free otherwise.  With
options that were changed it is false, and so is `NothingMissing`; the order
(`ReadInOrder`) remains.  `LogSynced` states `SyncedUnlessRotated` for the file
that has the log's name, because a reopened log is the same file.

### Metadata locks (`MDLProofs`)

*The lists.*  `QueuedAsk`, `OneEach` and `HeldOrQueued` say that a context has
one ticket that is not dealt with, in the list its wait slot tells;
`PublishedOK` and `PathOK` where a request is published and a search has a path.
The compatibility of granted locks is kept because the matrix is symmetric.
A pass of `reschedule_waiters` is summarised by `Outcome`: the tickets `N` go from
the queue to the granted ones, their contexts' slots say so, they are compatible
with all others, and whoever is left cannot be granted.  The last part is the
hard one: a ticket that was passed over early has only more granted ones
against it at the end, and has fewer waiting ones to stand back for only if one
of these was granted, which then blocks it (a priority is a conflict).  A
strong lock that stood back is the exception the property names.  `hogs` is at
most one because strong locks exclude each other, so the counter stays in its
bound.  When the tickets of an upgrade are merged, the old one goes without a
pass; the types are totally ordered by strength (`StrengthIsTotal`) and the
new one is not weaker (`UpgradeStronger`), so it blocks whatever the old one
did.

*Deadlocks.*  `DeadlocksBroken` speaks of states in which every search is over.
`SomebodySearches` speaks of every state: of any set of blocked contexts that
wait for each other, one has not finished its search and has an edge into the
set left to follow.  Two facts carry it.  No step but `will_wait_for` adds an
edge between blocked contexts: a ticket enters a list when its owner is not
blocked yet, or is told that it is granted in the same step
(`NobodyBeginsToWait`), and who publishes a request is going to search.  And a
search does not lose its edge: a node it enters that is in the set has an edge
into the set again, a node it leaves out is not blocked and so not in the set,
and a search that gets too deep or finds itself ends with a victim
(`SearchGoesOn`).  The victim is the context itself, which then is not blocked
any more, or another one, and then the context searches again
(`SetVictimDeadlock`); without that the invariant fails, and so does the run.
Sets that wait for each other take the place of cycles, so that no induction
over paths is needed.

### Only model-checked

- Liveness, which is out of the prover's reach: `StatementsReturn`,
  `CommitsReturn`, `SwitchesOnAgain`, `WritesReturn`, `ShutdownDrains`.
- `AckedIsCommitted` for an unordered server is proved without I/O errors only
  (with them it is false).

## Not modelled

The models cover the concurrent core named above and are a small part of a
server of two million lines, most of which is sequential code over unbounded
data (parser, optimizer, executor, character sets, storage formats), a system
of its own (NDB) or a library.  Of the rest:

| Part | Why not |
|---|---|
| GTID state and ownership | `Gtid_state` on top of `Sid_map` and interval sets; next in the plan, the pipeline's calls to it are left out of `GroupCommit` |
| Multi-threaded slave | needs the relay log and the applier; planned after the master's side |
| Thread pool | scheduling by counters sampled by a timer; planned |
| InnoDB record locks, transactions, read views | lock modes, queues and deadlock search could be modelled like `MDL`; bitmaps, page splits and lock inheritance are out of reach |
| InnoDB buffer pool, B-tree, mutexes | data structures of pages and hand-written latching orders; no small instance shows more than the rw-lock does |
| Parser, optimizer, executor | sequential, over unbounded data |
| Table cache, `THR_LOCK` | not before the parts above |
| `TC_LOG_MMAP` | the coordinator used without a binary log; a page pool, a candidate |

And inside the parts that are modelled:

- Group commit: transactions without an XID, XA, `skip_commit`, engine commits
  that fail, purging, the index file's crash safety.
- Semi-sync: `RESET MASTER` (`resetMaster`), the order of file names after
  number 999999, failure to allocate a node, a dump thread that outlives the
  connection of its slave, the slave beyond its relay log.
- Audit files: header and footer; names whose numbers have different numbers of
  digits; what two threads in a logger without a mutex do to `log->file`, which
  is undefined behaviour; `log->rotations` changed between two reads of one
  rotation (`file_logger.c:225` to 234 and 293 read it without a lock that
  `set_option` takes), which can pass over or overwrite an old file; a
  descriptor whose close failed and whose number is used again.
- MDL: the map of lock objects (`find_or_insert`, `m_version`), durations and
  `clone_ticket`, `notify_conflicting_locks`, the scoped namespaces,
  `acquire_locks`; an upgrade to a type that another ticket of the context has
  already (`mdl.cc:2574`: a context's tickets on a key are a set here);
  `max_write_lock_count` changed at run time.
- Rw-lock: `pass` and `rw_lock_x_lock_move_ownership`, locks without priority as
  a type, mutexes, a full wait array, memory that is not sequentially
  consistent.

## Plan

1. *(done)* `GroupCommit`, its runs and the proofs above.
2. *(done)* `AtomicCommit` and the refinement, checked with TLC and proved.
3. `StageQueue`: the pointers of `Mutex_queue` (`m_first`, `m_last`,
   `next_to_commit`) as an implementation of the sequences used here.
4. *(done)* `AuditBuffer` and `AuditFiles`.
5. *(done)* `SemiSyncMaster`.  Left: its composition with the stages of
   `GroupCommit` instead of an interface of its hooks.
6. *(done)* `RWLock` and `MDL`.  Left: `GtidOwnership`, `ThreadPool`.
7. *(done)* Theorems about `RWLock`, `SemiSyncMaster`, `AuditBuffer`, the
   durability and order of `GroupCommit` and its refinement, `AuditFiles`
   and `MDL`.
