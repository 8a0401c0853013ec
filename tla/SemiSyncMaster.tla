--------------------------- MODULE SemiSyncMaster ---------------------------
(***************************************************************************)
(* Semi-synchronous replication, the master's side: plugin/semisync.       *)
(*                                                                         *)
(* A commit waits after the engine commit until a slave has acknowledged   *)
(* its end position in the log.  The hooks that meet in ReplSemiSyncMaster *)
(* are after_flush of the group commit leader (writeTranxInBinlog, the end *)
(* of the whole group only), after_commit (commitTrx, the end of each      *)
(* transaction) and those of the dump threads, one per slave, that send    *)
(* the log.  When a wait times out semi-sync is switched off and nobody    *)
(* waits, until a slave has caught up.                                     *)
(*                                                                         *)
(* Every method holds LOCK_binlog_ from its first access to its last, so   *)
(* it is one step; commitTrx is cut where it sleeps.  A position is the    *)
(* number of transactions up to it: 0 stands for a position that is not    *)
(* initialized, and the order of file names is the order of the log.       *)
(***************************************************************************)
EXTENDS Integers, FiniteSets

CONSTANTS
  Session,      \* threads that run the after_commit hooks
  Slave,        \* semi-synchronous slaves, each with its dump thread
  OrderModes,   \* values of binlog_order_commits
  WaitNoSlave,  \* rpl_semi_sync_master_wait_no_slave
  AutoPosition, \* may a slave that returns be sent what it has (and skips)?
  MaxTrx,       \* bound: transactions
  MaxGroup,     \* bound: transactions of a group
  MaxToggles,   \* bound: SET GLOBAL rpl_semi_sync_master_enabled
  MaxDrops      \* bound: lost connections while the server runs

ASSUME SemiSyncAssumption ==
  /\ IsFiniteSet(Session) /\ IsFiniteSet(Slave)
  /\ OrderModes \subseteq BOOLEAN /\ WaitNoSlave \in BOOLEAN
  /\ AutoPosition \in BOOLEAN
  /\ MaxTrx \in Nat /\ MaxGroup \in Nat \ {0}
  /\ MaxToggles \in Nat /\ MaxDrops \in Nat

VARIABLES
  master_enabled, state,   \* enabled by the administrator; switched on
  reply_pos,               \* what a slave has acknowledged, 0 if not inited
  wait_pos, wait_inited,   \* the smallest position waited for
  commit_pos,              \* the largest position written, 0 if not inited
  active_tranxs,           \* positions of the nodes of the active list
  pc, hooks, entry, signalled,  \* the sessions, and commitTrx's locals
  log_end, flushed, group_ends, \* the log; what awaits its after_commit
  order_commits,           \* binlog_order_commits
  conn, sent, received,    \* the dump threads and their slaves
  abort_loop,              \* 1 when the server stops, 2: sessions are killed
  yes,                     \* transactions counted as replicated
  enabled_at,              \* the end of the log when last enabled
  dead,                    \* where commitTrx found no node and crashed
  toggles, drops

position == <<reply_pos, wait_pos, wait_inited, commit_pos>>
session  == <<pc, hooks, entry, signalled, yes, dead>>
log      == <<log_end, flushed, group_ends, order_commits>>
dump     == <<conn, sent, received>>
counts   == <<toggles, drops, enabled_at>>
vars == <<master_enabled, state, position, active_tranxs, session, log, dump,
          abort_loop, counts>>

Pos == 1..MaxTrx

MinOf(S) == CHOOSE x \in S : \A y \in S : x <= y
MaxOf(S) == CHOOSE x \in S : \A y \in S : x >= y

clients == Cardinality({s \in Slave : conn[s] # "off"})
Waiting == {t \in Session : pc[t] = "wait"}
n_waiters(p, W) == Cardinality({t \in W : entry[t] = p})

(***************************************************************************)
(* ActiveTranx.                                                            *)
(***************************************************************************)

(* find_active_tranx_node: the first node that is not before p. *)
find_active_tranx_node(p) ==
  LET later == {e \in active_tranxs : e >= p}
  IN  IF later = {} THEN 0 ELSE MinOf(later)

FaultClearsWaiters(p, W) == {e \in active_tranxs : e > p}

(* clear_active_tranx_nodes: from the front up to p, but never a node that *)
(* somebody waits on nor one behind it.                                    *)
clear_active_tranx_nodes(p, W) ==
  {e \in active_tranxs :
     \E f \in active_tranxs : f <= e /\ (f > p \/ n_waiters(f, W) > 0)}

FaultSignalBefore(p) ==
  signalled' = [t \in Session |->
                  signalled[t] \/ (t \in Waiting /\ entry[t] < p)]

(* Everybody who sleeps on a node up to p is woken. *)
signal_waiting_sessions_up_to(p) ==
  signalled' = [t \in Session |->
                  signalled[t] \/ (t \in Waiting /\ entry[t] <= p)]

FaultSignalFrontNode(W) ==
  signalled' = [t \in Session |-> t \in W /\ entry[t] = MinOf(active_tranxs)]

(* Everybody who sleeps on a node of the list is woken. *)
signal_waiting_sessions_all(W) ==
  signalled' = [t \in Session |-> t \in W /\ entry[t] \in active_tranxs]

(***************************************************************************)
(* commitTrx, called with the lock held by the thread t for its first      *)
(* position; W is who sleeps besides t.                                    *)
(***************************************************************************)

(* After the loop: count the answer, drop the nodes nobody needs, take the *)
(* next transaction of the group.                                          *)
Done(t, e, W, counted) ==
  LET p == MinOf(hooks[t]) IN
  /\ yes' = IF counted THEN yes \cup {p} ELSE yes
  /\ active_tranxs' = IF e # 0 /\ n_waiters(e, W) = 0
                      THEN clear_active_tranx_nodes(p, W) ELSE active_tranxs
  /\ hooks' = [hooks EXCEPT ![t] = @ \ {p}]
  /\ pc' = [pc EXCEPT ![t] = IF hooks[t] = {p} THEN "idle" ELSE "hook"]
  /\ entry' = [entry EXCEPT ![t] = 0]

(* switch_off, while the sessions W sleep. *)
switch_off(W) ==
  /\ state' = FALSE
  /\ reply_pos' = 0
  /\ wait_inited' = FALSE
  /\ signal_waiting_sessions_all(W)

FaultReplyBefore(t) == reply_pos + 1 >= MinOf(hooks[t])
acknowledged(t) == reply_pos >= MinOf(hooks[t])

FaultNodeAssumed(e) == TRUE
has_node(e) == e # 0

(* The loop while (is_on()), up to where the thread leaves it or sleeps.   *)
(* A thread that has to wait and has no node dies of it.                   *)
WaitLoop(t, e, W) ==
  LET p == MinOf(hooks[t]) IN
  IF acknowledged(t)
  THEN /\ Done(t, e, W, TRUE)
       /\ signalled' = [signalled EXCEPT ![t] = FALSE]
       /\ UNCHANGED <<state, position, dead>>
  ELSE /\ wait_pos' = IF wait_inited /\ p > wait_pos THEN wait_pos ELSE p
       /\ IF abort_loop > 0 /\ clients = 0
          THEN switch_off(W) /\ Done(t, e, W, FALSE) /\ UNCHANGED dead
          ELSE /\ wait_inited' = TRUE
               /\ IF has_node(e)
                  THEN pc' = [pc EXCEPT ![t] = "wait"] /\ UNCHANGED dead
                  ELSE dead' = p /\ UNCHANGED pc
               /\ entry' = [entry EXCEPT ![t] = e]
               /\ signalled' = [signalled EXCEPT ![t] = FALSE]
               /\ UNCHANGED <<state, reply_pos, hooks, active_tranxs, yes>>
       /\ UNCHANGED commit_pos

commitTrx(t) ==
  /\ pc[t] = "hook"
  /\ LET e == find_active_tranx_node(MinOf(hooks[t])) IN
     IF master_enabled /\ state
     THEN WaitLoop(t, e, Waiting)
     ELSE /\ Done(t, e, Waiting, FALSE)
          /\ UNCHANGED <<state, position, signalled, dead>>
  /\ UNCHANGED <<master_enabled, log, dump, abort_loop, counts>>

(* mysql_cond_timedwait returns: woken, or (Timeout) too late. *)
Wake(t) ==
  /\ pc[t] = "wait" /\ signalled[t]
  /\ LET W == Waiting \ {t} IN
     IF state
     THEN WaitLoop(t, entry[t], W)
     ELSE /\ Done(t, entry[t], W, FALSE)
          /\ signalled' = [signalled EXCEPT ![t] = FALSE]
          /\ UNCHANGED <<state, position, dead>>
  /\ UNCHANGED <<master_enabled, log, dump, abort_loop, counts>>

Timeout(t) ==
  /\ pc[t] = "wait"
  /\ switch_off(Waiting \ {t})
  /\ Done(t, entry[t], Waiting \ {t}, FALSE)
  /\ UNCHANGED <<master_enabled, wait_pos, commit_pos, dead, log, dump,
                 abort_loop, counts>>

(***************************************************************************)
(* The group commit.                                                       *)
(***************************************************************************)

largest_commit(p) == IF p > commit_pos THEN p ELSE commit_pos

(* after_flush: the leader reports the end of the group of n transactions. *)
writeTranxInBinlog(n) ==
  LET p == log_end + n IN
  /\ p <= MaxTrx /\ abort_loop = 0
  /\ log_end' = p
  /\ flushed' = flushed \cup (log_end + 1)..p
  /\ group_ends' = group_ends \cup {p}
  /\ IF master_enabled
     THEN /\ commit_pos' = largest_commit(p)
          /\ active_tranxs' = IF state THEN active_tranxs \cup {p}
                              ELSE active_tranxs
     ELSE UNCHANGED <<commit_pos, active_tranxs>>
  /\ UNCHANGED <<master_enabled, state, reply_pos, wait_pos, wait_inited,
                 order_commits, session, dump, abort_loop, counts>>

(* Whose hooks a thread runs: with binlog_order_commits the leader of the  *)
(* COMMIT stage those of all groups in its queue, in order; without it     *)
(* every session its own.                                                  *)
EnterHooks(t) ==
  /\ pc[t] = "idle"
  /\ IF order_commits
     THEN \E g \in group_ends :
            /\ hooks' = [hooks EXCEPT ![t] = {p \in flushed : p <= g}]
            /\ flushed' = {p \in flushed : p > g}
            /\ group_ends' = {h \in group_ends : h > g}
     ELSE \E p \in flushed :
            /\ hooks' = [hooks EXCEPT ![t] = {p}]
            /\ flushed' = flushed \ {p}
            /\ group_ends' = group_ends \ {p}
  /\ pc' = [pc EXCEPT ![t] = "hook"]
  /\ UNCHANGED <<master_enabled, state, position, active_tranxs, entry,
                 signalled, yes, dead, log_end, order_commits, dump,
                 abort_loop, counts>>

(***************************************************************************)
(* The dump threads.                                                       *)
(***************************************************************************)

(* try_switch_on: a slave at p has everything that was written. *)
FaultSwitchedOnBehind(p) == TRUE
try_switch_on(p) == commit_pos = 0 \/ p >= commit_pos

(* reportReplyBinlog: the position moves forward only, and everybody up to *)
(* it is signalled if the smallest wait is over.                           *)
reportReplyBinlog(p) ==
  IF master_enabled
  THEN LET r == IF p > reply_pos THEN p ELSE reply_pos
           release == Waiting # {} /\ r >= wait_pos IN
       /\ state' = (state \/ try_switch_on(p))
       /\ reply_pos' = r
       /\ wait_inited' = (wait_inited /\ ~release)
       /\ IF release THEN signal_waiting_sessions_up_to(r)
          ELSE UNCHANGED signalled
       /\ UNCHANGED <<wait_pos, commit_pos>>
  ELSE UNCHANGED <<state, position, signalled>>

FaultNoReplyWhenOff(p) ==
  /\ master_enabled /\ state
  /\ p > reply_pos /\ p \in active_tranxs

(* updateSyncHeader: must the slave acknowledge the event that ends at p?  *)
updateSyncHeader(p) ==
  /\ master_enabled
  /\ IF state
     THEN /\ p > reply_pos /\ (wait_inited => p >= wait_pos)
          /\ p \in active_tranxs
     ELSE commit_pos = 0 \/ p >= commit_pos

(* The dump thread sends the next event, or skips it if the slave has it   *)
(* already, with the header that may ask for a reply.                      *)
SendEvent(s) ==
  /\ conn[s] = "send" /\ sent[s] < log_end
  /\ LET p == sent[s] + 1 IN
     /\ sent' = [sent EXCEPT ![s] = p]
     /\ conn' = [conn EXCEPT ![s] =
                   IF updateSyncHeader(p) THEN "reply" ELSE "send"]
  /\ UNCHANGED <<master_enabled, state, position, active_tranxs, session, log,
                 received, abort_loop, counts>>

(* The slave's I/O thread writes the event to its relay log, and replies   *)
(* after that if it was asked to.                                          *)
QueueEvent(s) ==
  /\ conn[s] # "off" /\ received[s] < sent[s]
  /\ received' = [received EXCEPT ![s] = @ + 1]
  /\ UNCHANGED <<master_enabled, state, position, active_tranxs, session, log,
                 conn, sent, abort_loop, counts>>

reply_arrived(s) == received[s] >= sent[s]

(* The dump thread that asked for a reply waits for it and applies it      *)
(* (readSlaveReply); a skipped event the slave has already is taken for    *)
(* acknowledged at once (skipSlaveReply).                                  *)
readSlaveReply(s) ==
  /\ conn[s] = "reply" /\ reply_arrived(s)
  /\ reportReplyBinlog(sent[s])
  /\ conn' = [conn EXCEPT ![s] = "send"]
  /\ UNCHANGED <<master_enabled, active_tranxs, pc, hooks, entry, yes, dead,
                 log, sent, received, abort_loop, counts>>

(* transmit_start: add_slave, and the position the slave asks for is taken *)
(* for acknowledged.                                                       *)
Connect(s) ==
  /\ conn[s] = "off" /\ abort_loop = 0
  /\ \E p \in {received[s]} \cup (IF AutoPosition THEN {0} ELSE {}) :
       /\ sent' = [sent EXCEPT ![s] = p]
       /\ reportReplyBinlog(p)
  /\ conn' = [conn EXCEPT ![s] = "send"]
  /\ UNCHANGED <<master_enabled, active_tranxs, pc, hooks, entry, yes, dead,
                 log, received, abort_loop, counts>>

last_slave_gone == clients = 1 /\ (~WaitNoSlave \/ abort_loop > 0)

(* The connection is lost, or the dump thread is killed: remove_slave. *)
Disconnect(s) ==
  /\ conn[s] # "off"
  /\ IF abort_loop > 0 THEN UNCHANGED drops
     ELSE drops < MaxDrops /\ drops' = drops + 1
  /\ conn' = [conn EXCEPT ![s] = "off"]
  /\ IF master_enabled /\ state /\ last_slave_gone
     THEN switch_off(Waiting) /\ UNCHANGED <<wait_pos, commit_pos>>
     ELSE UNCHANGED <<state, position, signalled>>
  /\ UNCHANGED <<master_enabled, active_tranxs, pc, hooks, entry, yes, dead,
                 log, sent, received, abort_loop, toggles, enabled_at>>

(***************************************************************************)
(* The administrator.                                                      *)
(***************************************************************************)

enableMaster ==
  /\ ~master_enabled /\ toggles < MaxToggles
  /\ master_enabled' = TRUE
  /\ state' = TRUE
  /\ reply_pos' = 0 /\ commit_pos' = 0
  /\ wait_inited' = FALSE
  /\ toggles' = toggles + 1
  /\ enabled_at' = log_end
  /\ UNCHANGED <<wait_pos, active_tranxs, session, log, dump, abort_loop,
                 drops>>

disableMaster ==
  /\ master_enabled /\ toggles < MaxToggles
  /\ master_enabled' = FALSE
  /\ switch_off(Waiting)
  /\ commit_pos' = 0
  /\ toggles' = toggles + 1
  /\ UNCHANGED <<wait_pos, active_tranxs, pc, hooks, entry, yes, dead, log,
                 dump, abort_loop, drops, enabled_at>>

(* Shutdown: abort_loop, then every session is killed (THD::awake          *)
(* broadcasts the condition it waits on); new connections are refused.     *)
Shutdown ==
  /\ abort_loop < 2
  /\ abort_loop' = abort_loop + 1
  /\ signalled' = IF abort_loop = 1 THEN [t \in Session |-> t \in Waiting]
                  ELSE signalled
  /\ UNCHANGED <<master_enabled, state, position, active_tranxs, pc, hooks,
                 entry, yes, dead, log, dump, counts>>

(***************************************************************************)
(* The specification.                                                      *)
(***************************************************************************)

Init ==
  /\ master_enabled \in BOOLEAN /\ state = master_enabled
  /\ reply_pos = 0 /\ wait_pos = 0 /\ wait_inited = FALSE /\ commit_pos = 0
  /\ active_tranxs = {}
  /\ pc = [t \in Session |-> "idle"]
  /\ hooks = [t \in Session |-> {}]
  /\ entry = [t \in Session |-> 0]
  /\ signalled = [t \in Session |-> FALSE]
  /\ log_end = 0 /\ flushed = {} /\ group_ends = {}
  /\ order_commits \in OrderModes
  /\ conn = [s \in Slave |-> "off"]
  /\ sent = [s \in Slave |-> 0] /\ received = [s \in Slave |-> 0]
  /\ abort_loop = 0
  /\ yes = {} /\ dead = 0 /\ enabled_at = 0
  /\ toggles = 0 /\ drops = 0

Hooks(t) == dead = 0 /\ (EnterHooks(t) \/ commitTrx(t) \/ Wake(t))

Replication(s) ==
  /\ dead = 0
  /\ SendEvent(s) \/ QueueEvent(s) \/ readSlaveReply(s) \/ Connect(s)

Next ==
  \/ \E t \in Session : Hooks(t) \/ (dead = 0 /\ Timeout(t))
  \/ \E s \in Slave : Replication(s) \/ (dead = 0 /\ Disconnect(s))
  \/ dead = 0 /\ \E n \in 1..MaxGroup : writeTranxInBinlog(n)
  \/ dead = 0 /\ (enableMaster \/ disableMaster \/ Shutdown)

Spec == Init /\ [][Next]_vars

(* Threads run on.  A slave that lost its connection tries again (its I/O  *)
(* thread retries); a shutdown that has begun goes on, and ends the dump   *)
(* threads.  Nothing is asked of timeouts: a wait must end without one.    *)
Fairness ==
  /\ \A t \in Session : WF_vars(Hooks(t))
  /\ \A s \in Slave : /\ WF_vars(Replication(s))
                      /\ WF_vars(dead = 0 /\ abort_loop > 0 /\ Disconnect(s))
  /\ WF_vars(dead = 0 /\ abort_loop = 1 /\ Shutdown)

FairSpec == Spec /\ Fairness

(***************************************************************************)
(* Invariants.                                                             *)
(***************************************************************************)

(* Every variable has its type; who sleeps, and nobody else, has a node.   *)
TypeOK ==
  /\ master_enabled \in BOOLEAN /\ state \in BOOLEAN
  /\ {reply_pos, wait_pos, commit_pos, log_end, dead} \subseteq 0..MaxTrx
  /\ wait_inited \in BOOLEAN
  /\ active_tranxs \subseteq Pos
  /\ pc \in [Session -> {"idle", "hook", "wait"}]
  /\ hooks \in [Session -> SUBSET Pos]
  /\ entry \in [Session -> 0..MaxTrx]
  /\ \A t \in Session : entry[t] # 0 <=> pc[t] = "wait"
  /\ signalled \in [Session -> BOOLEAN]
  /\ flushed \subseteq Pos /\ group_ends \subseteq Pos
  /\ order_commits \in BOOLEAN
  /\ conn \in [Slave -> {"off", "send", "reply"}]
  /\ sent \in [Slave -> 0..MaxTrx] /\ received \in [Slave -> 0..MaxTrx]
  /\ abort_loop \in 0..2
  /\ yes \subseteq Pos /\ enabled_at \in 0..MaxTrx
  /\ toggles \in 0..MaxToggles /\ drops \in 0..MaxDrops

(* A commit that is counted as replicated (Rpl_semi_sync_master_yes_tx)    *)
(* has reached the relay log of a slave, whatever timeouts, reconnections  *)
(* and switches happened while it waited.                                  *)
YesMeansReceived == \A p \in yes : \E s \in Slave : received[s] >= p

(* The node, and with it the condition variable, that a session sleeps on  *)
(* is not taken off the list by another session that clears its own, and   *)
(* it is late enough for the session.                                      *)
WaitersListed ==
  \A t \in Waiting : entry[t] \in active_tranxs /\ entry[t] >= MinOf(hooks[t])

(* commitTrx finds a node to wait on, unless the transaction was written   *)
(* before semi-sync was enabled (then assert(entry) fails): when a node is *)
(* missing for another reason, because it was written while semi-sync was  *)
(* switched off, a slave has acknowledged it before semi-sync is on again. *)
NodeOrAcknowledged == dead <= enabled_at

(* While somebody sleeps unsignalled semi-sync is on: whoever switches it  *)
(* off wakes everybody.                                                    *)
NobodySleepsWhenOff ==
  \A t \in Waiting : signalled[t] \/ (master_enabled /\ state)

(***************************************************************************)
(* Liveness.                                                               *)
(***************************************************************************)

(* Every commit returns, without the help of a timeout.                    *)
CommitsReturn ==
  \A t \in Session : pc[t] # "idle" ~> (pc[t] = "idle" \/ dead # 0)

(* Semi-sync that is off comes back once a connected slave has been sent   *)
(* the rest of the log.                                                    *)
SwitchesOnAgain ==
  \A s \in Slave :
    (master_enabled /\ ~state /\ conn[s] = "send" /\ sent[s] < log_end)
      ~> (state \/ ~master_enabled \/ conn[s] = "off" \/ dead # 0)

=============================================================================
