-------------------------- MODULE SemiSyncProofs --------------------------
(***************************************************************************)
(* Proofs about SemiSyncMaster for any number of sessions and slaves, any  *)
(* options and any bounds.  IndInv is the inductive invariant.  Its heart  *)
(* is Covered: while semi-sync is on, a transaction that was written since *)
(* it was enabled has a node to wait on or has been acknowledged, even     *)
(* when it was written while semi-sync was switched off.                   *)
(*                                                                         *)
(* The module goes from what commitTrx does, as one of three outcomes,     *)
(* over the dump threads, the group commit leader and the administrator to *)
(* the theorems.                                                           *)
(***************************************************************************)
EXTENDS SemiSyncMaster, FiniteSetTheorems, WellFoundedInduction, TLAPS

(* How the pieces of state follow the log. *)
LogOrder ==
  /\ state => master_enabled
  /\ enabled_at <= log_end
  /\ group_ends \subseteq flushed /\ flushed \subseteq 1..log_end
  /\ \A s \in Slave : sent[s] <= log_end /\ received[s] <= log_end
  /\ \A t \in Session : /\ hooks[t] \subseteq 1..log_end
                        /\ pc[t] # "idle" => hooks[t] # {}

(* What counts as acknowledged has been received by some slave. *)
ReplyReceived ==
  reply_pos > 0 => \E s \in Slave : received[s] >= reply_pos

(* While enabled, commit_pos is the end of what was written since then. *)
CommitPos ==
  master_enabled =>
    commit_pos = IF log_end > enabled_at THEN log_end ELSE 0

(* While semi-sync is on, whatever was written since it was enabled has a  *)
(* node, or a later one, or a slave has acknowledged it.                   *)
Covered ==
  state => \A p \in enabled_at + 1..log_end :
             reply_pos >= p \/ \E e \in active_tranxs : e >= p

IndInv == /\ TypeOK /\ LogOrder
          /\ WaitersListed /\ NobodySleepsWhenOff
          /\ ReplyReceived /\ YesMeansReceived
          /\ CommitPos /\ Covered /\ NodeOrAcknowledged

(***************************************************************************)
(* What a call of commitTrx, or its rest after a sleep, comes to.  e is    *)
(* the thread's node, W who else sleeps.                                   *)
(***************************************************************************)

(* The answer is counted, or semi-sync is off. *)
Returns(t, e, W) ==
  /\ \/ acknowledged(t) /\ Done(t, e, W, TRUE)
     \/ ~state /\ Done(t, e, W, FALSE)
  /\ \A u \in Session \ {t} : signalled'[u] = signalled[u]
  /\ signalled' \in [Session -> BOOLEAN]
  /\ UNCHANGED <<state, position, dead>>

(* The thread switches semi-sync off. *)
GivesUp(t, e, W) ==
  /\ switch_off(W) /\ Done(t, e, W, FALSE)
  /\ wait_pos' \in 0..MaxTrx
  /\ UNCHANGED <<commit_pos, dead>>

(* The thread sleeps on its node, or has none. *)
Sleeps(t, e) ==
  /\ state /\ ~acknowledged(t)
  /\ \/ /\ e \in active_tranxs /\ e >= MinOf(hooks[t])
        /\ pc' = [pc EXCEPT ![t] = "wait"] /\ dead' = dead
     \/ /\ e = 0 /\ \A f \in active_tranxs : f < MinOf(hooks[t])
        /\ pc[t] = "hook" /\ pc' = pc /\ dead' = MinOf(hooks[t])
  /\ entry' = [entry EXCEPT ![t] = e]
  /\ signalled' = [signalled EXCEPT ![t] = FALSE]
  /\ wait_pos' \in 0..MaxTrx /\ wait_inited' = TRUE
  /\ UNCHANGED <<state, reply_pos, commit_pos, hooks, active_tranxs, yes>>

HookStep(t, e, W) ==
  /\ t \in Session /\ pc[t] # "idle" /\ e \in 0..MaxTrx
  /\ W = Waiting \ {t}
  /\ Returns(t, e, W) \/ GivesUp(t, e, W) \/ Sleeps(t, e)
  /\ UNCHANGED <<master_enabled, log, dump, abort_loop, counts>>

(* The assumptions on the constants, without the options. *)
LEMMA Bounds ==
  /\ IsFiniteSet(Session) /\ IsFiniteSet(Slave)
  /\ MaxTrx \in Nat /\ MaxGroup \in Nat /\ MaxGroup # 0
  /\ MaxToggles \in Nat /\ MaxDrops \in Nat
BY SemiSyncAssumption

USE Bounds

(* A set of numbers has a smallest. *)
LEMMA MinOfFacts ==
  ASSUME NEW S, S \subseteq Nat, S # {}
  PROVE  MinOf(S) \in S /\ \A y \in S : MinOf(S) <= y
<1>1. \E x \in S : \A y \in S : x <= y
  <2>1. PICK x \in S : \A y \in S : ~(<<y, x>> \in OpToRel(<, Nat))
    BY NatLessThanWellFounded, WFMin
  <2>2. \A y \in S : ~(y < x)
    BY <2>1 DEF OpToRel
  <2> QED BY <2>2
<1> QED BY <1>1 DEF MinOf

(* The position commitTrx is called for. *)
LEMMA FirstHook ==
  ASSUME IndInv, NEW t \in Session, pc[t] # "idle"
  PROVE  /\ MinOf(hooks[t]) \in hooks[t]
         /\ MinOf(hooks[t]) \in 1..log_end /\ MinOf(hooks[t]) \in Pos
<1>1. hooks[t] \subseteq Nat /\ hooks[t] # {} /\ hooks[t] \subseteq 1..log_end
      /\ log_end \in 0..MaxTrx
  BY DEF IndInv, LogOrder, TypeOK, Pos
<1>2. MinOf(hooks[t]) \in hooks[t]
  BY <1>1, MinOfFacts
<1> QED BY <1>1, <1>2 DEF Pos

(* find_active_tranx_node. *)
LEMMA NodeFacts ==
  ASSUME IndInv, NEW p \in Pos
  PROVE  LET e == find_active_tranx_node(p)
         IN  /\ e \in 0..MaxTrx
             /\ e # 0 => e \in active_tranxs /\ e >= p
             /\ e = 0 => \A f \in active_tranxs : f < p
<1> DEFINE later == {e \in active_tranxs : e >= p}
<1>1. active_tranxs \subseteq 1..MaxTrx /\ active_tranxs \subseteq Nat
  BY DEF IndInv, TypeOK, Pos
<1>2. CASE later = {}
  BY <1>1, <1>2 DEF find_active_tranx_node, Pos
<1>3. CASE later # {}
  <2>1. MinOf(later) \in later
    <3>1. later \subseteq Nat
      BY <1>1
    <3> HIDE DEF later
    <3> QED BY <1>3, <3>1, MinOfFacts
  <2>2. find_active_tranx_node(p) = MinOf(later)
    BY <1>3 DEF find_active_tranx_node
  <2>3. MinOf(later) \in 1..MaxTrx
    BY <1>1, <2>1
  <2> QED BY <2>1, <2>2, <2>3
<1> QED BY <1>2, <1>3

(* The three ways of commitTrx's end and its sleep. *)
LEMMA HookCases ==
  ASSUME IndInv, NEW t \in Session, dead = 0,
         commitTrx(t) \/ Wake(t) \/ Timeout(t)
  PROVE  \E e \in 0..MaxTrx, W \in SUBSET Session : HookStep(t, e, W)
<1>1. pc[t] # "idle" /\ MinOf(hooks[t]) \in Pos
  BY FirstHook DEF commitTrx, Wake, Timeout
<1>2. ASSUME NEW e \in 0..MaxTrx, NEW W \in SUBSET Session, WaitLoop(t, e, W),
             state, W = Waiting \ {t},
             e # 0 => e \in active_tranxs /\ e >= MinOf(hooks[t]),
             e = 0 => /\ \A f \in active_tranxs : f < MinOf(hooks[t])
                      /\ pc[t] = "hook"
      PROVE  Returns(t, e, W) \/ GivesUp(t, e, W) \/ Sleeps(t, e)
  <2>1. CASE acknowledged(t)
    BY <1>2, <2>1 DEF WaitLoop, Returns, IndInv, TypeOK
  <2>2. CASE ~acknowledged(t)
    <3>1. wait_pos' \in 0..MaxTrx
      BY <1>1, <1>2, <2>2 DEF WaitLoop, IndInv, TypeOK, Pos
    <3>2. CASE abort_loop > 0 /\ clients = 0
      BY <1>2, <2>2, <3>1, <3>2 DEF WaitLoop, GivesUp
    <3>3. CASE ~(abort_loop > 0 /\ clients = 0)
      BY <1>2, <2>2, <3>1, <3>3 DEF WaitLoop, Sleeps, has_node
    <3> QED BY <3>2, <3>3
  <2> QED BY <2>1, <2>2
<1>3. CASE commitTrx(t)
  <2> DEFINE e == find_active_tranx_node(MinOf(hooks[t]))
  <2>1. /\ e \in 0..MaxTrx
        /\ e # 0 => e \in active_tranxs /\ e >= MinOf(hooks[t])
        /\ e = 0 => \A f \in active_tranxs : f < MinOf(hooks[t])
    BY <1>1, NodeFacts
  <2>2. Waiting = Waiting \ {t} /\ Waiting \in SUBSET Session
    BY <1>3 DEF commitTrx, Waiting
  <2>3. CASE master_enabled /\ state
    BY <1>1, <1>2, <1>3, <2>1, <2>2, <2>3 DEF commitTrx, HookStep
  <2>4. CASE ~(master_enabled /\ state)
    <3>1. ~state
      BY <2>4 DEF IndInv, LogOrder
    <3>2. Returns(t, e, Waiting)
      BY <1>3, <2>4, <3>1 DEF commitTrx, Returns, IndInv, TypeOK
    <3> QED BY <1>1, <1>3, <2>1, <2>2, <3>2 DEF commitTrx, HookStep
  <2> QED BY <2>3, <2>4
<1>4. CASE Wake(t)
  <2>1. /\ entry[t] \in active_tranxs /\ entry[t] >= MinOf(hooks[t])
        /\ entry[t] \in 0..MaxTrx /\ entry[t] # 0
        /\ Waiting \ {t} \in SUBSET Session
    BY <1>4 DEF Wake, IndInv, WaitersListed, Waiting, TypeOK
  <2>2. CASE state
    BY <1>1, <1>2, <1>4, <2>1, <2>2 DEF Wake, HookStep
  <2>3. CASE ~state
    <3>1. Returns(t, entry[t], Waiting \ {t})
      BY <1>4, <2>3 DEF Wake, Returns, IndInv, TypeOK
    <3> QED BY <1>1, <1>4, <2>1, <3>1 DEF Wake, HookStep
  <2> QED BY <2>2, <2>3
<1>5. CASE Timeout(t)
  <2>1. entry[t] \in 0..MaxTrx /\ Waiting \ {t} \in SUBSET Session
    BY DEF IndInv, Waiting, TypeOK
  <2>2. GivesUp(t, entry[t], Waiting \ {t})
    BY <1>5 DEF Timeout, GivesUp, IndInv, TypeOK
  <2> QED BY <1>1, <1>5, <2>1, <2>2 DEF Timeout, HookStep
<1> QED BY <1>3, <1>4, <1>5

(* The nodes that are kept when a thread is done: those that somebody      *)
(* waits on, and those that are behind it.                                 *)
LEMMA NodesKept ==
  ASSUME IndInv, NEW t \in Session, NEW e, NEW W \in SUBSET Session,
         NEW b, Done(t, e, W, b)
  PROVE  /\ active_tranxs' \subseteq active_tranxs
         /\ \A u \in W : entry[u] \in active_tranxs =>
                          entry[u] \in active_tranxs'
         /\ \A f \in active_tranxs :
              f > MinOf(hooks[t]) => f \in active_tranxs'
<1> DEFINE p == MinOf(hooks[t])
<1>1. active_tranxs \subseteq Nat
  BY DEF IndInv, TypeOK, Pos
<1>2. ASSUME NEW u \in W PROVE n_waiters(entry[u], W) > 0
  <2> DEFINE S == {v \in W : entry[v] = entry[u]}
  <2>1. IsFiniteSet(S) /\ S # {}
    BY FS_Subset
  <2>2. Cardinality(S) \in Nat /\ Cardinality(S) # 0
    BY <2>1, FS_CardinalityType, FS_EmptySet
  <2> QED BY <2>2 DEF n_waiters
<1>3. clear_active_tranx_nodes(p, W) \subseteq active_tranxs
  BY DEF clear_active_tranx_nodes
<1>4. ASSUME NEW u \in W, entry[u] \in active_tranxs
      PROVE  entry[u] \in clear_active_tranx_nodes(p, W)
  <2>1. entry[u] \in Nat
    BY <1>1, <1>4
  <2>2. entry[u] <= entry[u]
    BY <2>1
  <2> QED BY <1>2, <1>4, <2>2 DEF clear_active_tranx_nodes
<1>5. \A f \in active_tranxs : f > p => f \in clear_active_tranx_nodes(p, W)
  BY <1>1 DEF clear_active_tranx_nodes
<1> QED BY <1>3, <1>4, <1>5 DEF Done

(* The other sessions are left alone when a thread is done. *)
LEMMA DoneFacts ==
  ASSUME IndInv, NEW t \in Session, pc[t] # "idle", NEW e,
         NEW W \in SUBSET Session, NEW b \in BOOLEAN, Done(t, e, W, b)
  PROVE  /\ active_tranxs' \subseteq Pos
         /\ pc' \in [Session -> {"idle", "hook", "wait"}]
         /\ hooks' \in [Session -> SUBSET Pos]
         /\ entry' \in [Session -> 0..MaxTrx]
         /\ yes' \subseteq Pos
         /\ \A u \in Session : entry'[u] # 0 <=> pc'[u] = "wait"
         /\ \A u \in Session :
              /\ hooks'[u] \subseteq 1..log_end
              /\ pc'[u] # "idle" => hooks'[u] # {}
         /\ Waiting' = Waiting \ {t}
         /\ \A u \in Session \ {t} :
              hooks'[u] = hooks[u] /\ entry'[u] = entry[u]
<1>1. MinOf(hooks[t]) \in hooks[t] /\ MinOf(hooks[t]) \in Pos
  BY FirstHook
<1>2. /\ active_tranxs' \subseteq Pos
      /\ yes' \subseteq Pos
  BY <1>1, NodesKept DEF Done, IndInv, TypeOK
<1>3. /\ pc' = [pc EXCEPT ![t] = pc'[t]] /\ pc'[t] \in {"idle", "hook"}
      /\ hooks' = [hooks EXCEPT ![t] = hooks[t] \ {MinOf(hooks[t])}]
      /\ pc'[t] # "idle" => hooks[t] # {MinOf(hooks[t])}
      /\ entry' = [entry EXCEPT ![t] = 0]
  BY DEF Done, IndInv, TypeOK
<1>4. /\ pc' \in [Session -> {"idle", "hook", "wait"}]
      /\ hooks' \in [Session -> SUBSET Pos]
      /\ entry' \in [Session -> 0..MaxTrx]
      /\ \A u \in Session : entry'[u] # 0 <=> pc'[u] = "wait"
  BY <1>3 DEF IndInv, TypeOK
<1>5. \A u \in Session : /\ hooks'[u] \subseteq 1..log_end
                         /\ pc'[u] # "idle" => hooks'[u] # {}
  BY <1>1, <1>3 DEF IndInv, TypeOK, LogOrder
<1>6. /\ Waiting' = Waiting \ {t}
      /\ \A u \in Session \ {t} :
           hooks'[u] = hooks[u] /\ entry'[u] = entry[u]
  BY <1>3 DEF Waiting, IndInv, TypeOK
<1> QED BY <1>2, <1>4, <1>5, <1>6

(* commitTrx, Wake and Timeout keep the types and the order, *)
LEMMA HookTypes ==
  ASSUME IndInv, dead = 0, NEW t, NEW e, NEW W \in SUBSET Session,
         HookStep(t, e, W)
  PROVE  TypeOK' /\ LogOrder'
<1> USE DEF HookStep
<1>1. /\ master_enabled' = master_enabled /\ log_end' = log_end
      /\ flushed' = flushed /\ group_ends' = group_ends
      /\ order_commits' = order_commits /\ conn' = conn /\ sent' = sent
      /\ received' = received /\ abort_loop' = abort_loop
      /\ toggles' = toggles /\ drops' = drops /\ enabled_at' = enabled_at
  BY DEF log, dump, counts
<1>2. /\ active_tranxs' \subseteq Pos
      /\ pc' \in [Session -> {"idle", "hook", "wait"}]
      /\ hooks' \in [Session -> SUBSET Pos]
      /\ entry' \in [Session -> 0..MaxTrx]
      /\ yes' \subseteq Pos
      /\ \A u \in Session : entry'[u] # 0 <=> pc'[u] = "wait"
      /\ \A u \in Session : /\ hooks'[u] \subseteq 1..log_end
                            /\ pc'[u] # "idle" => hooks'[u] # {}
  <2>1. CASE Returns(t, e, W) \/ GivesUp(t, e, W)
    BY <2>1, DoneFacts DEF Returns, GivesUp
  <2>2. CASE Sleeps(t, e)
    BY <2>2 DEF Sleeps, IndInv, TypeOK, LogOrder, Pos
  <2> QED BY <2>1, <2>2
<1>3. /\ reply_pos' \in 0..MaxTrx /\ wait_pos' \in 0..MaxTrx
      /\ commit_pos' \in 0..MaxTrx /\ dead' \in 0..MaxTrx
      /\ wait_inited' \in BOOLEAN /\ state' \in BOOLEAN
      /\ signalled' \in [Session -> BOOLEAN]
      /\ state' => state
  <2>1. CASE Returns(t, e, W)
    BY <2>1 DEF Returns, position, IndInv, TypeOK
  <2>2. CASE GivesUp(t, e, W)
    BY <2>2 DEF GivesUp, switch_off, signal_waiting_sessions_all, IndInv,
       TypeOK
  <2>3. CASE Sleeps(t, e)
    BY <2>3, FirstHook DEF Sleeps, IndInv, TypeOK, Pos
  <2> QED BY <2>1, <2>2, <2>3
<1>4. TypeOK'
  BY <1>1, <1>2, <1>3 DEF IndInv, TypeOK
<1>5. LogOrder'
  BY <1>1, <1>2, <1>3 DEF IndInv, LogOrder
<1> QED BY <1>4, <1>5

(* who sleeps has a node and semi-sync is on, *)
LEMMA HookSleepers ==
  ASSUME IndInv, NEW t, NEW e, NEW W \in SUBSET Session, HookStep(t, e, W)
  PROVE  WaitersListed' /\ NobodySleepsWhenOff'
<1>0. /\ t \in Session /\ pc[t] # "idle" /\ W = Waiting \ {t}
      /\ master_enabled' = master_enabled
  BY DEF HookStep
<1>1. CASE Sleeps(t, e)
  <2>1. Waiting' \subseteq Waiting \cup {t}
    BY <1>0, <1>1 DEF Sleeps, Waiting, IndInv, TypeOK
  <2>2. WaitersListed'
    <3>1. t \in Waiting' =>
            entry'[t] \in active_tranxs' /\ entry'[t] >= MinOf(hooks'[t])
      BY <1>0, <1>1 DEF Sleeps, Waiting, IndInv, TypeOK
    <3>2. \A u \in Session \ {t} : entry'[u] = entry[u]
      BY <1>1 DEF Sleeps, IndInv, TypeOK
    <3> QED
      BY <1>1, <2>1, <3>1, <3>2 DEF Sleeps, Waiting, IndInv, WaitersListed
  <2>3. NobodySleepsWhenOff'
    BY <1>0, <1>1, <2>1
    DEF Sleeps, NobodySleepsWhenOff, IndInv, LogOrder, TypeOK, Waiting
  <2> QED BY <2>2, <2>3
<1>2. CASE Returns(t, e, W) \/ GivesUp(t, e, W)
  <2>1. Done(t, e, W, TRUE) \/ Done(t, e, W, FALSE)
    BY <1>2 DEF Returns, GivesUp
  <2>2. /\ Waiting' = Waiting \ {t}
        /\ \A u \in Session \ {t} :
             hooks'[u] = hooks[u] /\ entry'[u] = entry[u]
    BY <1>0, <2>1, DoneFacts
  <2>3. \A u \in W : entry[u] \in active_tranxs'
    BY <1>0, <2>1, NodesKept DEF IndInv, WaitersListed
  <2>4. WaitersListed'
    BY <1>0, <2>2, <2>3 DEF WaitersListed, IndInv, Waiting
  <2>5. CASE Returns(t, e, W)
    <3>1. \A u \in W : signalled'[u] = signalled[u]
      BY <1>0, <2>5 DEF Returns, Waiting
    <3>2. state' = state
      BY <2>5 DEF Returns
    <3>3. \A u \in W : signalled[u] \/ (master_enabled /\ state)
      BY <1>0 DEF IndInv, NobodySleepsWhenOff
    <3> QED
      BY <1>0, <2>2, <2>4, <3>1, <3>2, <3>3 DEF NobodySleepsWhenOff
  <2>6. CASE GivesUp(t, e, W)
    <3>1. \A u \in W : signalled'[u]
      BY <1>0, <2>6 DEF GivesUp, switch_off, signal_waiting_sessions_all, IndInv,
         WaitersListed
    <3> QED BY <1>0, <2>2, <2>4, <3>1 DEF NobodySleepsWhenOff
  <2> QED BY <1>2, <2>4, <2>5, <2>6
<1> QED BY <1>1, <1>2 DEF HookStep

(* and only what was received counts. *)
LEMMA HookCounts ==
  ASSUME IndInv, dead = 0, NEW t, NEW e, NEW W \in SUBSET Session,
         HookStep(t, e, W)
  PROVE  /\ ReplyReceived' /\ YesMeansReceived'
         /\ CommitPos' /\ Covered' /\ NodeOrAcknowledged'
<1> USE DEF HookStep
<1>1. /\ master_enabled' = master_enabled /\ log_end' = log_end
      /\ received' = received /\ enabled_at' = enabled_at
      /\ MinOf(hooks[t]) \in 1..log_end /\ MinOf(hooks[t]) \in Pos
      /\ reply_pos \in Nat /\ enabled_at \in Nat /\ log_end \in Nat
  BY FirstHook DEF log, dump, counts, IndInv, TypeOK
<1>2. CASE Sleeps(t, e)
  <2>1. NodeOrAcknowledged'
    <3>1. \A f \in active_tranxs : f \in Nat
      BY DEF IndInv, TypeOK, Pos
    <3>2. CASE dead' = dead
      BY <1>1, <3>2 DEF IndInv, NodeOrAcknowledged
    <3>3. CASE /\ \A f \in active_tranxs : f < MinOf(hooks[t])
               /\ dead' = MinOf(hooks[t])
      BY <1>1, <1>2, <3>1, <3>3
      DEF Sleeps, acknowledged, IndInv, Covered, NodeOrAcknowledged
    <3> QED BY <1>2, <3>2, <3>3 DEF Sleeps
  <2> QED
    BY <1>1, <1>2, <2>1
    DEF Sleeps, IndInv, ReplyReceived, YesMeansReceived, CommitPos, Covered
<1>3. CASE Returns(t, e, W)
  <2>1. CASE acknowledged(t) /\ Done(t, e, W, TRUE)
    <3>1. yes' = yes \cup {MinOf(hooks[t])}
      BY <2>1 DEF Done
    <3>2. \E s \in Slave : received[s] >= reply_pos
      BY <1>1, <2>1 DEF acknowledged, IndInv, ReplyReceived
    <3>3. YesMeansReceived'
      <4>1. \E s \in Slave : received[s] >= MinOf(hooks[t])
        BY <1>1, <2>1, <3>2 DEF acknowledged, IndInv, TypeOK
      <4> QED BY <1>1, <3>1, <4>1 DEF YesMeansReceived, IndInv
    <3>4. Covered'
      <4>1. \A f \in active_tranxs :
              f > MinOf(hooks[t]) => f \in active_tranxs'
        BY <2>1, NodesKept
      <4>2. \A f \in active_tranxs : f \in Nat
        BY DEF IndInv, TypeOK, Pos
      <4>3. state' = state /\ reply_pos' = reply_pos
        BY <1>3 DEF Returns, position
      <4> SUFFICES ASSUME state, NEW p \in enabled_at + 1..log_end,
                          ~(reply_pos >= p)
                   PROVE  \E f \in active_tranxs' : f >= p
        BY <1>1, <4>3 DEF Covered
      <4>4. PICK f \in active_tranxs : f >= p
        BY DEF IndInv, Covered
      <4>5. f > MinOf(hooks[t])
        BY <1>1, <2>1, <4>2, <4>4 DEF acknowledged
      <4> QED BY <4>1, <4>4, <4>5
    <3> QED
      BY <1>1, <1>3, <3>3, <3>4
      DEF Returns, position, IndInv, ReplyReceived, CommitPos,
          NodeOrAcknowledged
  <2>2. CASE ~state /\ Done(t, e, W, FALSE)
    BY <1>1, <1>3, <2>2
    DEF Returns, Done, position, IndInv, ReplyReceived, YesMeansReceived,
        CommitPos, Covered, NodeOrAcknowledged
  <2> QED BY <1>3, <2>1, <2>2 DEF Returns
<1>4. CASE GivesUp(t, e, W)
  BY <1>1, <1>4
  DEF GivesUp, switch_off, Done, IndInv, ReplyReceived, YesMeansReceived,
      CommitPos, Covered, NodeOrAcknowledged
<1> QED BY <1>2, <1>3, <1>4

(* What is reported to have been received has been. *)
LEMMA Reported ==
  ASSUME IndInv, NEW p \in 0..log_end,
         p = 0 \/ \E s \in Slave : received[s] >= p,
         reportReplyBinlog(p) \/ UNCHANGED <<state, position, signalled>>,
         UNCHANGED <<master_enabled, active_tranxs, pc, hooks, entry, yes,
                     dead, log, received, abort_loop, counts>>,
         conn' \in [Slave -> {"off", "send", "reply"}],
         sent' \in [Slave -> 0..MaxTrx], \A s \in Slave : sent'[s] <= log_end
  PROVE  IndInv'
<1>1. /\ log_end' = log_end /\ flushed' = flushed /\ group_ends' = group_ends
      /\ order_commits' = order_commits /\ Waiting' = Waiting
      /\ enabled_at' = enabled_at /\ toggles' = toggles /\ drops' = drops
  BY DEF log, counts, Waiting
<1>2. CASE UNCHANGED <<state, position, signalled>>
  <2>1. /\ state' = state /\ signalled' = signalled
        /\ reply_pos' = reply_pos /\ wait_pos' = wait_pos
        /\ wait_inited' = wait_inited /\ commit_pos' = commit_pos
    BY <1>2 DEF position
  <2> QED
    BY <1>1, <2>1
    DEF IndInv, TypeOK, LogOrder, WaitersListed, NobodySleepsWhenOff,
        ReplyReceived, YesMeansReceived, CommitPos, Covered,
        NodeOrAcknowledged
<1>3. CASE master_enabled /\ reportReplyBinlog(p)
  <2> DEFINE r == IF p > reply_pos THEN p ELSE reply_pos
  <2>1. /\ state' = (state \/ try_switch_on(p)) /\ reply_pos' = r
        /\ wait_pos' = wait_pos /\ commit_pos' = commit_pos
        /\ wait_inited' \in BOOLEAN
    BY <1>3 DEF reportReplyBinlog
  <2>2. /\ signalled' \in [Session -> BOOLEAN]
        /\ \A t \in Session : signalled[t] => signalled'[t]
    <3>1. CASE UNCHANGED signalled
      BY <3>1 DEF IndInv, TypeOK
    <3>2. CASE signal_waiting_sessions_up_to(r)
      BY <3>2 DEF signal_waiting_sessions_up_to, IndInv, TypeOK
    <3> QED BY <1>3, <3>1, <3>2 DEF reportReplyBinlog
  <2>3. /\ p \in 0..MaxTrx /\ reply_pos \in 0..MaxTrx
        /\ log_end \in 0..MaxTrx /\ enabled_at \in 0..MaxTrx
        /\ commit_pos \in 0..MaxTrx /\ state \in BOOLEAN
    BY DEF IndInv, TypeOK
  <2>4. r \in 0..MaxTrx /\ r >= p /\ r >= reply_pos
    BY <2>3
  <2>5. state' \in BOOLEAN
    BY <2>1
  <2>6. TypeOK'
    BY <1>1, <2>1, <2>2, <2>4, <2>5 DEF IndInv, TypeOK
  <2>7. LogOrder'
    BY <1>1, <1>3, <2>1 DEF IndInv, LogOrder
  <2>8. WaitersListed' /\ YesMeansReceived' /\ CommitPos'
        /\ NodeOrAcknowledged'
    BY <1>1, <2>1 DEF IndInv, WaitersListed, YesMeansReceived, CommitPos,
       NodeOrAcknowledged
  <2>9. NobodySleepsWhenOff'
    <3>1. \A t \in Waiting : signalled'[t] \/ state'
      BY <2>1, <2>2 DEF IndInv, NobodySleepsWhenOff, Waiting
    <3> QED BY <1>1, <1>3, <3>1 DEF NobodySleepsWhenOff
  <2>10. ReplyReceived'
    BY <2>1, <2>3 DEF IndInv, ReplyReceived
  <2>11. Covered'
    <3> SUFFICES ASSUME state', NEW q \in enabled_at + 1..log_end
                 PROVE  reply_pos' >= q \/ \E e \in active_tranxs : e >= q
      BY <1>1 DEF Covered
    <3>1. CASE state
      BY <2>1, <2>3, <2>4, <3>1 DEF IndInv, Covered
    <3>2. CASE ~state
      <4>1. p >= log_end
        BY <1>3, <2>1, <2>3, <3>2 DEF try_switch_on, IndInv, CommitPos
      <4> QED BY <2>1, <2>3, <2>4, <4>1
    <3> QED BY <3>1, <3>2
  <2> QED BY <2>6, <2>7, <2>8, <2>9, <2>10, <2>11 DEF IndInv
<1> QED BY <1>2, <1>3 DEF reportReplyBinlog

(* Whoever switches semi-sync off wakes everybody. *)
LEMMA SwitchedOff ==
  ASSUME IndInv, switch_off(Waiting),
         \/ master_enabled' = FALSE /\ commit_pos' = 0
         \/ master_enabled' = master_enabled /\ commit_pos' = commit_pos,
         conn' \in [Slave -> {"off", "send", "reply"}],
         toggles' \in 0..MaxToggles, drops' \in 0..MaxDrops,
         UNCHANGED <<wait_pos, active_tranxs, pc, hooks, entry, yes, dead,
                     log, sent, received, abort_loop, enabled_at>>
  PROVE  IndInv'
<1>1. /\ log_end' = log_end /\ flushed' = flushed
      /\ group_ends' = group_ends /\ order_commits' = order_commits
      /\ Waiting' = Waiting /\ ~state' /\ reply_pos' = 0
      /\ state' \in BOOLEAN /\ wait_inited' \in BOOLEAN
  BY DEF log, Waiting, switch_off
<1>2. /\ \A t \in Waiting : signalled'[t]
      /\ signalled' \in [Session -> BOOLEAN]
  BY DEF switch_off, signal_waiting_sessions_all, IndInv, WaitersListed,
     Waiting
<1>3. master_enabled' \in BOOLEAN /\ commit_pos' \in 0..MaxTrx
  <2>1. master_enabled' \in BOOLEAN
    BY DEF IndInv, TypeOK
  <2>2. commit_pos' \in 0..MaxTrx
    BY DEF IndInv, TypeOK
  <2> QED BY <2>1, <2>2
<1>4. TypeOK'
  BY <1>1, <1>2, <1>3 DEF IndInv, TypeOK
<1>5. LogOrder'
  BY <1>1 DEF IndInv, LogOrder
<1>6. WaitersListed' /\ YesMeansReceived' /\ NodeOrAcknowledged'
  BY <1>1 DEF IndInv, WaitersListed, YesMeansReceived, NodeOrAcknowledged
<1>7. NobodySleepsWhenOff' /\ ReplyReceived' /\ Covered'
  BY <1>1, <1>2 DEF NobodySleepsWhenOff, ReplyReceived, Covered
<1>8. CommitPos'
  BY <1>1 DEF IndInv, CommitPos
<1> QED BY <1>4, <1>5, <1>6, <1>7, <1>8 DEF IndInv

(* The dump threads. *)
LEMMA DumpStep ==
  ASSUME IndInv, NEW s \in Slave,
         \/ SendEvent(s) \/ QueueEvent(s) \/ readSlaveReply(s)
         \/ Connect(s) \/ Disconnect(s)
  PROVE  IndInv'
<1>1. /\ sent[s] \in 0..log_end /\ received[s] \in 0..log_end
      /\ log_end \in 0..MaxTrx
      /\ conn \in [Slave -> {"off", "send", "reply"}]
      /\ sent \in [Slave -> 0..MaxTrx]
      /\ \A u \in Slave : sent[u] <= log_end
  BY DEF IndInv, TypeOK, LogOrder
<1>2. CASE SendEvent(s)
  <2>1. /\ sent[s] + 1 \in 0..log_end
        /\ sent' = [sent EXCEPT ![s] = sent[s] + 1]
        /\ UNCHANGED <<master_enabled, state, position, active_tranxs,
                       session, log, received, abort_loop, counts>>
        /\ conn' \in [Slave -> {"off", "send", "reply"}]
    BY <1>1, <1>2 DEF SendEvent
  <2>2. /\ sent' \in [Slave -> 0..MaxTrx]
        /\ \A u \in Slave : sent'[u] <= log_end
    BY <1>1, <2>1
  <2>3. UNCHANGED <<pc, hooks, entry, signalled, yes, dead>>
    BY <2>1 DEF session
  <2>4. 0 \in 0..log_end
    BY <1>1
  <2> QED BY <2>1, <2>2, <2>3, <2>4, Reported
<1>3. CASE QueueEvent(s)
  <2>1. /\ received' = [received EXCEPT ![s] = received[s] + 1]
        /\ received[s] + 1 \in 0..log_end
    BY <1>1, <1>3 DEF QueueEvent
  <2>2. /\ received' \in [Slave -> 0..MaxTrx]
        /\ \A u \in Slave : received'[u] >= received[u]
                            /\ received'[u] <= log_end
    BY <1>1, <2>1 DEF IndInv, TypeOK, LogOrder
  <2>3. /\ master_enabled' = master_enabled /\ state' = state
        /\ position' = position /\ active_tranxs' = active_tranxs
        /\ session' = session /\ log' = log /\ conn' = conn
        /\ sent' = sent /\ abort_loop' = abort_loop /\ counts' = counts
    BY <1>3 DEF QueueEvent
  <2>4. /\ reply_pos' = reply_pos /\ wait_pos' = wait_pos
        /\ wait_inited' = wait_inited /\ commit_pos' = commit_pos
        /\ pc' = pc /\ hooks' = hooks /\ entry' = entry
        /\ signalled' = signalled /\ yes' = yes /\ dead' = dead
        /\ log_end' = log_end /\ flushed' = flushed
        /\ group_ends' = group_ends /\ order_commits' = order_commits
        /\ toggles' = toggles /\ drops' = drops /\ enabled_at' = enabled_at
        /\ Waiting' = Waiting
    BY <2>3 DEF position, session, log, counts, Waiting
  <2>5. ReplyReceived' /\ YesMeansReceived'
    <3>1. /\ reply_pos \in Nat /\ yes \subseteq Nat
          /\ received \in [Slave -> Nat] /\ received' \in [Slave -> Nat]
      BY <2>2 DEF IndInv, TypeOK, Pos
    <3>2. ReplyReceived'
      BY <2>2, <2>4, <3>1 DEF IndInv, ReplyReceived
    <3>3. YesMeansReceived'
      <4> SUFFICES ASSUME NEW p \in yes
                   PROVE  \E u \in Slave : received'[u] >= p
        BY <2>4 DEF YesMeansReceived
      <4>1. PICK u \in Slave : received[u] >= p
        BY DEF IndInv, YesMeansReceived
      <4>2. p \in Nat
        BY <3>1
      <4> QED BY <2>2, <3>1, <4>1, <4>2
    <3> QED BY <3>2, <3>3
  <2>6. TypeOK' /\ LogOrder'
    BY <2>2, <2>3, <2>4 DEF IndInv, TypeOK, LogOrder
  <2> QED
    BY <2>3, <2>4, <2>5, <2>6
    DEF IndInv, WaitersListed, NobodySleepsWhenOff, CommitPos, Covered,
        NodeOrAcknowledged
<1>4. CASE readSlaveReply(s)
  <2>1. /\ reportReplyBinlog(sent[s]) /\ received[s] >= sent[s]
        /\ sent' = sent /\ conn' \in [Slave -> {"off", "send", "reply"}]
        /\ UNCHANGED <<master_enabled, active_tranxs, pc, hooks, entry, yes,
                       dead, log, received, abort_loop, counts>>
    BY <1>1, <1>4 DEF readSlaveReply, reply_arrived
  <2> QED BY <1>1, <2>1, Reported
<1>5. CASE Connect(s)
  <2>1. PICK p \in {received[s]} \cup (IF AutoPosition THEN {0} ELSE {}) :
          sent' = [sent EXCEPT ![s] = p] /\ reportReplyBinlog(p)
    BY <1>5 DEF Connect
  <2>2. p \in 0..log_end /\ (p = 0 \/ received[s] >= p)
    BY <1>1
  <2>3. /\ sent' \in [Slave -> 0..MaxTrx]
        /\ \A u \in Slave : sent'[u] <= log_end
    BY <1>1, <2>1, <2>2
  <2>4. /\ conn' \in [Slave -> {"off", "send", "reply"}]
        /\ UNCHANGED <<master_enabled, active_tranxs, pc, hooks, entry, yes,
                       dead, log, received, abort_loop, counts>>
    BY <1>1, <1>5 DEF Connect
  <2> QED BY <2>1, <2>2, <2>3, <2>4, Reported
<1>6. CASE Disconnect(s)
  <2>1. /\ drops' \in 0..MaxDrops /\ toggles' = toggles
        /\ enabled_at' = enabled_at /\ conn' \in [Slave ->
             {"off", "send", "reply"}]
        /\ UNCHANGED <<master_enabled, active_tranxs, pc, hooks, entry, yes,
                       dead, log, sent, received, abort_loop>>
    BY <1>1, <1>6 DEF Disconnect, IndInv, TypeOK
  <2>2. /\ log_end' = log_end /\ flushed' = flushed
        /\ group_ends' = group_ends /\ order_commits' = order_commits
        /\ Waiting' = Waiting
    BY <2>1 DEF log, Waiting
  <2>3. CASE UNCHANGED <<state, position, signalled>>
    BY <2>1, <2>2, <2>3
    DEF position, IndInv, TypeOK, LogOrder, WaitersListed,
        NobodySleepsWhenOff, ReplyReceived, YesMeansReceived, CommitPos,
        Covered, NodeOrAcknowledged
  <2>4. CASE switch_off(Waiting) /\ UNCHANGED <<wait_pos, commit_pos>>
    <3>1. toggles' \in 0..MaxToggles
      BY <2>1 DEF IndInv, TypeOK
    <3> QED BY <2>1, <2>4, <3>1, SwitchedOff
  <2> QED BY <1>6, <2>3, <2>4 DEF Disconnect
<1> QED BY <1>2, <1>3, <1>4, <1>5, <1>6

(* The group commit leader reports a group, and gives it a node. *)
LEMMA WriteStep ==
  ASSUME IndInv, NEW n \in 1..MaxGroup, writeTranxInBinlog(n)
  PROVE  IndInv'
<1>1. /\ log_end' = log_end + n /\ log_end' \in 0..MaxTrx
      /\ log_end' \in Pos /\ log_end \in 0..MaxTrx
      /\ log_end' > log_end /\ enabled_at \in 0..MaxTrx
      /\ enabled_at <= log_end /\ commit_pos \in 0..MaxTrx
  BY DEF writeTranxInBinlog, IndInv, TypeOK, LogOrder, Pos
<1>2. /\ master_enabled' = master_enabled /\ state' = state
      /\ reply_pos' = reply_pos /\ wait_pos' = wait_pos
      /\ wait_inited' = wait_inited /\ order_commits' = order_commits
      /\ pc' = pc /\ hooks' = hooks /\ entry' = entry
      /\ signalled' = signalled /\ yes' = yes /\ dead' = dead
      /\ conn' = conn /\ sent' = sent /\ received' = received
      /\ abort_loop' = abort_loop /\ toggles' = toggles
      /\ drops' = drops /\ enabled_at' = enabled_at /\ Waiting' = Waiting
  BY DEF writeTranxInBinlog, session, dump, counts, Waiting
<1>3. /\ flushed' = flushed \cup (log_end + 1)..log_end'
      /\ group_ends' = group_ends \cup {log_end'}
  BY DEF writeTranxInBinlog
<1>4. /\ active_tranxs \subseteq active_tranxs'
      /\ active_tranxs' \subseteq active_tranxs \cup {log_end'}
      /\ state => log_end' \in active_tranxs'
      /\ commit_pos' \in {commit_pos, log_end'}
  BY <1>1 DEF writeTranxInBinlog, largest_commit, IndInv, LogOrder
<1>5. CommitPos'
  BY <1>1, <1>2
  DEF writeTranxInBinlog, largest_commit, IndInv, CommitPos
<1>6. LogOrder'
  <2>1. flushed' \subseteq 1..log_end' /\ group_ends' \subseteq flushed'
    BY <1>1, <1>3 DEF IndInv, LogOrder
  <2>2. \A s \in Slave : sent[s] <= log_end' /\ received[s] <= log_end'
    BY <1>1 DEF IndInv, LogOrder, TypeOK
  <2>3. \A t \in Session : hooks[t] \subseteq 1..log_end'
    BY <1>1 DEF IndInv, LogOrder
  <2> QED BY <1>1, <1>2, <2>1, <2>2, <2>3 DEF IndInv, LogOrder
<1>7. TypeOK'
  <2>1. flushed' \subseteq Pos /\ group_ends' \subseteq Pos
        /\ active_tranxs' \subseteq Pos /\ commit_pos' \in 0..MaxTrx
    BY <1>1, <1>3, <1>4 DEF IndInv, TypeOK, Pos
  <2> QED BY <1>1, <1>2, <2>1 DEF IndInv, TypeOK
<1>8. Covered'
  BY <1>1, <1>2, <1>4 DEF IndInv, Covered
<1> QED
  BY <1>2, <1>4, <1>5, <1>6, <1>7, <1>8
  DEF IndInv, WaitersListed, NobodySleepsWhenOff, ReplyReceived,
      YesMeansReceived, NodeOrAcknowledged

(* A thread takes the hooks of transactions that were flushed. *)
LEMMA EnterStep ==
  ASSUME IndInv, NEW t \in Session, EnterHooks(t)
  PROVE  IndInv'
<1>1. /\ master_enabled' = master_enabled /\ state' = state
      /\ reply_pos' = reply_pos /\ wait_pos' = wait_pos
      /\ wait_inited' = wait_inited /\ commit_pos' = commit_pos
      /\ active_tranxs' = active_tranxs /\ entry' = entry
      /\ signalled' = signalled /\ yes' = yes /\ dead' = dead
      /\ log_end' = log_end /\ order_commits' = order_commits
      /\ conn' = conn /\ sent' = sent /\ received' = received
      /\ abort_loop' = abort_loop /\ toggles' = toggles
      /\ drops' = drops /\ enabled_at' = enabled_at
  BY DEF EnterHooks, position, dump, counts
<1>2. /\ pc' = [pc EXCEPT ![t] = "hook"] /\ pc[t] = "idle"
      /\ Waiting' = Waiting
  BY DEF EnterHooks, Waiting, IndInv, TypeOK
<1>3. /\ hooks' = [hooks EXCEPT ![t] = hooks'[t]]
      /\ hooks'[t] \subseteq flushed /\ hooks'[t] # {}
      /\ flushed' \subseteq flushed /\ group_ends' \subseteq flushed'
  <2>1. group_ends \subseteq flushed /\ hooks \in [Session -> SUBSET Pos]
        /\ \A g \in flushed : g <= g
    BY DEF IndInv, LogOrder, TypeOK, Pos
  <2>2. CASE order_commits
    BY <2>1, <2>2 DEF EnterHooks
  <2>3. CASE ~order_commits
    BY <2>1, <2>3 DEF EnterHooks
  <2> QED BY <2>2, <2>3
<1>4. TypeOK'
  <2>1. hooks' \in [Session -> SUBSET Pos]
    BY <1>3 DEF IndInv, TypeOK
  <2>2. pc' \in [Session -> {"idle", "hook", "wait"}]
        /\ \A u \in Session : entry[u] # 0 <=> pc'[u] = "wait"
    BY <1>2 DEF IndInv, TypeOK
  <2> QED BY <1>1, <1>3, <2>1, <2>2 DEF IndInv, TypeOK
<1>5. LogOrder'
  <2>1. \A u \in Session : /\ hooks'[u] \subseteq 1..log_end
                           /\ pc'[u] # "idle" => hooks'[u] # {}
    BY <1>2, <1>3 DEF IndInv, LogOrder, TypeOK
  <2> QED BY <1>1, <1>3, <2>1 DEF IndInv, LogOrder
<1>6. WaitersListed'
  BY <1>1, <1>2, <1>3 DEF IndInv, WaitersListed, Waiting, TypeOK
<1> QED
  BY <1>1, <1>2, <1>4, <1>5, <1>6
  DEF IndInv, NobodySleepsWhenOff, ReplyReceived, YesMeansReceived,
      CommitPos, Covered, NodeOrAcknowledged

(* The administrator. *)
LEMMA AdminStep ==
  ASSUME IndInv, enableMaster \/ disableMaster \/ Shutdown
  PROVE  IndInv'
<1>1. CASE enableMaster
  <2>1. /\ master_enabled' = TRUE /\ state' = TRUE /\ reply_pos' = 0
        /\ commit_pos' = 0 /\ wait_inited' = FALSE
        /\ toggles' \in 0..MaxToggles /\ enabled_at' = log_end
        /\ wait_pos' = wait_pos /\ active_tranxs' = active_tranxs
        /\ drops' = drops /\ abort_loop' = abort_loop
    BY <1>1 DEF enableMaster, IndInv, TypeOK
  <2>2. /\ pc' = pc /\ hooks' = hooks /\ entry' = entry
        /\ signalled' = signalled /\ yes' = yes /\ dead' = dead
        /\ log_end' = log_end /\ flushed' = flushed
        /\ group_ends' = group_ends /\ order_commits' = order_commits
        /\ conn' = conn /\ sent' = sent /\ received' = received
        /\ Waiting' = Waiting
    BY <1>1 DEF enableMaster, session, log, dump, Waiting
  <2>3. log_end \in 0..MaxTrx /\ enabled_at <= log_end /\ dead <= enabled_at
        /\ dead \in 0..MaxTrx /\ enabled_at \in 0..MaxTrx
    BY DEF IndInv, TypeOK, LogOrder, NodeOrAcknowledged
  <2>4. master_enabled' \in BOOLEAN /\ state' \in BOOLEAN
        /\ wait_inited' \in BOOLEAN
    BY <2>1
  <2>5. TypeOK'
    BY <2>1, <2>2, <2>3, <2>4 DEF IndInv, TypeOK
  <2> QED
    BY <2>1, <2>2, <2>3, <2>5
    DEF IndInv, LogOrder, WaitersListed, NobodySleepsWhenOff, ReplyReceived,
        YesMeansReceived, CommitPos, Covered, NodeOrAcknowledged
<1>2. CASE disableMaster
  <2>1. /\ master_enabled /\ master_enabled' = FALSE
        /\ switch_off(Waiting) /\ commit_pos' = 0
        /\ toggles' \in 0..MaxToggles /\ drops' \in 0..MaxDrops
        /\ conn' \in [Slave -> {"off", "send", "reply"}]
    BY <1>2 DEF disableMaster, dump, IndInv, TypeOK
  <2>2. UNCHANGED <<wait_pos, active_tranxs, pc, hooks, entry, yes, dead,
                    log, sent, received, abort_loop, enabled_at>>
    BY <1>2 DEF disableMaster, dump
  <2> QED BY <2>1, <2>2, SwitchedOff
<1>3. CASE Shutdown
  <2>1. /\ abort_loop' \in 0..2
        /\ UNCHANGED <<master_enabled, state, position, active_tranxs, pc,
                       hooks, entry, yes, dead, log, dump, counts>>
        /\ signalled' \in [Session -> BOOLEAN]
        /\ \A t \in Waiting : signalled[t] => signalled'[t]
    BY <1>3 DEF Shutdown, IndInv, TypeOK, Waiting
  <2> QED
    BY <2>1
    DEF position, log, dump, counts, IndInv, TypeOK, LogOrder, WaitersListed,
        NobodySleepsWhenOff, ReplyReceived, YesMeansReceived, CommitPos,
        Covered, NodeOrAcknowledged, Waiting
<1> QED BY <1>1, <1>2, <1>3

(* IndInv is inductive. *)
THEOREM SemiSyncInvariant == Spec => []IndInv
<1>1. Init => IndInv
  <2> SUFFICES ASSUME Init PROVE IndInv
    OBVIOUS
  <2>1. TypeOK
    <3>1. /\ master_enabled \in BOOLEAN /\ state \in BOOLEAN
          /\ wait_inited \in BOOLEAN /\ order_commits \in BOOLEAN
          /\ signalled \in [Session -> BOOLEAN]
      BY SemiSyncAssumption DEF Init
    <3>2. /\ pc \in [Session -> {"idle", "hook", "wait"}]
          /\ conn \in [Slave -> {"off", "send", "reply"}]
          /\ \A t \in Session : entry[t] # 0 <=> pc[t] = "wait"
      BY DEF Init
    <3>3. /\ hooks \in [Session -> SUBSET Pos] /\ active_tranxs \subseteq Pos
          /\ flushed \subseteq Pos /\ group_ends \subseteq Pos
          /\ yes \subseteq Pos
      BY DEF Init
    <3>4. /\ {reply_pos, wait_pos, commit_pos, log_end, dead}
               \subseteq 0..MaxTrx
          /\ entry \in [Session -> 0..MaxTrx] /\ abort_loop \in 0..2
          /\ sent \in [Slave -> 0..MaxTrx]
          /\ received \in [Slave -> 0..MaxTrx] /\ enabled_at \in 0..MaxTrx
          /\ toggles \in 0..MaxToggles /\ drops \in 0..MaxDrops
      BY DEF Init
    <3> QED BY <3>1, <3>2, <3>3, <3>4 DEF TypeOK
  <2>2. Waiting = {}
    BY DEF Init, Waiting
  <2> QED
    BY <2>1, <2>2
    DEF Init, IndInv, LogOrder, WaitersListed, NobodySleepsWhenOff,
        ReplyReceived, YesMeansReceived, CommitPos, Covered,
        NodeOrAcknowledged
<1>2. IndInv /\ [Next]_vars => IndInv'
  <2> SUFFICES ASSUME IndInv, [Next]_vars PROVE IndInv'
    OBVIOUS
  <2>1. ASSUME NEW t \in Session, dead = 0,
               commitTrx(t) \/ Wake(t) \/ Timeout(t)
        PROVE  IndInv'
    BY <2>1, HookCases, HookTypes, HookSleepers, HookCounts DEF IndInv
  <2>2. ASSUME NEW t \in Session, EnterHooks(t) PROVE IndInv'
    BY <2>2, EnterStep
  <2>3. ASSUME NEW s \in Slave, Replication(s) \/ Disconnect(s)
        PROVE  IndInv'
    BY <2>3, DumpStep DEF Replication
  <2>4. ASSUME NEW n \in 1..MaxGroup, writeTranxInBinlog(n) PROVE IndInv'
    BY <2>4, WriteStep
  <2>5. CASE enableMaster \/ disableMaster \/ Shutdown
    BY <2>5, AdminStep
  <2>6. CASE UNCHANGED vars
    BY <2>6
    DEF vars, position, session, log, dump, counts, IndInv, TypeOK, LogOrder,
        WaitersListed, NobodySleepsWhenOff, ReplyReceived, YesMeansReceived,
        CommitPos, Covered, NodeOrAcknowledged, Waiting
  <2> QED BY <2>1, <2>2, <2>3, <2>4, <2>5, <2>6 DEF Next, Hooks
<1> QED BY <1>1, <1>2, PTL DEF Spec

(* Every variable has its type, and who sleeps, and nobody else, has a     *)
(* node.                                                                   *)
THEOREM SemiSyncTypeOK == Spec => []TypeOK
<1>1. IndInv => TypeOK
  BY DEF IndInv
<1> QED BY <1>1, SemiSyncInvariant, PTL

(* A commit that commitTrx counts as replicated has reached a slave. *)
THEOREM SemiSyncYesMeansReceived == Spec => []YesMeansReceived
<1>1. IndInv => YesMeansReceived
  BY DEF IndInv
<1> QED BY <1>1, SemiSyncInvariant, PTL

(* No node is taken off the list while a session sleeps on its condition. *)
THEOREM SemiSyncWaitersListed == Spec => []WaitersListed
<1>1. IndInv => WaitersListed
  BY DEF IndInv
<1> QED BY <1>1, SemiSyncInvariant, PTL

(* commitTrx fails to find a node only for a transaction that was written  *)
(* before semi-sync was enabled.                                           *)
THEOREM SemiSyncNodeOrAcknowledged == Spec => []NodeOrAcknowledged
<1>1. IndInv => NodeOrAcknowledged
  BY DEF IndInv
<1> QED BY <1>1, SemiSyncInvariant, PTL

(* switch_off leaves nobody asleep. *)
THEOREM SemiSyncNobodySleepsWhenOff == Spec => []NobodySleepsWhenOff
<1>1. IndInv => NobodySleepsWhenOff
  BY DEF IndInv
<1> QED BY <1>1, SemiSyncInvariant, PTL

===========================================================================
