------------------------- MODULE GroupCommitProofs -------------------------
(***************************************************************************)
(* Proofs about GroupCommit for any number of sessions, any bounds and any *)
(* options.  IndInv is the inductive invariant: PipeInv says where the     *)
(* sessions of the pipeline are, XidCount what m_prep_xids counts, and the *)
(* two together keep m_prep_xids a natural number, which TypeOK asks for.  *)
(*                                                                         *)
(* The module goes from sequences as queues, over what one action does to  *)
(* PipeInv, to XidCount and to the types, and ends with the theorems.      *)
(***************************************************************************)
EXTENDS GroupCommit, FiniteSetTheorems, SequenceTheorems, TLAPS

Distinct(q) == \A i, j \in 1..Len(q) : q[i] = q[j] => i = j

Committing == {"lock_log", "flush", "flush_rest", "flushed", "enter_sync",
               "lock_sync", "sync", "enter_commit", "lock_commit", "commit",
               "sync_error", "signal", "follower"}

(* Who waits is in ordered_commit. *)
PendingCommits == \A u \in Session : pending[u] => pc[u] \in Committing

(* Only the loops over a fetched queue have something left to do; the      *)
(* COMMIT loop keeps the whole group in final_queue.                       *)
LoopState ==
  \A t \in Session :
    /\ todo[t] # <<>> <=> pc[t] \in {"flush_rest", "commit"}
    /\ pc[t] = "commit" => Elems(todo[t]) \subseteq Elems(final_queue[t])

(* A leader is a member of the group it leads. *)
OwnGroup ==
  \A t \in Session :
    /\ pc[t] = "lock_log" => t \in Elems(m_queue["FLUSH"])
    /\ pc[t] = "flush" =>
         t \in Elems(m_queue["FLUSH"]) \cup Elems(final_queue[t])
    /\ pc[t] = "flush_rest" => t \in Holds(t)
    /\ pc[t] \in {"flushed", "enter_sync", "sync", "enter_commit", "commit",
                  "sync_error", "signal"} => t \in Elems(final_queue[t])
    /\ pc[t] = "lock_sync" => t \in Elems(m_queue["SYNC"])
    /\ pc[t] = "lock_commit" => t \in Elems(m_queue["COMMIT"])

(* The flush loops meet every session once ... *)
FlushDistinct ==
  /\ Distinct(m_queue["FLUSH"])
  /\ \A t \in Session : pc[t] = "flush_rest" => Distinct(todo[t])

(* ... and before its XID is written. *)
Unflushed(u) == \/ u \in Elems(m_queue["FLUSH"])
                \/ \E t \in Session : pc[t] = "flush_rest" /\ u \in Elems(todo[t])
                \/ pc[u] \notin Committing \cup {"finish"}
FlushOnce == \A u \in Session : Unflushed(u) => ~xid_written[u]

XidCount == m_prep_xids = Cardinality({u \in Session : xid_written[u]})

(* The pipeline: who is where. *)
PipeInv == /\ OnePlace /\ OneLeader /\ PendingCommits /\ LoopState /\ OwnGroup
           /\ FlushDistinct

IndInv == TypeOK /\ PipeInv /\ FlushOnce /\ XidCount

(***************************************************************************)
(* Sequences.                                                              *)
(***************************************************************************)

(* The elements of the empty queue. *)
LEMMA ElemsEmpty == Elems(<<>>) = {}
BY DEF Elems

(* The elements of a queue are sessions, and only the empty one has none. *)
LEMMA ElemsType ==
  ASSUME NEW S, NEW q \in Seq(S)
  PROVE  Elems(q) \subseteq S /\ (Elems(q) = {} <=> q = <<>>)
BY DEF Elems

(* append puts one queue behind another. *)
LEMMA ElemsConcat ==
  ASSUME NEW S, NEW p \in Seq(S), NEW q \in Seq(S)
  PROVE  p \o q \in Seq(S) /\ Elems(p \o q) = Elems(p) \cup Elems(q)
<1>1. p \o q \in Seq(S) /\ Len(p \o q) = Len(p) + Len(q)
  OBVIOUS
<1>2. ASSUME NEW x \in Elems(p \o q) PROVE x \in Elems(p) \cup Elems(q)
  BY <1>1 DEF Elems
<1>3. ASSUME NEW x \in Elems(p) PROVE x \in Elems(p \o q)
  <2>1. PICK i \in 1..Len(p) : x = p[i]
    BY DEF Elems
  <2>2. (p \o q)[i] = x /\ i \in 1..Len(p \o q)
    BY <1>1, <2>1
  <2> QED BY <2>2 DEF Elems
<1>4. ASSUME NEW x \in Elems(q) PROVE x \in Elems(p \o q)
  <2>1. PICK i \in 1..Len(q) : x = q[i]
    BY DEF Elems
  <2>2. (p \o q)[Len(p) + i] = x /\ Len(p) + i \in 1..Len(p \o q)
    BY <1>1, <2>1
  <2> QED BY <2>2 DEF Elems
<1> QED BY <1>1, <1>2, <1>3, <1>4

(* Adding one session at the end. *)
LEMMA ElemsAppend ==
  ASSUME NEW S, NEW q \in Seq(S), NEW x \in S
  PROVE  /\ Append(q, x) \in Seq(S)
         /\ Append(q, x) = q \o <<x>>
         /\ q \o <<x>> # <<>>
         /\ Elems(q \o <<x>>) = Elems(q) \cup {x}
<1>1. Append(q, x) = q \o <<x>> /\ <<x>> \in Seq(S)
  OBVIOUS
<1>2. Elems(<<x>>) = {x}
  BY DEF Elems
<1>3. Elems(q \o <<x>>) = Elems(q) \cup Elems(<<x>>)
  BY <1>1, ElemsConcat
<1>4. q \o <<x>> \in Seq(S) /\ q \o <<x>> # <<>>
  BY <1>1
<1> QED BY <1>1, <1>2, <1>3, <1>4

(* pop_front splits a queue into its head and the rest. *)
LEMMA ElemsHeadTail ==
  ASSUME NEW S, NEW q \in Seq(S), q # <<>>
  PROVE  /\ Head(q) \in S /\ Tail(q) \in Seq(S)
         /\ Elems(q) = {Head(q)} \cup Elems(Tail(q))
         /\ Len(q) > 1 <=> Tail(q) # <<>>
<1>1. /\ Len(q) \in Nat \ {0} /\ Head(q) = q[1] /\ Tail(q) \in Seq(S)
      /\ Len(Tail(q)) = Len(q) - 1
      /\ \A i \in 1..Len(q) - 1 : Tail(q)[i] = q[i + 1]
  OBVIOUS
<1>2. Head(q) \in S /\ Head(q) \in Elems(q)
  BY <1>1 DEF Elems
<1>3. Len(q) > 1 <=> Tail(q) # <<>>
  <2>1. Tail(q) = <<>> <=> Len(Tail(q)) = 0
    BY <1>1, EmptySeq
  <2> QED BY <1>1, <2>1
<1>4. ASSUME NEW x \in Elems(Tail(q)) PROVE x \in Elems(q)
  <2>1. PICK i \in 1..Len(q) - 1 : x = q[i + 1]
    BY <1>1 DEF Elems
  <2>2. i + 1 \in 1..Len(q)
    BY <1>1
  <2> QED BY <2>1, <2>2 DEF Elems
<1>5. ASSUME NEW x \in Elems(q), x # Head(q) PROVE x \in Elems(Tail(q))
  <2>1. PICK i \in 1..Len(q) : x = q[i]
    BY DEF Elems
  <2>2. i # 1 /\ i - 1 \in 1..Len(Tail(q)) /\ Tail(q)[i - 1] = x
    BY <1>1, <1>5, <2>1
  <2> QED BY <2>2 DEF Elems
<1> QED BY <1>1, <1>2, <1>3, <1>4, <1>5

(* A queue without repetition stays one when its head is taken away ... *)
LEMMA DistinctTail ==
  ASSUME NEW S, NEW q \in Seq(S), q # <<>>, Distinct(q)
  PROVE  Distinct(Tail(q)) /\ Head(q) \notin Elems(Tail(q))
<1>1. /\ Len(q) \in Nat \ {0} /\ Head(q) = q[1]
      /\ Len(Tail(q)) = Len(q) - 1
      /\ \A i \in 1..Len(q) - 1 : Tail(q)[i] = q[i + 1]
  OBVIOUS
<1>2. ASSUME NEW i \in 1..Len(q) - 1, NEW j \in 1..Len(q) - 1,
             Tail(q)[i] = Tail(q)[j]
      PROVE  i = j
  <2>1. i + 1 \in 1..Len(q) /\ j + 1 \in 1..Len(q) /\ q[i + 1] = q[j + 1]
    BY <1>1, <1>2
  <2> QED BY <2>1 DEF Distinct
<1>3. ASSUME NEW i \in 1..Len(q) - 1 PROVE Tail(q)[i] # Head(q)
  <2>1. i + 1 \in 1..Len(q) /\ 1 \in 1..Len(q) /\ i + 1 # 1
    BY <1>1
  <2> QED BY <1>1, <2>1 DEF Distinct
<1> QED BY <1>1, <1>2, <1>3 DEF Distinct, Elems

(* ... and when a session that is not in it joins at the end. *)
LEMMA DistinctAppend ==
  ASSUME NEW S, NEW q \in Seq(S), Distinct(q), NEW x \in S, x \notin Elems(q)
  PROVE  Distinct(q \o <<x>>)
<1>1. /\ Len(q \o <<x>>) = Len(q) + 1 /\ Len(q) \in Nat
      /\ \A i \in 1..Len(q) : (q \o <<x>>)[i] = q[i]
      /\ (q \o <<x>>)[Len(q) + 1] = x
  OBVIOUS
<1>2. \A i \in 1..Len(q) : q[i] # x
  BY DEF Elems
<1> QED BY <1>1, <1>2 DEF Distinct

(***************************************************************************)
(* Steps that move no session between queues.                              *)
(***************************************************************************)

(* Where a session may go without taking anybody along. *)
QuietMove(a, b) ==
  \/ {a, b} \cap (Committing \cup {"finish"}) = {}
  \/ a = "lock_log" /\ b = "flush"
  \/ a = "flushed" /\ b = "enter_sync"
  \/ a = "sync" /\ b = "enter_commit"
  \/ a = "enter_commit" /\ b \in {"sync_error", "signal"}
  \/ a = "sync_error" /\ b = "signal"
  \/ a \in {"finish", "follower"} /\ b \in {"idle", "rotate"}

(* Such a step keeps everybody in place; one that ends a commit must be    *)
(* the step of a session that no longer waits.                             *)
LEMMA QuietStep ==
  ASSUME PipelineTypeOK, PipeInv, NEW t \in Session, NEW b \in Label,
         UNCHANGED <<m_queue, final_queue, todo, pending>>,
         pc' = [pc EXCEPT ![t] = b], QuietMove(pc[t], b),
         pc[t] = "follower" => ~pending[t]
  PROVE  PipeInv'
<1> USE DEF PipeInv
<1>0. \A u \in Session : Holds(u)' = Holds(u)
  BY DEF Holds
<1>1. /\ pc \in [Session -> Label] /\ pc'[t] = b
      /\ \A u \in Session : u # t => pc'[u] = pc[u]
  BY DEF PipelineTypeOK
<1>2. \A s \in Stage, u \in Session : Leads(s, u)' <=> Leads(s, u)
  BY <1>1 DEF Leads, QuietMove, Committing
<1>3. OneLeader'
  BY <1>2 DEF OneLeader
<1>4. OnePlace'
  <2>1. \A u, v \in Session : u \in Holds(v) => pc'[v] \in Holding
    <3>1. pc[t] \in Holding => b \in Holding
      BY DEF QuietMove, Committing, Holding
    <3> QED BY <1>1, <3>1 DEF OnePlace, HoldersWork
  <2>2. HoldersWork'
    BY <1>0, <2>1 DEF HoldersWork
  <2>3. (WaitingIsPlaced /\ NotInTwoQueues /\ NotQueuedAndHeld /\ NotHeldTwice)'
    BY <1>0 DEF OnePlace, WaitingIsPlaced, NotInTwoQueues, NotQueuedAndHeld,
                NotHeldTwice
  <2> QED BY <2>2, <2>3 DEF OnePlace
<1>5. PendingCommits'
  BY <1>1 DEF PendingCommits, QuietMove, Committing
<1>6. LoopState'
  BY <1>1 DEF LoopState, QuietMove, Committing
<1>7. OwnGroup'
  BY <1>0, <1>1 DEF OwnGroup, QuietMove, Committing
<1>8. FlushDistinct'
  BY <1>1 DEF FlushDistinct, QuietMove, Committing
<1> QED BY <1>3, <1>4, <1>5, <1>6, <1>7, <1>8

(***************************************************************************)
(* Steps that move sessions between queues.                                *)
(***************************************************************************)

(* A session that does not wait is nowhere. *)
LEMMA NotPlaced ==
  ASSUME OnePlace, NEW u \in Session, ~pending[u]
  PROVE  /\ \A s \in Stage : u \notin Elems(m_queue[s])
         /\ \A t \in Session : u \notin Holds(t)
BY DEF OnePlace, WaitingIsPlaced

(* A session that is not at work as a leader holds nobody. *)
LEMMA HoldsNobody ==
  ASSUME PipelineTypeOK, OnePlace, NEW t \in Session, pc[t] \notin Holding
  PROVE  Elems(final_queue[t]) = {} /\ Elems(todo[t]) = {} /\ Holds(t) = {}
<1>1. final_queue[t] \in Seq(Session) /\ todo[t] \in Seq(Session)
  BY DEF PipelineTypeOK
<1>2. Holds(t) \subseteq Session
  BY <1>1, ElemsType DEF Holds
<1> QED BY <1>2 DEF OnePlace, HoldersWork, Holds

(* Sessions outside M stay where they are. *)
OthersStay(M) ==
  \A u \in Session \ M :
    /\ pending'[u] = pending[u]
    /\ \A s \in Stage : u \in Elems(m_queue'[s]) <=> u \in Elems(m_queue[s])
    /\ \A t \in Session : u \in Holds(t)' <=> u \in Holds(t)

(* The sessions of M end up in the queue of stage d ... *)
LEMMA ToQueue ==
  ASSUME OnePlace, NEW M, OthersStay(M), HoldersWork', NEW d \in Stage,
         \A u \in Session \cap M :
           /\ pending'[u]
           /\ \A s \in Stage : u \in Elems(m_queue'[s]) <=> s = d
           /\ \A t \in Session : ~(u \in Holds(t)')
  PROVE  OnePlace'
<1>1. WaitingIsPlaced'
  BY DEF OnePlace, WaitingIsPlaced, OthersStay
<1>2. NotInTwoQueues'
  BY DEF OnePlace, NotInTwoQueues, OthersStay
<1>3. NotQueuedAndHeld'
  BY DEF OnePlace, NotQueuedAndHeld, OthersStay
<1>4. NotHeldTwice'
  BY DEF OnePlace, NotHeldTwice, OthersStay
<1> QED BY <1>1, <1>2, <1>3, <1>4 DEF OnePlace

(* ... or in the hands of session h ... *)
LEMMA ToHands ==
  ASSUME OnePlace, NEW M, OthersStay(M), HoldersWork', NEW h \in Session,
         \A u \in Session \cap M :
           /\ pending'[u]
           /\ \A s \in Stage : u \notin Elems(m_queue'[s])
           /\ \A t \in Session : u \in Holds(t)' <=> t = h
  PROVE  OnePlace'
<1>1. WaitingIsPlaced'
  BY DEF OnePlace, WaitingIsPlaced, OthersStay
<1>2. NotInTwoQueues'
  BY DEF OnePlace, NotInTwoQueues, OthersStay
<1>3. NotQueuedAndHeld'
  BY DEF OnePlace, NotQueuedAndHeld, OthersStay
<1>4. NotHeldTwice'
  BY DEF OnePlace, NotHeldTwice, OthersStay
<1> QED BY <1>1, <1>2, <1>3, <1>4 DEF OnePlace

(* ... or nowhere, and wait no longer. *)
LEMMA ToNowhere ==
  ASSUME OnePlace, NEW M, OthersStay(M), HoldersWork',
         \A u \in Session \cap M :
           /\ ~pending'[u]
           /\ \A s \in Stage : u \notin Elems(m_queue'[s])
           /\ \A t \in Session : ~(u \in Holds(t)')
  PROVE  OnePlace'
<1>1. WaitingIsPlaced'
  BY DEF OnePlace, WaitingIsPlaced, OthersStay
<1>2. NotInTwoQueues'
  BY DEF OnePlace, NotInTwoQueues, OthersStay
<1>3. NotQueuedAndHeld'
  BY DEF OnePlace, NotQueuedAndHeld, OthersStay
<1>4. NotHeldTwice'
  BY DEF OnePlace, NotHeldTwice, OthersStay
<1> QED BY <1>1, <1>2, <1>3, <1>4 DEF OnePlace

(* A session joins the FLUSH queue. *)
LEMMA EnrollFlushPipe ==
  ASSUME PipelineTypeOK, PipeInv, NEW t \in Session, EnrollFlush(t)
  PROVE  PipeInv'
<1> USE DEF PipeInv
<1>1. /\ pc[t] = "prepared" /\ pc'[t] \in {"lock_log", "follower"}
      /\ pc'[t] = "lock_log" <=> m_queue["FLUSH"] = <<>>
      /\ \A u \in Session : u # t => pc'[u] = pc[u]
      /\ pending'[t] /\ \A u \in Session : u # t => pending'[u] = pending[u]
      /\ m_queue'["FLUSH"] = m_queue["FLUSH"] \o <<t>>
      /\ \A s \in Stage : s # "FLUSH" => m_queue'[s] = m_queue[s]
      /\ final_queue' = final_queue /\ todo' = todo
      /\ m_queue["FLUSH"] \in Seq(Session)
  BY DEF EnrollFlush, enroll_for, Goto, PipelineTypeOK, Stage
<1>2. /\ Elems(m_queue'["FLUSH"]) = Elems(m_queue["FLUSH"]) \cup {t}
      /\ m_queue'["FLUSH"] # <<>>
  BY <1>1, ElemsAppend
<1>3. \A u \in Session : Holds(u)' = Holds(u)
  BY <1>1 DEF Holds
<1>4. /\ \A s \in Stage : t \notin Elems(m_queue[s])
      /\ \A u \in Session : t \notin Holds(u)
      /\ Holds(t) = {}
  <2>1. ~pending[t]
    BY <1>1 DEF PendingCommits, Committing
  <2> QED BY <1>1, <2>1, NotPlaced, HoldsNobody DEF Holding
<1>5. OnePlace'
  <2>1. \A s \in Stage, u \in Session : u # t =>
          (u \in Elems(m_queue'[s]) <=> u \in Elems(m_queue[s]))
    <3> TAKE s \in Stage, u \in Session
    <3>1. CASE s = "FLUSH"
      BY <1>2, <3>1
    <3>2. CASE s # "FLUSH"
      BY <1>1, <3>2
    <3> QED BY <3>1, <3>2
  <2>2. \A s \in Stage : t \in Elems(m_queue'[s]) <=> s = "FLUSH"
    BY <1>1, <1>2, <1>4
  <2>3. OthersStay({t})
    BY <1>1, <1>3, <2>1 DEF OthersStay
  <2>4. HoldersWork'
    BY <1>1, <1>3, <1>4 DEF OnePlace, HoldersWork
  <2>5. \A u \in Session : ~(t \in Holds(u)')
    BY <1>3, <1>4
  <2>6. "FLUSH" \in Stage
    BY DEF Stage
  <2> HIDE DEF PipeInv
  <2>7. \A u \in Session \cap {t} :
           /\ pending'[u]
           /\ \A s \in Stage : u \in Elems(m_queue'[s]) <=> s = "FLUSH"
           /\ \A v \in Session : ~(u \in Holds(v)')
    BY <1>1, <2>2, <2>5
  <2> QED BY <2>3, <2>4, <2>6, <2>7, ToQueue DEF PipeInv
<1>6. OneLeader'
  <2> SUFFICES ASSUME NEW s \in Stage
               PROVE  /\ m_queue'[s] # <<>> <=> \E u \in Session : Leads(s, u)'
                      /\ \A u, v \in Session :
                           Leads(s, u)' /\ Leads(s, v)' => u = v
    BY DEF OneLeader
  <2>1. /\ \A u \in Session : u # t => (Leads(s, u)' <=> Leads(s, u))
        /\ ~Leads(s, t)
        /\ Leads(s, t)' <=> s = "FLUSH" /\ m_queue["FLUSH"] = <<>>
    BY <1>1 DEF Leads, Stage
  <2>2. m_queue'[s] # <<>> <=> m_queue[s] # <<>> \/ s = "FLUSH"
    BY <1>1, <1>2
  <2> QED BY <2>1, <2>2 DEF OneLeader
<1>7. PendingCommits'
  BY <1>1 DEF PendingCommits, Committing
<1>8. LoopState'
  BY <1>1 DEF LoopState
<1>9. OwnGroup'
  BY <1>1, <1>2, <1>3 DEF OwnGroup, Stage
<1>10. FlushDistinct'
  BY <1>1, <1>4, DistinctAppend DEF FlushDistinct, Stage
<1> QED BY <1>5, <1>6, <1>7, <1>8, <1>9, <1>10

(* The leader of stage d takes its whole queue: fetch_queue_for. *)
LEMMA FetchPipe ==
  ASSUME PipelineTypeOK, PipeInv, NEW t \in Session, NEW d \in Stage,
         NEW b \in {"sync", "enter_commit", "commit"},
         Leads(d, t), pc[t] # "flush", pc' = [pc EXCEPT ![t] = b],
         fetch_queue_for(t, d), pending' = pending,
         todo' = IF b = "commit" THEN [todo EXCEPT ![t] = m_queue[d]] ELSE todo
  PROVE  PipeInv'
<1> USE DEF PipeInv
<1>1. /\ pc'[t] = b /\ \A u \in Session : u # t => pc'[u] = pc[u]
      /\ m_queue[d] \in Seq(Session) /\ m_queue'[d] = <<>>
      /\ \A s \in Stage : s # d => m_queue'[s] = m_queue[s]
      /\ final_queue'[t] = m_queue[d]
      /\ \A u \in Session : u # t => final_queue'[u] = final_queue[u]
      /\ \A u \in Session : u # t => todo'[u] = todo[u]
      /\ todo'[t] = IF b = "commit" THEN m_queue[d] ELSE todo[t]
  BY DEF PipelineTypeOK, fetch_queue_for
<1>2. /\ Elems(m_queue'[d]) = {}
      /\ Elems(final_queue[t]) = {} /\ Elems(todo[t]) = {} /\ Holds(t) = {}
  <2>1. pc[t] \notin Holding
    BY DEF Leads, Holding
  <2> QED BY <1>1, <2>1, ElemsEmpty, HoldsNobody
<1>3. /\ Holds(t)' = Elems(m_queue[d])
      /\ \A u \in Session : u # t => Holds(u)' = Holds(u)
  BY <1>1, <1>2 DEF Holds
<1>4. OnePlace'
  <2>1. OthersStay(Elems(m_queue[d]))
    <3>1. \A s \in Stage, u \in Session \ Elems(m_queue[d]) :
            u \in Elems(m_queue'[s]) <=> u \in Elems(m_queue[s])
      <4> TAKE s \in Stage, u \in Session \ Elems(m_queue[d])
      <4>1. CASE s = d
        BY <1>2, <4>1
      <4>2. CASE s # d
        BY <1>1, <4>2
      <4> QED BY <4>1, <4>2
    <3>2. \A v \in Session, u \in Session \ Elems(m_queue[d]) :
            u \in Holds(v)' <=> u \in Holds(v)
      BY <1>2, <1>3
    <3> QED BY <3>1, <3>2 DEF OthersStay
  <2>2. HoldersWork'
    BY <1>1, <1>3 DEF OnePlace, HoldersWork, Holding
  <2>3. \A u \in Session \cap Elems(m_queue[d]) :
           /\ pending'[u]
           /\ \A s \in Stage : u \notin Elems(m_queue'[s])
           /\ \A v \in Session : u \in Holds(v)' <=> v = t
    <3> TAKE u \in Session \cap Elems(m_queue[d])
    <3>1. pending'[u]
      BY DEF OnePlace, WaitingIsPlaced
    <3>2. ASSUME NEW s \in Stage PROVE u \notin Elems(m_queue'[s])
      <4>1. CASE s = d
        BY <1>2, <4>1
      <4>2. CASE s # d
        BY <1>1, <4>2 DEF OnePlace, NotInTwoQueues
      <4> QED BY <4>1, <4>2
    <3>3. \A v \in Session : u \in Holds(v)' <=> v = t
      BY <1>3 DEF OnePlace, NotQueuedAndHeld
    <3> QED BY <3>1, <3>2, <3>3
  <2> QED BY <2>1, <2>2, <2>3, ToHands
<1>5. OneLeader'
  <2>1. \A u \in Session : ~Leads(d, u)'
    BY <1>1 DEF Leads, OneLeader
  <2>2. \A s \in Stage, u \in Session : s # d => (Leads(s, u)' <=> Leads(s, u))
    BY <1>1 DEF Leads
  <2> QED BY <1>1, <2>1, <2>2 DEF OneLeader
<1>6. PendingCommits'
  BY <1>1 DEF PendingCommits, Committing
<1>7. LoopState'
  <2>1. m_queue[d] # <<>>
    BY DEF OneLeader
  <2>2. todo[t] = <<>>
    BY DEF LoopState, Leads
  <2> QED BY <1>1, <2>1, <2>2 DEF LoopState
<1>8. OwnGroup'
  <2>1. t \in Elems(m_queue[d])
    BY DEF OwnGroup, Leads
  <2>2. \A u \in Session : u # t => ~Leads(d, u)
    BY DEF OneLeader
  <2> QED BY <1>1, <1>3, <2>1, <2>2 DEF OwnGroup, Leads, Stage
<1>9. FlushDistinct'
  <2>1. Distinct(<<>>)
    BY DEF Distinct
  <2>2. Distinct(m_queue'["FLUSH"])
    BY <1>1, <2>1 DEF FlushDistinct, Stage
  <2> QED BY <1>1, <2>2 DEF FlushDistinct
<1> QED BY <1>4, <1>5, <1>6, <1>7, <1>8, <1>9

(* A leader hands its group over to the next stage: enroll_for. *)
LEMMA EnrollPipe ==
  ASSUME PipelineTypeOK, PipeInv, NEW t \in Session, NEW d \in Stage, NEW b,
         \/ pc[t] = "enter_sync" /\ d = "SYNC" /\ b = "lock_sync"
         \/ pc[t] = "enter_commit" /\ d = "COMMIT" /\ b = "lock_commit",
         enroll_for(t, d, final_queue[t], b),
         final_queue' = [final_queue EXCEPT ![t] = <<>>],
         todo' = todo, pending' = pending
  PROVE  PipeInv'
<1> USE DEF PipeInv
<1>1. /\ pc[t] \in {"enter_sync", "enter_commit"} /\ d \in {"SYNC", "COMMIT"}
      /\ pc'[t] \in {"lock_sync", "lock_commit", "follower"}
      /\ pc'[t] = "lock_sync" <=> d = "SYNC" /\ m_queue[d] = <<>>
      /\ pc'[t] = "lock_commit" <=> d = "COMMIT" /\ m_queue[d] = <<>>
      /\ \A u \in Session : u # t => pc'[u] = pc[u]
      /\ m_queue[d] \in Seq(Session) /\ final_queue[t] \in Seq(Session)
      /\ m_queue'[d] = m_queue[d] \o final_queue[t]
      /\ \A s \in Stage : s # d => m_queue'[s] = m_queue[s]
      /\ final_queue'[t] = <<>>
      /\ \A u \in Session : u # t => final_queue'[u] = final_queue[u]
  BY DEF PipelineTypeOK, enroll_for, Goto
<1>2. /\ Elems(m_queue'[d]) = Elems(m_queue[d]) \cup Elems(final_queue[t])
      /\ t \in Elems(final_queue[t])
      /\ m_queue'[d] # <<>>
  <2>1. Elems(m_queue'[d]) = Elems(m_queue[d]) \cup Elems(final_queue[t])
    BY <1>1, ElemsConcat
  <2>2. t \in Elems(final_queue[t])
    BY DEF OwnGroup
  <2> QED BY <2>1, <2>2, ElemsEmpty
<1>3. /\ Holds(t) = Elems(final_queue[t]) /\ Holds(t)' = {}
      /\ \A u \in Session : u # t => Holds(u)' = Holds(u)
  <2>1. todo[t] = <<>>
    BY DEF LoopState
  <2> QED BY <1>1, <2>1, ElemsEmpty DEF Holds
<1>4. OnePlace'
  <2>1. OthersStay(Elems(final_queue[t]))
    <3>1. \A s \in Stage, u \in Session \ Elems(final_queue[t]) :
            u \in Elems(m_queue'[s]) <=> u \in Elems(m_queue[s])
      <4> TAKE s \in Stage, u \in Session \ Elems(final_queue[t])
      <4>1. CASE s = d
        BY <1>2, <4>1
      <4>2. CASE s # d
        BY <1>1, <4>2
      <4> QED BY <4>1, <4>2
    <3>2. \A v \in Session, u \in Session \ Elems(final_queue[t]) :
            u \in Holds(v)' <=> u \in Holds(v)
      BY <1>3
    <3> QED BY <3>1, <3>2 DEF OthersStay
  <2>2. HoldersWork'
    BY <1>1, <1>3 DEF OnePlace, HoldersWork
  <2>3. \A u \in Session \cap Elems(final_queue[t]) :
           /\ pending'[u]
           /\ \A s \in Stage : u \in Elems(m_queue'[s]) <=> s = d
           /\ \A v \in Session : ~(u \in Holds(v)')
    <3> TAKE u \in Session \cap Elems(final_queue[t])
    <3>1. pending'[u]
      BY <1>3 DEF OnePlace, WaitingIsPlaced
    <3>2. ASSUME NEW s \in Stage PROVE u \in Elems(m_queue'[s]) <=> s = d
      <4>1. CASE s = d
        BY <1>2, <4>1
      <4>2. CASE s # d
        BY <1>1, <1>3, <4>2 DEF OnePlace, NotQueuedAndHeld
      <4> QED BY <4>1, <4>2
    <3>3. \A v \in Session : ~(u \in Holds(v)')
      BY <1>3 DEF OnePlace, NotHeldTwice
    <3> QED BY <3>1, <3>2, <3>3
  <2> QED BY <2>1, <2>2, <2>3, ToQueue
<1>5. OneLeader'
  <2>1. \A u \in Session : u # t =>
          \A s \in Stage : Leads(s, u)' <=> Leads(s, u)
    BY <1>1 DEF Leads
  <2>2. /\ Leads(d, t)' <=> m_queue[d] = <<>>
        /\ ~Leads(d, t)
        /\ \A s \in Stage : s # d => ~Leads(s, t) /\ ~Leads(s, t)'
    BY <1>1 DEF Leads
  <2>3. \A s \in Stage : s # d =>
          /\ m_queue'[s] = m_queue[s]
          /\ \A u \in Session : Leads(s, u)' <=> Leads(s, u)
    BY <1>1, <2>1, <2>2
  <2>4. /\ \E u \in Session : Leads(d, u)'
        /\ \A t1, t2 \in Session : Leads(d, t1)' /\ Leads(d, t2)' => t1 = t2
    BY <1>1, <2>1, <2>2 DEF OneLeader
  <2> QED BY <1>2, <2>3, <2>4 DEF OneLeader
<1>6. PendingCommits'
  BY <1>1 DEF PendingCommits, Committing
<1>7. LoopState'
  BY <1>1 DEF LoopState
<1>8. OwnGroup'
  BY <1>1, <1>2, <1>3 DEF OwnGroup, Stage
<1>9. FlushDistinct'
  BY <1>1 DEF FlushDistinct, Stage
<1> QED BY <1>4, <1>5, <1>6, <1>7, <1>8, <1>9

(* The leader pops one session from the FLUSH queue. *)
LEMMA FlushOnePipe ==
  ASSUME PipelineTypeOK, PipeInv, NEW t \in Session, FlushOne(t)
  PROVE  PipeInv' /\ m_queue["FLUSH"] # <<>>
<1> USE DEF PipeInv
<1> DEFINE q == m_queue["FLUSH"]
           h == Head(q)
<1>1. /\ pc[t] = "flush" /\ pending' = pending /\ todo' = todo
      /\ q \in Seq(Session) /\ m_queue'["FLUSH"] = Tail(q)
      /\ \A s \in Stage : s # "FLUSH" => m_queue'[s] = m_queue[s]
      /\ final_queue[t] \in Seq(Session)
      /\ final_queue'[t] = Append(final_queue[t], h)
      /\ \A u \in Session : u # t => final_queue'[u] = final_queue[u]
      /\ pc'[t] = IF Len(q) > 1 THEN "flush" ELSE "flushed"
      /\ \A u \in Session : u # t => pc'[u] = pc[u]
  BY DEF FlushOne, PipelineTypeOK, Stage, Goto
<1>2. q # <<>> /\ "FLUSH" \in Stage
  BY <1>1 DEF OneLeader, Leads, Stage
<1>3. /\ h \in Session /\ Tail(q) \in Seq(Session)
      /\ Elems(q) = {h} \cup Elems(Tail(q)) /\ h \notin Elems(Tail(q))
      /\ Len(q) > 1 <=> Tail(q) # <<>>
      /\ Distinct(Tail(q))
  <2> HIDE DEF h, q
  <2>1. /\ Head(q) \in Session /\ Tail(q) \in Seq(Session)
        /\ Elems(q) = {Head(q)} \cup Elems(Tail(q))
        /\ Len(q) > 1 <=> Tail(q) # <<>>
    BY <1>1, <1>2, ElemsHeadTail
  <2>2. Distinct(q)
    BY DEF FlushDistinct, q
  <2>3. Distinct(Tail(q)) /\ Head(q) \notin Elems(Tail(q))
    BY <1>1, <1>2, <2>2, DistinctTail
  <2> QED BY <2>1, <2>3 DEF h
<1>4. /\ Elems(final_queue'[t]) = Elems(final_queue[t]) \cup {h}
      /\ Holds(t)' = Holds(t) \cup {h}
      /\ \A u \in Session : u # t => Holds(u)' = Holds(u)
  <2> HIDE DEF h, q
  <2>1. /\ Append(final_queue[t], h) = final_queue[t] \o <<h>>
        /\ Elems(final_queue[t] \o <<h>>) = Elems(final_queue[t]) \cup {h}
    BY <1>1, <1>3, ElemsAppend
  <2> QED BY <1>1, <2>1 DEF Holds
<1> HIDE DEF h, q
<1>5. OnePlace'
  <2>1. OthersStay({h})
    <3>1. \A s \in Stage, u \in Session \ {h} :
            u \in Elems(m_queue'[s]) <=> u \in Elems(m_queue[s])
      <4> TAKE s \in Stage, u \in Session \ {h}
      <4>1. CASE s = "FLUSH"
        BY <1>1, <1>3, <4>1 DEF q
      <4>2. CASE s # "FLUSH"
        BY <1>1, <4>2
      <4> QED BY <4>1, <4>2
    <3> QED BY <1>1, <1>4, <3>1 DEF OthersStay
  <2>2. HoldersWork'
    BY <1>1, <1>4 DEF OnePlace, HoldersWork, Holding
  <2>3. h \in Elems(m_queue["FLUSH"])
    BY <1>3 DEF q
  <2>4. \A s \in Stage : h \notin Elems(m_queue'[s])
    <3> TAKE s \in Stage
    <3>1. CASE s = "FLUSH"
      BY <1>1, <1>3, <3>1
    <3>2. CASE s # "FLUSH"
      BY <1>1, <1>2, <1>3, <2>3, <3>2 DEF OnePlace, NotInTwoQueues
    <3> QED BY <3>1, <3>2
  <2>5. pending'[h] /\ \A v \in Session : h \in Holds(v)' <=> v = t
    BY <1>1, <1>2, <1>3, <1>4, <2>3
       DEF OnePlace, NotQueuedAndHeld, WaitingIsPlaced
  <2>6. \A u \in Session \cap {h} :
           /\ pending'[u]
           /\ \A s \in Stage : u \notin Elems(m_queue'[s])
           /\ \A v \in Session : u \in Holds(v)' <=> v = t
    BY <2>4, <2>5
  <2> QED BY <2>1, <2>2, <2>6, ToHands
<1>6. OneLeader'
  <2>1. \A u \in Session : u # t => ~Leads("FLUSH", u)'
    BY <1>1, <1>2 DEF OneLeader, Leads
  <2>2. Leads("FLUSH", t)' <=> Tail(q) # <<>>
    BY <1>1, <1>3 DEF Leads
  <2>3. \A s \in Stage : s # "FLUSH" =>
          /\ m_queue'[s] = m_queue[s]
          /\ \A u \in Session : Leads(s, u)' <=> Leads(s, u)
    BY <1>1 DEF Leads
  <2> QED BY <1>1, <2>1, <2>2, <2>3 DEF OneLeader
<1>7. PendingCommits'
  BY <1>1 DEF PendingCommits, Committing
<1>8. LoopState'
  BY <1>1 DEF LoopState
<1>9. OwnGroup'
  <2>1. \A u \in Session : u # t => pc[u] \notin {"lock_log", "flush"}
    BY <1>1, <1>2 DEF OneLeader, Leads
  <2>2. t \in Elems(Tail(q)) \cup Elems(final_queue'[t])
    BY <1>1, <1>3, <1>4 DEF OwnGroup, q
  <2>3. pc'[t] = "flushed" => Elems(Tail(q)) = {}
    BY <1>1, <1>3, ElemsEmpty
  <2>4. \A u \in Session : u # t => Holds(u)' = Holds(u)
    BY <1>4
  <2> QED BY <1>1, <2>1, <2>2, <2>3, <2>4 DEF OwnGroup, Stage
<1>10. FlushDistinct'
  BY <1>1, <1>3 DEF FlushDistinct
<1> QED BY <1>2, <1>5, <1>6, <1>7, <1>8, <1>9, <1>10 DEF q

(* The flush time is over: the leader fetches what is left. *)
LEMMA FetchRestPipe ==
  ASSUME PipelineTypeOK, PipeInv, NEW t \in Session, FetchRest(t)
  PROVE  PipeInv'
<1> USE DEF PipeInv
<1> DEFINE q == m_queue["FLUSH"]
<1>1. /\ pc[t] = "flush" /\ pc'[t] = "flush_rest"
      /\ \A u \in Session : u # t => pc'[u] = pc[u]
      /\ pending' = pending /\ final_queue' = final_queue
      /\ q \in Seq(Session) /\ m_queue'["FLUSH"] = <<>>
      /\ \A s \in Stage : s # "FLUSH" => m_queue'[s] = m_queue[s]
      /\ todo'[t] = q /\ \A u \in Session : u # t => todo'[u] = todo[u]
  BY DEF FetchRest, PipelineTypeOK, Stage, Goto, flags
<1>2. q # <<>> /\ "FLUSH" \in Stage
  BY <1>1 DEF OneLeader, Leads, Stage
<1>3. /\ Elems(m_queue'["FLUSH"]) = {}
      /\ Holds(t)' = Holds(t) \cup Elems(q)
      /\ \A u \in Session : u # t => Holds(u)' = Holds(u)
  <2>1. todo[t] = <<>>
    BY <1>1 DEF LoopState
  <2> QED BY <1>1, <2>1, ElemsEmpty DEF Holds
<1>4. OnePlace'
  <2>1. OthersStay(Elems(q))
    <3>1. \A s \in Stage, u \in Session \ Elems(q) :
            u \in Elems(m_queue'[s]) <=> u \in Elems(m_queue[s])
      <4> TAKE s \in Stage, u \in Session \ Elems(q)
      <4>1. CASE s = "FLUSH"
        BY <1>3, <4>1
      <4>2. CASE s # "FLUSH"
        BY <1>1, <4>2
      <4> QED BY <4>1, <4>2
    <3> QED BY <1>1, <1>3, <3>1 DEF OthersStay
  <2>2. HoldersWork'
    BY <1>1, <1>3 DEF OnePlace, HoldersWork, Holding
  <2>3. \A u \in Session \cap Elems(q) :
           /\ pending'[u]
           /\ \A s \in Stage : u \notin Elems(m_queue'[s])
           /\ \A v \in Session : u \in Holds(v)' <=> v = t
    <3> TAKE u \in Session \cap Elems(q)
    <3>1. pending'[u]
      BY <1>1, <1>2 DEF OnePlace, WaitingIsPlaced
    <3>2. ASSUME NEW s \in Stage PROVE u \notin Elems(m_queue'[s])
      <4>1. CASE s = "FLUSH"
        BY <1>3, <4>1
      <4>2. CASE s # "FLUSH"
        BY <1>1, <1>2, <4>2 DEF OnePlace, NotInTwoQueues
      <4> QED BY <4>1, <4>2
    <3>3. \A v \in Session : u \in Holds(v)' <=> v = t
      BY <1>2, <1>3 DEF OnePlace, NotQueuedAndHeld
    <3> QED BY <3>1, <3>2, <3>3
  <2> HIDE DEF q
  <2> QED BY <2>1, <2>2, <2>3, ToHands
<1>5. OneLeader'
  <2>1. \A u \in Session : ~Leads("FLUSH", u)'
    BY <1>1, <1>2 DEF OneLeader, Leads
  <2>2. \A s \in Stage : s # "FLUSH" =>
          /\ m_queue'[s] = m_queue[s]
          /\ \A u \in Session : Leads(s, u)' <=> Leads(s, u)
    BY <1>1 DEF Leads
  <2> QED BY <1>1, <2>1, <2>2 DEF OneLeader
<1>6. PendingCommits'
  BY <1>1 DEF PendingCommits, Committing
<1>7. LoopState'
  BY <1>1, <1>2 DEF LoopState
<1>8. OwnGroup'
  <2>1. \A u \in Session : u # t => pc[u] \notin {"lock_log", "flush"}
    BY <1>1, <1>2 DEF OneLeader, Leads
  <2>2. t \in Holds(t)'
    BY <1>1, <1>3 DEF OwnGroup, Holds
  <2>3. \A u \in Session : u # t => Holds(u)' = Holds(u)
    BY <1>3
  <2> QED BY <1>1, <2>1, <2>2, <2>3 DEF OwnGroup, Stage
<1>9. FlushDistinct'
  <2>1. Distinct(<<>>)
    BY DEF Distinct
  <2> QED BY <1>1, <2>1 DEF FlushDistinct
<1> QED BY <1>4, <1>5, <1>6, <1>7, <1>8, <1>9

(* The leader flushes one session of what it fetched. *)
LEMMA FlushRestPipe ==
  ASSUME PipelineTypeOK, PipeInv, NEW t \in Session, FlushRest(t)
  PROVE  PipeInv' /\ todo[t] # <<>>
<1> USE DEF PipeInv
<1> DEFINE q == todo[t]
           h == Head(q)
<1>1. /\ pc[t] = "flush_rest" /\ pending' = pending /\ m_queue' = m_queue
      /\ q \in Seq(Session) /\ todo'[t] = Tail(q)
      /\ \A u \in Session : u # t => todo'[u] = todo[u]
      /\ final_queue[t] \in Seq(Session)
      /\ final_queue'[t] = Append(final_queue[t], h)
      /\ \A u \in Session : u # t => final_queue'[u] = final_queue[u]
      /\ pc'[t] = IF Len(q) > 1 THEN "flush_rest" ELSE "flushed"
      /\ \A u \in Session : u # t => pc'[u] = pc[u]
  BY DEF FlushRest, PipelineTypeOK, Goto
<1>2. q # <<>>
  BY <1>1 DEF LoopState
<1> HIDE DEF h, q
<1>3. /\ h \in Session /\ Tail(q) \in Seq(Session)
      /\ Elems(q) = {h} \cup Elems(Tail(q))
      /\ Len(q) > 1 <=> Tail(q) # <<>>
  BY <1>1, <1>2, ElemsHeadTail DEF h
<1>4. Distinct(Tail(q))
  <2>1. Distinct(q)
    BY <1>1 DEF FlushDistinct, q
  <2> QED BY <1>1, <1>2, <2>1, DistinctTail
<1>5. /\ Elems(final_queue'[t]) = Elems(final_queue[t]) \cup {h}
      /\ Holds(t)' = Holds(t)
      /\ \A u \in Session : u # t => Holds(u)' = Holds(u)
  <2>1. /\ Append(final_queue[t], h) = final_queue[t] \o <<h>>
        /\ Elems(final_queue[t] \o <<h>>) = Elems(final_queue[t]) \cup {h}
    BY <1>1, <1>3, ElemsAppend
  <2> QED BY <1>1, <1>3, <2>1 DEF Holds, q
<1>6. OnePlace'
  <2>1. OthersStay({})
    BY <1>1, <1>5 DEF OthersStay
  <2>2. HoldersWork'
    BY <1>1, <1>5 DEF OnePlace, HoldersWork, Holding
  <2> QED BY <2>1, <2>2, ToHands
<1>7. OneLeader'
  <2>1. \A s \in Stage, u \in Session : Leads(s, u)' <=> Leads(s, u)
    BY <1>1 DEF Leads
  <2> QED BY <1>1, <2>1 DEF OneLeader
<1>8. PendingCommits'
  BY <1>1 DEF PendingCommits, Committing
<1>9. LoopState'
  BY <1>1, <1>3 DEF LoopState
<1>10. OwnGroup'
  <2>1. t \in Holds(t)'
    BY <1>1, <1>5 DEF OwnGroup
  <2>2. pc'[t] = "flushed" => t \in Elems(final_queue'[t])
    BY <1>1, <1>3, <2>1, ElemsEmpty DEF Holds
  <2>3. \A u \in Session : u # t => Holds(u)' = Holds(u)
    BY <1>5
  <2> QED BY <1>1, <2>1, <2>2, <2>3 DEF OwnGroup
<1>11. FlushDistinct'
  BY <1>1, <1>4 DEF FlushDistinct
<1> QED BY <1>2, <1>6, <1>7, <1>8, <1>9, <1>10, <1>11 DEF q

(* The leader commits one session of its group. *)
LEMMA CommitOnePipe ==
  ASSUME PipelineTypeOK, PipeInv, NEW t \in Session, CommitOne(t)
  PROVE  PipeInv' /\ todo[t] # <<>>
<1> USE DEF PipeInv
<1> DEFINE q == todo[t]
<1>1. /\ pc[t] = "commit" /\ pending' = pending /\ m_queue' = m_queue
      /\ final_queue' = final_queue
      /\ q \in Seq(Session) /\ todo'[t] = Tail(q)
      /\ \A u \in Session : u # t => todo'[u] = todo[u]
      /\ pc'[t] \in {"commit", "sync_error", "signal"}
      /\ pc'[t] = "commit" <=> Len(q) > 1
      /\ \A u \in Session : u # t => pc'[u] = pc[u]
  BY DEF CommitOne, PipelineTypeOK, Goto
<1>2. q # <<>>
  BY <1>1 DEF LoopState
<1> HIDE DEF q
<1>3. /\ Tail(q) \in Seq(Session)
      /\ Elems(q) = {Head(q)} \cup Elems(Tail(q))
      /\ Len(q) > 1 <=> Tail(q) # <<>>
  BY <1>1, <1>2, ElemsHeadTail
<1>4. /\ Elems(todo'[t]) \subseteq Elems(final_queue[t])
      /\ Holds(t)' = Holds(t)
      /\ \A u \in Session : u # t => Holds(u)' = Holds(u)
  <2>1. Elems(q) \subseteq Elems(final_queue[t])
    BY <1>1 DEF LoopState, q
  <2> QED BY <1>1, <1>3, <2>1 DEF Holds, q
<1>5. OnePlace'
  <2>1. OthersStay({})
    BY <1>1, <1>4 DEF OthersStay
  <2>2. HoldersWork'
    BY <1>1, <1>4 DEF OnePlace, HoldersWork, Holding
  <2> QED BY <2>1, <2>2, ToHands
<1>6. OneLeader'
  <2>1. \A s \in Stage, u \in Session : Leads(s, u)' <=> Leads(s, u)
    BY <1>1 DEF Leads
  <2> QED BY <1>1, <2>1 DEF OneLeader
<1>7. PendingCommits'
  BY <1>1 DEF PendingCommits, Committing
<1>8. LoopState'
  BY <1>1, <1>3, <1>4 DEF LoopState
<1>9. OwnGroup'
  <2>1. \A u \in Session : Holds(u)' = Holds(u)
    BY <1>4
  <2> QED BY <1>1, <2>1 DEF OwnGroup
<1>10. FlushDistinct'
  BY <1>1 DEF FlushDistinct
<1> QED BY <1>2, <1>5, <1>6, <1>7, <1>8, <1>9, <1>10 DEF q

(* The leader wakes its group and lets go of it. *)
LEMMA SignalDonePipe ==
  ASSUME PipelineTypeOK, PipeInv, NEW t \in Session, signal_done(t)
  PROVE  PipeInv'
<1> USE DEF PipeInv
<1>1. /\ pc[t] = "signal" /\ pc'[t] = "finish"
      /\ \A u \in Session : u # t => pc'[u] = pc[u]
      /\ m_queue' = m_queue /\ todo' = todo
      /\ final_queue'[t] = <<>>
      /\ \A u \in Session : u # t => final_queue'[u] = final_queue[u]
      /\ \A u \in Session : pending'[u] <=>
           pending[u] /\ u \notin Elems(final_queue[t])
  BY DEF signal_done, woken, PipelineTypeOK, Goto
<1>2. /\ Holds(t) = Elems(final_queue[t]) /\ Holds(t)' = {}
      /\ \A u \in Session : u # t => Holds(u)' = Holds(u)
  <2>1. todo[t] = <<>>
    BY <1>1 DEF LoopState
  <2> QED BY <1>1, <2>1, ElemsEmpty DEF Holds
<1>3. OnePlace'
  <2>1. OthersStay(Elems(final_queue[t]))
    <3>1. pending \in [Session -> BOOLEAN] /\ pending' \in [Session -> BOOLEAN]
      BY DEF signal_done, woken, PipelineTypeOK
    <3>2. \A u \in Session \ Elems(final_queue[t]) : pending'[u] = pending[u]
      BY <1>1, <3>1
    <3>3. \A u \in Session \ Elems(final_queue[t]), v \in Session :
            u \in Holds(v)' <=> u \in Holds(v)
      BY <1>2
    <3> QED BY <1>1, <3>2, <3>3 DEF OthersStay
  <2>2. HoldersWork'
    BY <1>1, <1>2 DEF OnePlace, HoldersWork
  <2>3. \A u \in Session \cap Elems(final_queue[t]) :
           /\ ~pending'[u]
           /\ \A s \in Stage : u \notin Elems(m_queue'[s])
           /\ \A v \in Session : ~(u \in Holds(v)')
    BY <1>1, <1>2 DEF OnePlace, NotQueuedAndHeld, NotHeldTwice
  <2> QED BY <2>1, <2>2, <2>3, ToNowhere
<1>4. OneLeader'
  <2>1. \A s \in Stage, u \in Session : Leads(s, u)' <=> Leads(s, u)
    BY <1>1 DEF Leads
  <2> QED BY <1>1, <2>1 DEF OneLeader
<1>5. PendingCommits'
  <2>1. t \in Elems(final_queue[t])
    BY <1>1 DEF OwnGroup
  <2> QED BY <1>1, <2>1 DEF PendingCommits
<1>6. LoopState'
  BY <1>1 DEF LoopState
<1>7. OwnGroup'
  <2>1. \A u \in Session : u # t => Holds(u)' = Holds(u)
    BY <1>2
  <2> QED BY <1>1, <2>1 DEF OwnGroup
<1>8. FlushDistinct'
  BY <1>1 DEF FlushDistinct
<1> QED BY <1>3, <1>4, <1>5, <1>6, <1>7, <1>8

(* Nobody waits in a server that is starting. *)
Reset ==
  /\ pc = [t \in Session |-> "idle"]
  /\ m_queue = [s \in Stage |-> <<>>]
  /\ final_queue = [t \in Session |-> <<>>]
  /\ todo = [t \in Session |-> <<>>]
  /\ pending = [t \in Session |-> FALSE]

(* A server that starts has an empty pipeline, and that satisfies the      *)
(* pipeline's invariant.                                                   *)
LEMMA ResetPipe == Reset => PipeInv
<1> SUFFICES ASSUME Reset PROVE PipeInv
  OBVIOUS
<1>1. /\ \A s \in Stage : m_queue[s] = <<>> /\ Elems(m_queue[s]) = {}
      /\ \A t \in Session : /\ pc[t] = "idle" /\ ~pending[t]
                            /\ final_queue[t] = <<>> /\ todo[t] = <<>>
                            /\ Holds(t) = {}
  BY ElemsEmpty DEF Reset, Holds
<1>2. OnePlace
  BY <1>1 DEF OnePlace, WaitingIsPlaced, NotInTwoQueues, NotQueuedAndHeld,
              NotHeldTwice, HoldersWork
<1>3. OneLeader
  BY <1>1 DEF OneLeader, Leads
<1>4. PendingCommits /\ LoopState /\ OwnGroup
  BY <1>1 DEF PendingCommits, LoopState, OwnGroup
<1>5. FlushDistinct
  BY <1>1 DEF FlushDistinct, Distinct, Stage
<1> QED BY <1>2, <1>3, <1>4, <1>5 DEF PipeInv

(***************************************************************************)
(* Every step keeps the pipeline in order.                                 *)
(***************************************************************************)

(* A server that dies forgets every queue. *)
LEMMA DiePipe ==
  ASSUME Die
  PROVE  PipeInv'
<1>1. Reset'
  BY DEF Die, Reset
<1> QED BY <1>1, ResetPipe, PTL

(* Statements begin outside the pipeline. *)
LEMMA BeginPipe ==
  ASSUME PipelineTypeOK, PipeInv, NEW t \in Session, Begin(t)
  PROVE  PipeInv'
<1> USE DEF queues, flags
<1>1. CASE prepare(t)
  <2>1. /\ UNCHANGED <<m_queue, final_queue, todo, pending>>
        /\ pc' = [pc EXCEPT ![t] = "prepared"] /\ pc[t] = "idle"
    BY <1>1 DEF prepare, Goto
  <2>2. QuietMove(pc[t], "prepared") /\ "prepared" \in Label
    BY <2>1 DEF QuietMove, Committing, Label
  <2> QED BY <2>1, <2>2, QuietStep
<1>2. CASE CommitUnlogged(t)
  <2>1. UNCHANGED <<m_queue, final_queue, todo, pending>>
        /\ pc' = [pc EXCEPT ![t] = "idle"] /\ pc[t] = "idle"
    BY <1>2 DEF CommitUnlogged, PipelineTypeOK
  <2>2. QuietMove(pc[t], "idle") /\ "idle" \in Label
    BY <2>1 DEF QuietMove, Committing, Label
  <2> QED BY <2>1, <2>2, QuietStep
<1>3. CASE FlushLogs(t)
  <2>1. /\ UNCHANGED <<m_queue, final_queue, todo, pending>>
        /\ pc' = [pc EXCEPT ![t] = "rotate"] /\ pc[t] = "idle"
    BY <1>3 DEF FlushLogs, Goto
  <2>2. QuietMove(pc[t], "rotate") /\ "rotate" \in Label
    BY <2>1 DEF QuietMove, Committing, Label
  <2> QED BY <2>1, <2>2, QuietStep
<1>4. CASE StartSnapshot(t)
  <2>1. /\ UNCHANGED <<m_queue, final_queue, todo, pending>>
        /\ pc' = [pc EXCEPT ![t] = "snap_lock"] /\ pc[t] = "idle"
    BY <1>4 DEF StartSnapshot, Goto
  <2>2. QuietMove(pc[t], "snap_lock") /\ "snap_lock" \in Label
    BY <2>1 DEF QuietMove, Committing, Label
  <2> QED BY <2>1, <2>2, QuietStep
<1> QED BY <1>1, <1>2, <1>3, <1>4 DEF Begin

(* Rotation and snapshots happen outside the pipeline. *)
LEMMA RotatePipe ==
  ASSUME PipelineTypeOK, PipeInv, NEW t \in Session, Rotate(t) \/ Snapshot(t)
  PROVE  PipeInv'
<1> USE DEF queues, flags
<1> DEFINE Outside == {"idle", "rotate", "rot_wait", "rot_reopen", "snap_lock",
                       "snap_commit", "snap_rw", "snapshot"}
<1>1. CASE Die
  BY <1>1, DiePipe
<1>2. CASE ~Die
  <2>1. /\ UNCHANGED <<m_queue, final_queue, todo, pending>>
        /\ pc[t] \in Outside
        /\ \E b \in Outside : pc' = [pc EXCEPT ![t] = b]
    <3>1. CASE Rotate(t)
      BY <1>2, <3>1 DEF Rotate, RotateLock, RotateClose, RotateReopen,
                        RotateFails, Return, Goto
    <3>2. CASE Snapshot(t)
      BY <3>2 DEF Snapshot, xlock, xlock_commits, xunlock, Goto
    <3> QED BY <3>1, <3>2
  <2>2. PICK b \in Outside : pc' = [pc EXCEPT ![t] = b]
    BY <2>1
  <2>3. QuietMove(pc[t], b) /\ b \in Label /\ pc[t] # "follower"
    BY <2>1 DEF QuietMove, Committing, Label
  <2> HIDE DEF Outside
  <2> QED BY <2>1, <2>2, <2>3, QuietStep
<1> QED BY <1>1, <1>2

(* The steps of ordered_commit. *)
LEMMA OrderedCommitPipe ==
  ASSUME PipelineTypeOK, PipeInv, NEW t \in Session, OrderedCommit(t)
  PROVE  PipeInv'
<1> USE DEF queues, flags
<1>1. CASE EnrollFlush(t)
  BY <1>1, EnrollFlushPipe
<1>2. CASE LockLog(t)
  <2>1. CASE is_open
    <3>1. /\ UNCHANGED <<m_queue, final_queue, todo, pending>>
          /\ pc' = [pc EXCEPT ![t] = "flush"] /\ pc[t] = "lock_log"
      BY <1>2, <2>1 DEF LockLog, Goto
    <3>2. QuietMove(pc[t], "flush") /\ "flush" \in Label
      BY <3>1 DEF QuietMove, Label
    <3> QED BY <3>1, <3>2, QuietStep
  <2>2. CASE ~is_open
    <3>1. /\ UNCHANGED <<todo, pending>> /\ fetch_queue_for(t, "FLUSH")
          /\ pc' = [pc EXCEPT ![t] = "enter_commit"] /\ pc[t] = "lock_log"
      BY <1>2, <2>2 DEF LockLog, Goto
    <3>2. Leads("FLUSH", t) /\ "FLUSH" \in Stage
      BY <3>1 DEF Leads, Stage
    <3> QED BY <3>1, <3>2, FetchPipe
  <2> QED BY <2>1, <2>2
<1>3. CASE FlushOne(t)
  BY <1>3, FlushOnePipe
<1>4. CASE FetchRest(t)
  BY <1>4, FetchRestPipe
<1>5. CASE FlushRest(t)
  BY <1>5, FlushRestPipe
<1>6. CASE FlushToFile(t) \/ HandleFlushError(t)
  <2>1. CASE Die
    BY <2>1, DiePipe
  <2>2. CASE ~Die
    <3>1. /\ UNCHANGED <<m_queue, final_queue, todo, pending>>
          /\ pc' = [pc EXCEPT ![t] = "enter_sync"] /\ pc[t] = "flushed"
      BY <1>6, <2>2 DEF FlushToFile, HandleFlushError, Goto
    <3>2. QuietMove(pc[t], "enter_sync") /\ "enter_sync" \in Label
      BY <3>1 DEF QuietMove, Label
    <3> QED BY <3>1, <3>2, QuietStep
  <2> QED BY <2>1, <2>2
<1>7. CASE EnrollSync(t)
  <2>1. /\ enroll_for(t, "SYNC", final_queue[t], "lock_sync")
        /\ final_queue' = [final_queue EXCEPT ![t] = <<>>]
        /\ pc[t] = "enter_sync" /\ todo' = todo /\ pending' = pending
        /\ "SYNC" \in Stage
    BY <1>7 DEF EnrollSync, Stage
  <2> QED BY <2>1, EnrollPipe
<1>8. CASE LockSync(t)
  <2>1. /\ UNCHANGED <<todo, pending>> /\ fetch_queue_for(t, "SYNC")
        /\ pc' = [pc EXCEPT ![t] = "sync"] /\ pc[t] = "lock_sync"
    BY <1>8 DEF LockSync, Goto
  <2>2. Leads("SYNC", t) /\ "SYNC" \in Stage
    BY <2>1 DEF Leads, Stage
  <2> QED BY <2>1, <2>2, FetchPipe
<1>9. CASE sync_binlog_file(t)
  <2>1. /\ UNCHANGED <<m_queue, final_queue, todo, pending>>
        /\ pc' = [pc EXCEPT ![t] = "enter_commit"] /\ pc[t] = "sync"
    BY <1>9 DEF sync_binlog_file, Goto
  <2>2. QuietMove(pc[t], "enter_commit") /\ "enter_commit" \in Label
    BY <2>1 DEF QuietMove, Label
  <2> QED BY <2>1, <2>2, QuietStep
<1>10. CASE EnterCommit(t)
  <2>1. CASE order_commits /\ (SyncError(t) => ErrorAction # "ABORT_SERVER")
    <3>1. /\ enroll_for(t, "COMMIT", final_queue[t], "lock_commit")
          /\ final_queue' = [final_queue EXCEPT ![t] = <<>>]
          /\ pc[t] = "enter_commit" /\ todo' = todo /\ pending' = pending
          /\ "COMMIT" \in Stage
      BY <1>10, <2>1 DEF EnterCommit, Stage
    <3> QED BY <3>1, EnrollPipe
  <2>2. CASE ~(order_commits /\ (SyncError(t) => ErrorAction # "ABORT_SERVER"))
    <3>1. /\ UNCHANGED <<m_queue, final_queue, todo, pending>>
          /\ pc[t] = "enter_commit"
          /\ \E b \in {"sync_error", "signal"} : pc' = [pc EXCEPT ![t] = b]
      BY <1>10, <2>2 DEF EnterCommit, Goto
    <3>2. PICK b \in {"sync_error", "signal"} : pc' = [pc EXCEPT ![t] = b]
      BY <3>1
    <3>3. QuietMove(pc[t], b) /\ b \in Label
      BY <3>1, <3>2 DEF QuietMove, Label
    <3> QED BY <3>1, <3>2, <3>3, QuietStep
  <2> QED BY <2>1, <2>2
<1>11. CASE LockCommit(t)
  <2>1. /\ UNCHANGED pending /\ fetch_queue_for(t, "COMMIT")
        /\ todo' = [todo EXCEPT ![t] = m_queue["COMMIT"]]
        /\ pc' = [pc EXCEPT ![t] = "commit"] /\ pc[t] = "lock_commit"
    BY <1>11 DEF LockCommit, Goto
  <2>2. Leads("COMMIT", t) /\ "COMMIT" \in Stage
    BY <2>1 DEF Leads, Stage
  <2> QED BY <2>1, <2>2, FetchPipe
<1>12. CASE CommitOne(t)
  BY <1>12, CommitOnePipe
<1>13. CASE HandleSyncError(t)
  <2>1. CASE Die
    BY <2>1, DiePipe
  <2>2. CASE ~Die
    <3>1. /\ UNCHANGED <<m_queue, final_queue, todo, pending>>
          /\ pc' = [pc EXCEPT ![t] = "signal"] /\ pc[t] = "sync_error"
      BY <1>13, <2>2 DEF HandleSyncError, Goto
    <3>2. QuietMove(pc[t], "signal") /\ "signal" \in Label
      BY <3>1 DEF QuietMove, Label
    <3> QED BY <3>1, <3>2, QuietStep
  <2> QED BY <2>1, <2>2
<1>14. CASE signal_done(t)
  BY <1>14, SignalDonePipe
<1>15. CASE finish_commit(t)
  <2>1. /\ UNCHANGED <<m_queue, final_queue, todo, pending>>
        /\ pc[t] \in {"finish", "follower"}
        /\ pc[t] = "follower" => ~pending[t]
        /\ \E b \in {"idle", "rotate"} : pc' = [pc EXCEPT ![t] = b]
    BY <1>15 DEF finish_commit, Goto
  <2>2. PICK b \in {"idle", "rotate"} : pc' = [pc EXCEPT ![t] = b]
    BY <2>1
  <2>3. QuietMove(pc[t], b) /\ b \in Label
    BY <2>1, <2>2 DEF QuietMove, Label
  <2> QED BY <2>1, <2>2, <2>3, QuietStep
<1> QED BY <1>1, <1>2, <1>3, <1>4, <1>5, <1>6, <1>7, <1>8, <1>9, <1>10, <1>11,
           <1>12, <1>13, <1>14, <1>15 DEF OrderedCommit

(* A step that leaves the pipeline's variables alone. *)
LEMMA StutterPipe ==
  ASSUME PipeInv, UNCHANGED <<pc, m_queue, final_queue, todo, pending>>
  PROVE  PipeInv'
<1>1. (\A u \in Session : Holds(u)' = Holds(u))
      /\ (\A s, u : Leads(s, u)' <=> Leads(s, u))
  BY DEF Holds, Leads
<1> QED BY <1>1 DEF PipeInv, OnePlace, WaitingIsPlaced, NotInTwoQueues,
       NotQueuedAndHeld, NotHeldTwice, HoldersWork, OneLeader, PendingCommits,
       LoopState, OwnGroup, FlushDistinct

(* Every step of the specification. *)
LEMMA PipeStep ==
  ASSUME PipelineTypeOK, PipeInv, [Next]_vars
  PROVE  PipeInv'
<1>1. ASSUME NEW t \in Session, Step(t) PROVE PipeInv'
  BY <1>1, OrderedCommitPipe, RotatePipe DEF Step
<1>2. ASSUME NEW t \in Session, Begin(t) PROVE PipeInv'
  BY <1>2, BeginPipe
<1>3. CASE Crash
  BY <1>3, DiePipe DEF Crash
<1>4. CASE SetSyncPeriod \/ SetOrderCommits \/ ha_recover \/ UNCHANGED vars
  BY <1>4, StutterPipe DEF SetSyncPeriod, SetOrderCommits, ha_recover, vars,
                           queues, flags
<1> QED BY <1>1, <1>2, <1>3, <1>4 DEF Next

(***************************************************************************)
(* m_prep_xids counts the sessions with an XID in the log: no session's    *)
(* XID is written twice, and none is counted down twice.                   *)
(***************************************************************************)

XidInv == FlushOnce /\ XidCount

(* inc_prep_xids, for a session that had no XID in the log. *)
LEMMA XidUp ==
  ASSUME xid_written \in [Session -> BOOLEAN], XidCount, NEW h \in Session,
         ~xid_written[h], xid_written' = [xid_written EXCEPT ![h] = TRUE],
         m_prep_xids' = m_prep_xids + 1
  PROVE  XidCount'
<1> DEFINE A == {u \in Session : xid_written[u]}
           B == {u \in Session : xid_written'[u]}
<1>1. IsFiniteSet(A) /\ h \notin A /\ B = A \cup {h}
  BY SessionAssumption, FS_Subset
<1>2. Cardinality(B) = Cardinality(A) + 1
  <2> HIDE DEF A, B
  <2> QED BY <1>1, FS_AddElement
<1> QED BY <1>2 DEF XidCount

(* dec_prep_xids. *)
LEMMA XidDown ==
  ASSUME xid_written \in [Session -> BOOLEAN], XidCount, NEW h \in Session,
         dec_prep_xids(h)
  PROVE  XidCount'
<1> DEFINE A == {u \in Session : xid_written[u]}
           B == {u \in Session : xid_written'[u]}
<1>1. IsFiniteSet(A) /\ B = A \ {h} /\ (h \in A <=> xid_written[h])
  BY SessionAssumption, FS_Subset DEF dec_prep_xids
<1>2. Cardinality(B) = IF h \in A THEN Cardinality(A) - 1 ELSE Cardinality(A)
  <2> HIDE DEF A, B
  <2> QED BY <1>1, FS_RemoveElement
<1>3. Cardinality(A) \in Nat
  BY <1>1, FS_CardinalityType
<1> QED BY <1>1, <1>2, <1>3 DEF XidCount, dec_prep_xids

(* XIDs are written only to come down, so the count is a number. *)
LEMMA XidNat == XidCount => m_prep_xids \in Nat
<1>1. IsFiniteSet({u \in Session : xid_written[u]})
  BY SessionAssumption, FS_Subset
<1> QED BY <1>1, FS_CardinalityType DEF XidCount

(* Nobody comes before the flush again but by a statement that ends. *)
NoneUnflushed ==
  \A u \in Session : Unflushed(u)' => Unflushed(u) \/ ~xid_written'[u]

(* A step that writes no XID. *)
LEMMA XidStay ==
  ASSUME XidInv, NoneUnflushed, UNCHANGED <<xid_written, m_prep_xids>>
  PROVE  XidInv'
<1>1. FlushOnce'
  BY DEF XidInv, FlushOnce, NoneUnflushed
<1>2. XidCount'
  BY DEF XidInv, XidCount
<1> QED BY <1>1, <1>2 DEF XidInv

(* A step that counts an XID down. *)
LEMMA XidDone ==
  ASSUME PipelineTypeOK, XidInv, NEW h \in Session, NoneUnflushed,
         dec_prep_xids(h)
  PROVE  XidInv'
<1>1. /\ xid_written \in [Session -> BOOLEAN]
      /\ xid_written' = [xid_written EXCEPT ![h] = FALSE]
  BY DEF PipelineTypeOK, dec_prep_xids
<1>2. FlushOnce'
  BY <1>1 DEF XidInv, FlushOnce, NoneUnflushed
<1>3. XidCount'
  BY <1>1, XidDown DEF XidInv
<1> QED BY <1>2, <1>3 DEF XidInv

(* A flush of session h. *)
LEMMA XidFlush ==
  ASSUME PipelineTypeOK, XidInv, NEW h \in Session, NEW ok \in BOOLEAN,
         flush_thread_caches(h, ok), Unflushed(h), ~Unflushed(h)',
         NoneUnflushed
  PROVE  XidInv'
<1>1. xid_written \in [Session -> BOOLEAN] /\ ~xid_written[h]
  BY DEF PipelineTypeOK, XidInv, FlushOnce
<1>2. CASE ok
  <2>1. /\ xid_written' = [xid_written EXCEPT ![h] = TRUE]
        /\ m_prep_xids' = m_prep_xids + 1
    BY <1>2 DEF flush_thread_caches
  <2>2. FlushOnce'
    BY <1>1, <2>1 DEF XidInv, FlushOnce, NoneUnflushed
  <2>3. XidCount'
    BY <1>1, <2>1, XidUp DEF XidInv
  <2> QED BY <2>2, <2>3 DEF XidInv
<1>3. CASE ~ok
  BY <1>3, XidStay DEF flush_thread_caches
<1> QED BY <1>2, <1>3

(* A died server has counted nothing. *)
LEMMA DieXid ==
  ASSUME Die
  PROVE  XidInv'
<1>1. \A u \in Session : ~xid_written'[u]
  BY DEF Die
<1>2. {u \in Session : xid_written'[u]} = {}
  BY <1>1
<1>3. m_prep_xids' = 0
  BY DEF Die
<1> QED BY <1>1, <1>2, <1>3, FS_EmptySet DEF XidInv, FlushOnce, XidCount

(* A session that leaves the FLUSH queue behind it does not come back. *)
LEMMA NotBack ==
  ASSUME PipelineTypeOK, NEW t \in Session, NEW b,
         pc' = [pc EXCEPT ![t] = b], b # "flush_rest",
         Elems(m_queue'["FLUSH"]) \subseteq Elems(m_queue["FLUSH"]),
         \A u \in Session : u # t => todo'[u] = todo[u],
         \/ b \in Committing \cup {"finish"}
         \/ pc[t] \notin Committing \cup {"finish"}
         \/ ~xid_written'[t]
  PROVE  NoneUnflushed
<1>1. pc'[t] = b /\ \A u \in Session : u # t => pc'[u] = pc[u]
  BY DEF PipelineTypeOK
<1> QED BY <1>1 DEF NoneUnflushed, Unflushed

(* Who waits in the FLUSH queue or is held by a leader is in the pipeline. *)
LEMMA FlushOneXid ==
  ASSUME PipelineTypeOK, PipeInv, XidInv, NEW t \in Session, FlushOne(t)
  PROVE  XidInv'
<1> DEFINE q == m_queue["FLUSH"]
           h == Head(q)
<1>1. /\ pc[t] = "flush" /\ todo' = todo /\ q \in Seq(Session)
      /\ m_queue'["FLUSH"] = Tail(q)
      /\ \E b \in {"flush", "flushed"} : pc' = [pc EXCEPT ![t] = b]
      /\ \E ok \in BOOLEAN : flush_thread_caches(h, ok)
  BY DEF FlushOne, PipelineTypeOK, Stage, Goto
<1>2. q # <<>> /\ Distinct(q) /\ "FLUSH" \in Stage
  BY FlushOnePipe DEF PipeInv, FlushDistinct, Stage
<1> HIDE DEF q, h
<1>3. PICK x \in Session :
        /\ x = h /\ Elems(q) = {x} \cup Elems(Tail(q))
        /\ x \notin Elems(Tail(q))
  BY <1>1, <1>2, ElemsHeadTail, DistinctTail DEF h
<1>4. PICK b \in {"flush", "flushed"} : pc' = [pc EXCEPT ![t] = b]
  BY <1>1
<1>5. NoneUnflushed
  <2>1. Elems(m_queue'["FLUSH"]) \subseteq Elems(m_queue["FLUSH"])
    BY <1>1, <1>3 DEF q
  <2>2. b # "flush_rest" /\ b \in Committing
    BY <1>4 DEF Committing
  <2>3. \A u \in Session : u # t => todo'[u] = todo[u]
    BY <1>1
  <2> QED BY <1>4, <2>1, <2>2, <2>3, NotBack
<1>6. Unflushed(x)
  BY <1>3 DEF Unflushed, q
<1>7. ~Unflushed(x)'
  <2>1. x \in Elems(m_queue["FLUSH"])
    BY <1>3 DEF q
  <2>2. /\ pending[x]
        /\ \A u \in Session : x \notin Elems(todo[u])
    BY <1>2, <1>3, <2>1
       DEF PipeInv, OnePlace, WaitingIsPlaced, NotQueuedAndHeld, Holds
  <2>3. pc[x] \in Committing
    BY <1>3, <2>2 DEF PipeInv, PendingCommits
  <2>4. pc'[x] \in Committing
    BY <1>3, <1>4, <2>3 DEF PipelineTypeOK, Committing
  <2> QED BY <1>1, <1>3, <2>2, <2>4 DEF Unflushed
<1> QED BY <1>1, <1>3, <1>5, <1>6, <1>7, XidFlush

(* The second loop. *)
LEMMA FlushRestXid ==
  ASSUME PipelineTypeOK, PipeInv, XidInv, NEW t \in Session, FlushRest(t)
  PROVE  XidInv'
<1> DEFINE q == todo[t]
           h == Head(q)
<1>1. /\ pc[t] = "flush_rest" /\ m_queue' = m_queue /\ q \in Seq(Session)
      /\ todo'[t] = Tail(q) /\ \A u \in Session : u # t => todo'[u] = todo[u]
      /\ \E b \in {"flush_rest", "flushed"} : pc' = [pc EXCEPT ![t] = b]
      /\ \E ok \in BOOLEAN : flush_thread_caches(h, ok)
  BY DEF FlushRest, PipelineTypeOK, Goto
<1>2. q # <<>> /\ Distinct(q) /\ "FLUSH" \in Stage
  BY <1>1, FlushRestPipe DEF PipeInv, FlushDistinct, Stage
<1> HIDE DEF q, h
<1>3. PICK x \in Session :
        /\ x = h /\ Elems(q) = {x} \cup Elems(Tail(q))
        /\ x \notin Elems(Tail(q))
  BY <1>1, <1>2, ElemsHeadTail, DistinctTail DEF h
<1>4. PICK b \in {"flush_rest", "flushed"} : pc' = [pc EXCEPT ![t] = b]
  BY <1>1
<1>5. pc'[t] = b /\ \A u \in Session : u # t => pc'[u] = pc[u]
  BY <1>4 DEF PipelineTypeOK
<1>6. NoneUnflushed
  BY <1>1, <1>3, <1>4, <1>5 DEF NoneUnflushed, Unflushed, Committing, q
<1>7. Unflushed(x)
  BY <1>1, <1>3 DEF Unflushed, q
<1>8. ~Unflushed(x)'
  <2>1. x \in Holds(t)
    BY <1>3 DEF Holds, q
  <2>2. /\ pending[x] /\ x \notin Elems(m_queue["FLUSH"])
        /\ \A u \in Session : u # t => x \notin Elems(todo[u])
    BY <1>2, <1>3, <2>1 DEF PipeInv, OnePlace, WaitingIsPlaced,
                            NotQueuedAndHeld, NotHeldTwice, Holds
  <2>3. pc[x] \in Committing
    BY <1>3, <2>2 DEF PipeInv, PendingCommits
  <2>4. pc'[x] \in Committing
    BY <1>3, <1>4, <1>5, <2>3 DEF Committing
  <2> QED BY <1>1, <1>3, <2>2, <2>4 DEF Unflushed
<1> QED BY <1>1, <1>3, <1>6, <1>7, <1>8, XidFlush

(* The steps of ordered_commit and the count of XIDs. *)
LEMMA OrderedCommitXid ==
  ASSUME PipelineTypeOK, PipeInv, XidInv, NEW t \in Session, OrderedCommit(t)
  PROVE  XidInv'
<1> USE DEF queues, flags
<1>1. CASE EnrollFlush(t)
  <2>1. /\ pc[t] = "prepared" /\ ~xid_written'[t] /\ m_prep_xids' = m_prep_xids
        /\ xid_written' = [xid_written EXCEPT ![t] = FALSE]
        /\ \A u \in Session : u # t => pc'[u] = pc[u]
        /\ pc'[t] \in {"lock_log", "follower"} /\ todo' = todo
        /\ m_queue'["FLUSH"] = m_queue["FLUSH"] \o <<t>>
        /\ xid_written \in [Session -> BOOLEAN]
        /\ m_queue["FLUSH"] \in Seq(Session)
    BY <1>1 DEF EnrollFlush, enroll_for, Goto, PipelineTypeOK, Stage
  <2>2. ~xid_written[t]
    BY <2>1 DEF XidInv, FlushOnce, Unflushed, Committing
  <2>3. UNCHANGED <<xid_written, m_prep_xids>>
    BY <2>1, <2>2
  <2>4. Elems(m_queue'["FLUSH"]) = Elems(m_queue["FLUSH"]) \cup {t}
    BY <2>1, ElemsAppend
  <2>5. NoneUnflushed
    BY <2>1, <2>4 DEF NoneUnflushed, Unflushed
  <2> QED BY <2>3, <2>5, XidStay
<1>2. CASE LockLog(t)
  <2>1. /\ UNCHANGED <<xid_written, m_prep_xids, todo>>
        /\ m_queue'["FLUSH"] = m_queue["FLUSH"] \/ m_queue'["FLUSH"] = <<>>
        /\ \E b \in {"flush", "enter_commit"} : pc' = [pc EXCEPT ![t] = b]
    BY <1>2 DEF LockLog, Goto, fetch_queue_for, PipelineTypeOK, Stage
  <2>2. NoneUnflushed
    BY <2>1, NotBack, ElemsEmpty DEF Committing
  <2> QED BY <2>1, <2>2, XidStay
<1>3. CASE FlushOne(t)
  BY <1>3, FlushOneXid
<1>4. CASE FetchRest(t)
  <2>1. /\ UNCHANGED <<xid_written, m_prep_xids>>
        /\ m_queue'["FLUSH"] = <<>> /\ todo'[t] = m_queue["FLUSH"]
        /\ \A u \in Session : u # t => pc'[u] = pc[u] /\ todo'[u] = todo[u]
        /\ pc'[t] = "flush_rest"
    BY <1>4 DEF FetchRest, Goto, PipelineTypeOK, Stage
  <2>2. NoneUnflushed
    BY <2>1, ElemsEmpty DEF NoneUnflushed, Unflushed, Committing
  <2> QED BY <2>1, <2>2, XidStay
<1>5. CASE FlushRest(t)
  BY <1>5, FlushRestXid
<1>6. CASE FlushToFile(t) \/ HandleFlushError(t) \/ sync_binlog_file(t)
           \/ HandleSyncError(t) \/ signal_done(t)
  <2>1. CASE Die
    BY <2>1, DieXid
  <2>2. CASE ~Die
    <3>1. /\ UNCHANGED <<xid_written, m_prep_xids, todo, m_queue>>
          /\ \E b \in {"enter_sync", "enter_commit", "signal", "finish"} :
               pc' = [pc EXCEPT ![t] = b]
      BY <1>6, <2>2 DEF FlushToFile, HandleFlushError, sync_binlog_file,
                        HandleSyncError, signal_done, Goto
    <3>2. NoneUnflushed
      BY <3>1, NotBack DEF Committing
    <3> QED BY <3>1, <3>2, XidStay
  <2> QED BY <2>1, <2>2
<1>7. CASE EnrollSync(t) \/ LockSync(t) \/ EnterCommit(t) \/ LockCommit(t)
  <2>1. /\ UNCHANGED <<xid_written, m_prep_xids>>
        /\ m_queue'["FLUSH"] = m_queue["FLUSH"]
        /\ \A u \in Session : u # t => todo'[u] = todo[u]
        /\ \E b \in {"lock_sync", "sync", "lock_commit", "commit", "sync_error",
                     "signal", "follower"} : pc' = [pc EXCEPT ![t] = b]
    BY <1>7 DEF EnrollSync, LockSync, EnterCommit, LockCommit, Goto,
                fetch_queue_for, enroll_for, PipelineTypeOK, Stage
  <2>2. NoneUnflushed
    BY <2>1, NotBack DEF Committing
  <2> QED BY <2>1, <2>2, XidStay
<1>8. CASE CommitOne(t)
  <2>1. todo[t] # <<>> /\ todo[t] \in Seq(Session)
    BY <1>8, CommitOnePipe DEF PipelineTypeOK
  <2>2. /\ Head(todo[t]) \in Session /\ dec_prep_xids(Head(todo[t]))
        /\ \A u \in Session : u # t => todo'[u] = todo[u]
        /\ UNCHANGED m_queue
    BY <1>8, <2>1 DEF CommitOne, dec_after_commit, PipelineTypeOK
  <2>3. \E b \in {"commit", "sync_error", "signal"} : pc' = [pc EXCEPT ![t] = b]
    BY <1>8 DEF CommitOne, Goto, PipelineTypeOK
  <2>4. NoneUnflushed
    BY <2>2, <2>3, NotBack DEF Committing
  <2> QED BY <2>2, <2>4, XidDone
<1>9. CASE finish_commit(t)
  <2>1. /\ dec_prep_xids(t) /\ UNCHANGED <<m_queue, todo>> /\ ~xid_written'[t]
        /\ \E b \in {"idle", "rotate"} : pc' = [pc EXCEPT ![t] = b]
    BY <1>9 DEF finish_commit, Goto, dec_prep_xids, PipelineTypeOK
  <2>2. NoneUnflushed
    BY <2>1, NotBack
  <2> QED BY <2>1, <2>2, XidDone
<1> QED BY <1>1, <1>2, <1>3, <1>4, <1>5, <1>6, <1>7, <1>8, <1>9
        DEF OrderedCommit

(* Every step of the specification and the count of XIDs. *)
LEMMA XidStep ==
  ASSUME PipelineTypeOK, PipeInv, XidInv, [Next]_vars
  PROVE  XidInv'
<1> USE DEF queues, flags
<1>1. ASSUME NEW t \in Session, OrderedCommit(t) PROVE XidInv'
  BY <1>1, OrderedCommitXid
<1>2. ASSUME NEW t \in Session, Rotate(t) \/ Snapshot(t) \/ Begin(t)
      PROVE  XidInv'
  <2>1. CASE Die
    BY <2>1, DieXid
  <2>2. CASE ~Die
    <3>1. /\ UNCHANGED <<xid_written, m_prep_xids, todo, m_queue>>
          /\ pc[t] \notin Committing \cup {"finish"}
          /\ \E b \in Label \ {"flush_rest"} : pc' = [pc EXCEPT ![t] = b]
      <4>1. CASE Rotate(t)
        BY <2>2, <4>1 DEF Rotate, RotateLock, RotateClose, RotateReopen,
                          RotateFails, Return, Goto, Label, Committing
      <4>2. CASE Snapshot(t)
        BY <4>2 DEF Snapshot, xlock, xlock_commits, xunlock, Goto, Label,
                    Committing
      <4>3. CASE Begin(t)
        BY <4>3 DEF Begin, prepare, CommitUnlogged, FlushLogs, StartSnapshot,
                    Goto, Label, Committing, PipelineTypeOK
      <4> QED BY <1>2, <4>1, <4>2, <4>3
    <3>2. NoneUnflushed
      BY <3>1, NotBack
    <3> QED BY <3>1, <3>2, XidStay
  <2> QED BY <2>1, <2>2
<1>3. CASE Crash
  BY <1>3, DieXid DEF Crash
<1>4. CASE SetSyncPeriod \/ SetOrderCommits \/ ha_recover \/ UNCHANGED vars
  <2>1. UNCHANGED <<pc, m_queue, todo, xid_written, m_prep_xids>>
    BY <1>4 DEF SetSyncPeriod, SetOrderCommits, ha_recover, vars
  <2>2. NoneUnflushed
    BY <2>1 DEF NoneUnflushed, Unflushed
  <2> QED BY <2>1, <2>2, XidStay
<1> QED BY <1>1, <1>2, <1>3, <1>4 DEF Next, Step

(***************************************************************************)
(* Types.                                                                  *)
(***************************************************************************)

(* The types of a server that has just died. *)
LEMMA DieType ==
  ASSUME TypeOK, Die
  PROVE  (PipelineTypeOK /\ DataTypeOK)'
<1> USE DEF TypeOK
<1>1. PipelineTypeOK'
  BY DEF Die, PipelineTypeOK, Label, Owner, options
<1>2. PICK n \in synced..Len(binlog) :
        binlog' = Prefix(binlog, n) /\ written' = n /\ synced' = n
  BY DEF Die
<1>3. binlog' \in Seq(Trx) /\ written' \in Nat /\ synced' \in Nat
  BY <1>2, SubSeqProperties DEF DataTypeOK, Prefix
<1>4. PICK k \in redo..Len(commit_log) :
        /\ committed' = committed \cup Elems(Prefix(commit_log, k))
        /\ prepared' = prepared \cup
                       Elems(SubSeq(commit_log, k + 1, Len(commit_log)))
  BY DEF Die
<1>5. /\ Prefix(commit_log, k) \in Seq(Trx)
      /\ SubSeq(commit_log, k + 1, Len(commit_log)) \in Seq(Trx)
  BY <1>4, SubSeqProperties DEF DataTypeOK, Prefix
<1>6. committed' \subseteq Trx /\ prepared' \subseteq Trx
  <2>1. \A q \in Seq(Trx) : Elems(q) \subseteq Trx
    BY ElemsType
  <2> QED BY <1>4, <1>5, <2>1 DEF DataTypeOK
<1>7. DataTypeOK'
  BY <1>3, <1>6 DEF Die, DataTypeOK
<1> QED BY <1>1, <1>7

(* A queue without its last part. *)
LEMMA SubSeqType ==
  ASSUME NEW S, NEW s \in Seq(S), NEW m \in Nat \ {0}, NEW n \in 0..Len(s)
  PROVE  SubSeq(s, m, n) \in Seq(S)
<1>1. \A i \in m..n : s[i] \in S
  OBVIOUS
<1> QED BY <1>1, SubSeqProperties

(* The types of the pipeline's state after a step of ordered_commit. *)
LEMMA OrderedCommitType ==
  ASSUME TypeOK, PipeInv, NEW t \in Session, OrderedCommit(t), ~Die
  PROVE  (PipelineTypeOK /\ DataTypeOK)'
<1> USE DEF TypeOK, queues, locks, flags, locals, options, logfile, engine,
            restart, Goto, Stage, Owner
<1> HIDE DEF Die
<1>0. \A u \in Session : Tid(u) \in Trx
  BY DEF DataTypeOK, Tid, Trx
<1>1. CASE EnrollFlush(t)
  <2>1. DataTypeOK'
    BY <1>1 DEF EnrollFlush, DataTypeOK
  <2>2. PipelineTypeOK'
    BY <1>1 DEF EnrollFlush, enroll_for, PipelineTypeOK, Label
  <2> QED BY <2>1, <2>2
<1>2. CASE LockLog(t)
  <2>1. DataTypeOK'
    BY <1>2 DEF LockLog, DataTypeOK
  <2>2. PipelineTypeOK'
    <3>1. CASE is_open
      BY <1>2, <3>1 DEF LockLog, PipelineTypeOK, Label
    <3>2. CASE ~is_open
      <4>1. /\ m_queue' \in [Stage -> Seq(Session)]
            /\ final_queue' \in [Session -> Seq(Session)]
        <5>1. fetch_queue_for(t, "FLUSH")
          BY <1>2, <3>2 DEF LockLog
        <5>2. m_queue["FLUSH"] \in Seq(Session)
          BY DEF PipelineTypeOK
        <5> QED BY <5>1, <5>2 DEF fetch_queue_for, PipelineTypeOK
      <4>2. /\ LOCK_log' \in Owner /\ flush_error' \in [Session -> {0, 1}]
            /\ pc' \in [Session -> Label]
        BY <1>2, <3>2 DEF LockLog, PipelineTypeOK, Label
      <4>3. UNCHANGED <<todo, LOCK_sync, LOCK_commit, LOCK_consistent_snapshot,
                        flags, do_rotate, sync_counter, options>>
        BY <1>2 DEF LockLog
      <4> QED BY <4>1, <4>2, <4>3 DEF PipelineTypeOK
    <3> QED BY <3>1, <3>2
  <2> QED BY <2>1, <2>2
<1>3. CASE FlushOne(t)
  <2>1. m_queue["FLUSH"] # <<>> /\ m_queue["FLUSH"] \in Seq(Session)
    BY <1>3, FlushOnePipe DEF PipelineTypeOK
  <2>2. PICK h \in Session, ok \in BOOLEAN :
          /\ h = Head(m_queue["FLUSH"])
          /\ flush_thread_caches(h, ok) /\ note_result(t, ok)
    BY <1>3, <2>1 DEF FlushOne
  <2>3. DataTypeOK'
    <3>1. binlog' = Append(binlog, Tid(h)) \/ binlog' = binlog
      BY <2>2 DEF flush_thread_caches
    <3>2. binlog' \in Seq(Trx)
      BY <1>0, <3>1 DEF DataTypeOK
    <3>3. UNCHANGED <<log_start, written, synced, is_open, in_use, prepared,
                      commit_log, redo, committed, boot, server, crashes, trx,
                      acked>>
      BY <1>3 DEF FlushOne
    <3> QED BY <3>2, <3>3 DEF DataTypeOK
  <2>4. PipelineTypeOK'
    <3>1. /\ commit_error' \in [Session -> {"NONE", "FLUSH", "SYNC"}]
          /\ xid_written' \in [Session -> BOOLEAN]
      <4>1. CASE ok
        BY <2>2, <4>1 DEF flush_thread_caches, PipelineTypeOK
      <4>2. CASE ~ok
        BY <2>2, <4>2 DEF flush_thread_caches, PipelineTypeOK
      <4> QED BY <4>1, <4>2
    <3>2. flush_error' \in [Session -> {0, 1}]
      BY <2>2 DEF note_result, PipelineTypeOK
    <3>3. /\ final_queue' = [final_queue EXCEPT ![t] = Append(@, h)]
          /\ m_queue' = [m_queue EXCEPT !["FLUSH"] = Tail(@)]
          /\ \E b \in {"flush", "flush_rest", "flushed"} :
               pc' = [pc EXCEPT ![t] = b]
          /\ UNCHANGED <<todo, locks, pending, do_rotate, sync_counter, options>>
      BY <1>3, <2>2 DEF FlushOne
    <3>4. /\ final_queue' \in [Session -> Seq(Session)]
          /\ m_queue' \in [Stage -> Seq(Session)]
          /\ pc' \in [Session -> Label]
      BY <2>1, <2>2, <3>3 DEF PipelineTypeOK, Label
    <3> QED BY <3>1, <3>2, <3>3, <3>4 DEF PipelineTypeOK
  <2> QED BY <2>3, <2>4
<1>4. CASE FetchRest(t)
  <2>1. DataTypeOK'
    BY <1>4 DEF FetchRest, DataTypeOK
  <2>2. PipelineTypeOK'
    BY <1>4 DEF FetchRest, PipelineTypeOK, Label
  <2> QED BY <2>1, <2>2
<1>5. CASE FlushRest(t)
  <2>1. todo[t] # <<>> /\ todo[t] \in Seq(Session)
    BY <1>5, FlushRestPipe DEF PipelineTypeOK
  <2>2. PICK h \in Session, ok \in BOOLEAN :
          /\ h = Head(todo[t])
          /\ flush_thread_caches(h, ok) /\ note_result(t, ok)
    BY <1>5, <2>1 DEF FlushRest
  <2>3. DataTypeOK'
    <3>1. binlog' = Append(binlog, Tid(h)) \/ binlog' = binlog
      BY <2>2 DEF flush_thread_caches
    <3>2. binlog' \in Seq(Trx)
      BY <1>0, <3>1 DEF DataTypeOK
    <3>3. UNCHANGED <<log_start, written, synced, is_open, in_use, prepared,
                      commit_log, redo, committed, boot, server, crashes, trx,
                      acked>>
      BY <1>5 DEF FlushRest
    <3> QED BY <3>2, <3>3 DEF DataTypeOK
  <2>4. PipelineTypeOK'
    <3>1. /\ commit_error' \in [Session -> {"NONE", "FLUSH", "SYNC"}]
          /\ xid_written' \in [Session -> BOOLEAN]
      <4>1. CASE ok
        BY <2>2, <4>1 DEF flush_thread_caches, PipelineTypeOK
      <4>2. CASE ~ok
        BY <2>2, <4>2 DEF flush_thread_caches, PipelineTypeOK
      <4> QED BY <4>1, <4>2
    <3>2. flush_error' \in [Session -> {0, 1}]
      BY <2>2 DEF note_result, PipelineTypeOK
    <3>3. /\ final_queue' = [final_queue EXCEPT ![t] = Append(@, h)]
          /\ todo' = [todo EXCEPT ![t] = Tail(@)]
          /\ \E b \in {"flush", "flush_rest", "flushed"} :
               pc' = [pc EXCEPT ![t] = b]
          /\ UNCHANGED <<m_queue, locks, pending, do_rotate, sync_counter, options>>
      BY <1>5, <2>2 DEF FlushRest
    <3>4. /\ final_queue' \in [Session -> Seq(Session)]
          /\ todo' \in [Session -> Seq(Session)]
          /\ pc' \in [Session -> Label]
      BY <2>1, <2>2, <3>3 DEF PipelineTypeOK, Label
    <3> QED BY <3>1, <3>2, <3>3, <3>4 DEF PipelineTypeOK
  <2> QED BY <2>3, <2>4
<1>6. CASE FlushToFile(t)
  <2>1. DataTypeOK'
    BY <1>6 DEF FlushToFile, DataTypeOK
  <2>2. PipelineTypeOK'
    BY <1>6, BoundAssumption DEF FlushToFile, FileSize, PipelineTypeOK, Label
  <2> QED BY <2>1, <2>2
<1>7. CASE HandleFlushError(t)
  <2>1. \E c \in Seq(Trx) : close_log(c)
    <3>1. binlog \in Seq(Trx) /\ written \in Nat
      BY DEF DataTypeOK
    <3>2. \A n \in written..Len(binlog) : Prefix(binlog, n) \in Seq(Trx)
      BY <3>1, SubSeqType DEF Prefix
    <3> QED BY <1>7, <3>1, <3>2 DEF HandleFlushError
  <2>2. DataTypeOK'
    <3>1. /\ binlog' \in Seq(Trx) /\ written' \in Nat /\ synced' \in Nat
          /\ is_open' = FALSE /\ in_use' = FALSE /\ log_start' = log_start
      BY <2>1 DEF close_log
    <3>2. UNCHANGED <<prepared, commit_log, redo, committed, boot, server,
                      crashes, trx, acked>>
      BY <1>7 DEF HandleFlushError
    <3> QED BY <3>1, <3>2 DEF DataTypeOK
  <2>3. PipelineTypeOK'
    BY <1>7 DEF HandleFlushError, FileSize, PipelineTypeOK, Label
  <2> QED BY <2>2, <2>3
<1>8. CASE EnrollSync(t)
  <2>1. DataTypeOK'
    BY <1>8 DEF EnrollSync, DataTypeOK
  <2>2. PipelineTypeOK'
    BY <1>8 DEF EnrollSync, enroll_for, PipelineTypeOK, Label
  <2> QED BY <2>1, <2>2
<1>9. CASE LockSync(t)
  <2>1. DataTypeOK'
    BY <1>9 DEF LockSync, DataTypeOK
  <2>2. PipelineTypeOK'
    BY <1>9 DEF LockSync, fetch_queue_for, PipelineTypeOK, Label
  <2> QED BY <2>1, <2>2
<1>10. CASE sync_binlog_file(t)
  <2>1. DataTypeOK'
    BY <1>10 DEF sync_binlog_file, DataTypeOK
  <2>2. PipelineTypeOK'
    <3>1. /\ sync_counter' \in Nat
          /\ commit_error' = commit_error
             \/ commit_error' = [commit_error EXCEPT ![t] = "SYNC"]
      BY <1>10 DEF sync_binlog_file, PipelineTypeOK
    <3>2. /\ LOCK_log' \in Owner /\ pc' = [pc EXCEPT ![t] = "enter_commit"]
          /\ UNCHANGED <<queues, LOCK_sync, LOCK_commit,
                         LOCK_consistent_snapshot, pending, xid_written,
                         locals, options>>
      BY <1>10 DEF sync_binlog_file, Unlock, PipelineTypeOK
    <3> QED BY <3>1, <3>2 DEF PipelineTypeOK, Label
  <2> QED BY <2>1, <2>2
<1>11. CASE EnterCommit(t)
  <2>1. DataTypeOK'
    BY <1>11 DEF EnterCommit, DataTypeOK
  <2>2. PipelineTypeOK'
    <3>1. /\ LOCK_log' \in Owner /\ LOCK_sync' \in Owner
          /\ UNCHANGED <<todo, LOCK_commit, LOCK_consistent_snapshot, flags,
                         locals, sync_counter, options>>
      BY <1>11 DEF EnterCommit, Unlock, PipelineTypeOK
    <3>2. \E b \in Label : pc' = [pc EXCEPT ![t] = b]
      BY <1>11 DEF EnterCommit, enroll_for, Label
    <3>3. /\ m_queue' \in [Stage -> Seq(Session)]
          /\ final_queue' \in [Session -> Seq(Session)]
      <4>1. CASE UNCHANGED <<m_queue, final_queue>>
        BY <4>1 DEF PipelineTypeOK
      <4>2. CASE /\ enroll_for(t, "COMMIT", final_queue[t], "lock_commit")
                 /\ final_queue' = [final_queue EXCEPT ![t] = <<>>]
        BY <4>2 DEF enroll_for, PipelineTypeOK
      <4> QED BY <1>11, <4>1, <4>2 DEF EnterCommit
    <3> QED BY <3>1, <3>2, <3>3 DEF PipelineTypeOK
  <2> QED BY <2>1, <2>2
<1>12. CASE LockCommit(t)
  <2>1. DataTypeOK'
    BY <1>12 DEF LockCommit, DataTypeOK
  <2>2. PipelineTypeOK'
    BY <1>12 DEF LockCommit, fetch_queue_for, PipelineTypeOK, Label
  <2> QED BY <2>1, <2>2
<1>13. CASE CommitOne(t)
  <2>1. todo[t] # <<>> /\ todo[t] \in Seq(Session)
    BY <1>13, CommitOnePipe DEF PipelineTypeOK
  <2>2. PICK h \in Session :
          /\ IF commit_low(h) THEN ha_commit_low(Tid(h)) ELSE UNCHANGED engine
          /\ dec_after_commit(h)
    BY <1>13, <2>1 DEF CommitOne
  <2>3. DataTypeOK'
    <3>1. commit_log' \in Seq(Trx) /\ prepared' \subseteq Trx /\ redo' \in Nat
      <4>1. ha_commit_low(Tid(h)) \/ UNCHANGED engine
        BY <2>2
      <4>2. CASE ha_commit_low(Tid(h))
        <5>1. Tid(h) \in Trx
          BY <1>0, <2>2
        <5> HIDE DEF Tid
        <5> QED BY <4>2, <5>1 DEF ha_commit_low, DataTypeOK
      <4>3. CASE UNCHANGED engine
        BY <4>3 DEF DataTypeOK
      <4> QED BY <4>1, <4>2, <4>3
    <3>2. UNCHANGED <<logfile, restart, trx, acked>>
      BY <1>13 DEF CommitOne
    <3> QED BY <3>1, <3>2 DEF DataTypeOK
  <2>4. PipelineTypeOK'
    <3>1. xid_written' \in [Session -> BOOLEAN]
      BY <2>2 DEF dec_after_commit, dec_prep_xids, PipelineTypeOK
    <3>2. /\ todo' \in [Session -> Seq(Session)] /\ pc' \in [Session -> Label]
          /\ LOCK_commit' \in Owner
      <4>1. /\ todo' = [todo EXCEPT ![t] = Tail(@)]
            /\ pc' = pc \/ \E b \in Label : pc' = [pc EXCEPT ![t] = b]
            /\ LOCK_commit' = LOCK_commit \/ LOCK_commit' = NoOne
        BY <1>13 DEF CommitOne, Label
      <4>2. Tail(todo[t]) \in Seq(Session)
        BY <2>1
      <4>3. todo' \in [Session -> Seq(Session)]
        BY <4>1, <4>2 DEF PipelineTypeOK
      <4>4. pc' \in [Session -> Label]
        BY <4>1 DEF PipelineTypeOK
      <4>5. LOCK_commit' \in Owner
        BY <4>1 DEF PipelineTypeOK
      <4> QED BY <4>3, <4>4, <4>5
    <3>3. UNCHANGED <<m_queue, final_queue, LOCK_log, LOCK_sync,
                      LOCK_consistent_snapshot, pending, commit_error, locals,
                      sync_counter, options>>
      BY <1>13 DEF CommitOne
    <3> QED BY <3>1, <3>2, <3>3 DEF PipelineTypeOK
  <2> QED BY <2>3, <2>4
<1>14. CASE HandleSyncError(t)
  <2>1. DataTypeOK'
    <3>1. close_log(binlog) \/ UNCHANGED logfile
      BY <1>14 DEF HandleSyncError
    <3>2. UNCHANGED <<engine, restart, trx, acked>>
      BY <1>14 DEF HandleSyncError
    <3>3. /\ binlog' \in Seq(Trx) /\ written' \in Nat /\ synced' \in Nat
          /\ log_start' \in Nat
      BY <3>1 DEF close_log, DataTypeOK
    <3>4. is_open' \in BOOLEAN /\ in_use' \in BOOLEAN
      BY <3>1 DEF close_log, DataTypeOK
    <3> QED BY <3>2, <3>3, <3>4 DEF DataTypeOK
  <2>2. PipelineTypeOK'
    BY <1>14 DEF HandleSyncError, PipelineTypeOK, Label
  <2> QED BY <2>1, <2>2
<1>15. CASE signal_done(t)
  <2>1. DataTypeOK'
    BY <1>15 DEF signal_done, DataTypeOK
  <2>2. PipelineTypeOK'
    BY <1>15 DEF signal_done, PipelineTypeOK, Label
  <2> QED BY <2>1, <2>2
<1>16. CASE finish_commit(t)
  <2>1. DataTypeOK'
    <3>1. commit_log' \in Seq(Trx) /\ prepared' \subseteq Trx /\ redo' \in Nat
      <4>1. ha_commit_low(Tid(t)) \/ UNCHANGED engine
        BY <1>16 DEF finish_commit
      <4>2. CASE UNCHANGED engine
        BY <4>2 DEF DataTypeOK
      <4>3. CASE ha_commit_low(Tid(t))
        <5>1. /\ commit_log' = Append(commit_log, Tid(t)) /\ redo' = redo
              /\ prepared' \subseteq prepared
          BY <4>3 DEF ha_commit_low
        <5> QED BY <1>0, <5>1 DEF DataTypeOK
      <4> QED BY <4>1, <4>2, <4>3
    <3>2. acked' \subseteq Trx
      BY <1>0, <1>16 DEF finish_commit, DataTypeOK
    <3>3. UNCHANGED <<logfile, restart, trx>>
      BY <1>16 DEF finish_commit
    <3> QED BY <3>1, <3>2, <3>3 DEF DataTypeOK
  <2>2. PipelineTypeOK'
    BY <1>16 DEF finish_commit, dec_prep_xids, PipelineTypeOK, Label
  <2> QED BY <2>1, <2>2
<1> QED BY <1>1, <1>2, <1>3, <1>4, <1>5, <1>6, <1>7, <1>8, <1>9, <1>10, <1>11,
           <1>12, <1>13, <1>14, <1>15, <1>16 DEF OrderedCommit

(* The types after a step outside the pipeline. *)
LEMMA OutsideType ==
  ASSUME TypeOK, NEW t \in Session, Rotate(t) \/ Snapshot(t) \/ Begin(t), ~Die
  PROVE  (PipelineTypeOK /\ DataTypeOK)'
<1> USE DEF TypeOK, queues, locks, flags, locals, options, logfile, engine,
            restart, Goto, Owner
<1> HIDE DEF Die
<1>0. /\ \A u \in Session : Tid(u) \in Trx
      /\ trx[t] < MaxTrx => <<t, trx[t] + 1>> \in Trx /\ trx[t] + 1 \in 0..MaxTrx
  BY BoundAssumption DEF DataTypeOK, Tid, Trx
<1>1. CASE Rotate(t)
  <2>1. DataTypeOK'
    <3>1. acked' \subseteq Trx
      BY <1>0, <1>1 DEF Rotate, RotateLock, RotateClose, RotateReopen,
                        RotateFails, Return, DataTypeOK
    <3>2. is_open' \in BOOLEAN /\ in_use' \in BOOLEAN
      <4>1. /\ is_open' = is_open \/ is_open' = FALSE
            /\ in_use' = in_use \/ in_use' \in BOOLEAN
        BY <1>1 DEF Rotate, RotateLock, RotateClose, RotateReopen, RotateFails
      <4> QED BY <4>1 DEF DataTypeOK
    <3>3. /\ written' \in Nat /\ synced' \in Nat /\ log_start' \in Nat
          /\ redo' \in Nat
      <4>1. /\ written' \in {written, Len(binlog)}
            /\ synced' \in {synced, Len(binlog)}
            /\ log_start' \in {log_start, Len(binlog)}
            /\ redo' \in {redo, Len(commit_log)}
        BY <1>1 DEF Rotate, RotateLock, RotateClose, RotateReopen, RotateFails,
                    ha_flush_logs
      <4> QED BY <4>1 DEF DataTypeOK
    <3>4. UNCHANGED <<binlog, prepared, commit_log, restart, trx>>
      BY <1>1 DEF Rotate, RotateLock, RotateClose, RotateReopen, RotateFails
    <3> QED BY <3>1, <3>2, <3>3, <3>4 DEF DataTypeOK
  <2>2. PipelineTypeOK'
    BY <1>1 DEF Rotate, RotateLock, RotateClose, RotateReopen, RotateFails,
                Return, PipelineTypeOK, Label
  <2> QED BY <2>1, <2>2
<1>2. CASE Snapshot(t)
  <2>1. DataTypeOK'
    BY <1>2 DEF Snapshot, xlock, xlock_commits, xunlock, DataTypeOK
  <2>2. PipelineTypeOK'
    BY <1>2 DEF Snapshot, xlock, xlock_commits, block_commit_stage, xunlock,
                Unlock, PipelineTypeOK, Label
  <2> QED BY <2>1, <2>2
<1>3. CASE Begin(t)
  <2>1. DataTypeOK'
    <3>1. /\ trx[t] < MaxTrx /\ trx' = [trx EXCEPT ![t] = @ + 1]
          /\ UNCHANGED <<logfile, restart>>
      BY <1>3 DEF Begin, prepare, CommitUnlogged, FlushLogs, StartSnapshot
    <3>2. /\ acked' \subseteq Trx /\ prepared' \subseteq Trx
          /\ commit_log' \in Seq(Trx) /\ redo' \in Nat
      <4>0. PICK x \in Trx : x = <<t, trx[t] + 1>>
        BY <1>0, <3>1
      <4>1. CASE prepare(t)
        <5>1. /\ prepared' = prepared \cup {x} /\ redo' = Len(commit_log)
              /\ UNCHANGED <<commit_log, acked>>
          BY <4>0, <4>1 DEF prepare
        <5> QED BY <5>1 DEF DataTypeOK
      <4>2. CASE CommitUnlogged(t)
        <5>1. /\ commit_log' = Append(commit_log, x) /\ UNCHANGED prepared
              /\ redo' = Len(commit_log) + 1 /\ acked' = acked \cup {x}
          BY <4>0, <4>2 DEF CommitUnlogged
        <5> QED BY <5>1 DEF DataTypeOK
      <4>3. CASE FlushLogs(t) \/ StartSnapshot(t)
        BY <4>3 DEF FlushLogs, StartSnapshot, DataTypeOK
      <4> QED BY <1>3, <4>1, <4>2, <4>3 DEF Begin
    <3>3. trx' \in [Session -> 0..MaxTrx]
      BY <1>0, <3>1 DEF DataTypeOK
    <3> QED BY <3>1, <3>2, <3>3 DEF DataTypeOK
  <2>2. PipelineTypeOK'
    BY <1>3 DEF Begin, prepare, CommitUnlogged, FlushLogs, StartSnapshot,
                PipelineTypeOK, Label
  <2> QED BY <2>1, <2>2
<1> QED BY <1>1, <1>2, <1>3

(* Every step of the specification keeps the types. *)
LEMMA TypeStep ==
  ASSUME TypeOK, PipeInv, [Next]_vars
  PROVE  (PipelineTypeOK /\ DataTypeOK)'
<1>1. CASE Die
  BY <1>1, DieType
<1>2. ASSUME NEW t \in Session, Step(t) \/ Begin(t), ~Die
      PROVE  (PipelineTypeOK /\ DataTypeOK)'
  BY <1>2, OrderedCommitType, OutsideType DEF Step
<1>3. CASE SetSyncPeriod \/ SetOrderCommits \/ ha_recover \/ UNCHANGED vars
  <2> USE DEF TypeOK, vars, queues, locks, flags, locals, options, logfile,
              engine, restart
  <2>1. DataTypeOK'
    <3>1. CASE SetSyncPeriod \/ SetOrderCommits \/ UNCHANGED vars
      BY <3>1 DEF SetSyncPeriod, SetOrderCommits, DataTypeOK
    <3>2. CASE ha_recover
      <4>1. /\ UNCHANGED <<binlog, written, synced, commit_log, redo, crashes,
                           trx, acked>>
            /\ committed' \subseteq Trx /\ prepared' \subseteq Trx
            /\ log_start' \in Nat /\ boot' \in Nat
            /\ server' \in {"up", "refused"}
        BY <3>2 DEF ha_recover, DataTypeOK
      <4>2. /\ is_open' = is_open \/ is_open' = TRUE
            /\ in_use' = in_use \/ in_use' = TRUE
        BY <3>2 DEF ha_recover
      <4>3. is_open' \in BOOLEAN /\ in_use' \in BOOLEAN
        BY <4>2 DEF DataTypeOK
      <4> QED BY <4>1, <4>3 DEF DataTypeOK
    <3> QED BY <1>3, <3>1, <3>2
  <2>2. PipelineTypeOK'
    BY <1>3 DEF SetSyncPeriod, SetOrderCommits, ha_recover, PipelineTypeOK
  <2> QED BY <2>1, <2>2
<1> QED BY <1>1, <1>2, <1>3 DEF Next, Crash

(***************************************************************************)
(* The theorems.                                                           *)
(***************************************************************************)

(* The server starts with empty queues and no transaction. *)
LEMMA InitInv == Init => IndInv
<1> SUFFICES ASSUME Init PROVE IndInv
  OBVIOUS
<1>1. TypeOK
  BY BoundAssumption DEF Init, TypeOK, PipelineTypeOK, DataTypeOK, Label, Owner
<1>2. PipeInv
  BY ResetPipe DEF Init, Reset
<1>3. FlushOnce
  BY DEF Init, FlushOnce
<1>4. XidCount
  <2>1. {u \in Session : xid_written[u]} = {}
    BY DEF Init
  <2> QED BY <2>1, FS_EmptySet DEF Init, XidCount
<1> QED BY <1>1, <1>2, <1>3, <1>4 DEF IndInv

(* The pipeline's invariant: every session that commits is in one place,   *)
(* every stage has one leader, and every XID is written and counted once.  *)
THEOREM Invariance == Spec => []IndInv
<1>1. Init => IndInv
  BY InitInv
<1>2. IndInv /\ [Next]_vars => IndInv'
  <2> SUFFICES ASSUME IndInv, [Next]_vars PROVE IndInv'
    OBVIOUS
  <2>1. PipelineTypeOK /\ TypeOK /\ PipeInv /\ XidInv
    BY DEF IndInv, TypeOK, XidInv
  <2>2. PipeInv'
    BY <2>1, PipeStep
  <2>3. XidInv'
    BY <2>1, XidStep
  <2>4. m_prep_xids' \in Nat
    <3>1. (XidCount => m_prep_xids \in Nat)'
      BY XidNat, PTL
    <3> QED BY <2>3, <3>1 DEF XidInv
  <2>5. TypeOK'
    BY <2>1, <2>4, TypeStep DEF TypeOK
  <2> QED BY <2>2, <2>3, <2>5 DEF IndInv, XidInv
<1> QED BY <1>1, <1>2, PTL DEF Spec

(* Every variable has its type; in particular m_prep_xids, which           *)
(* ordered_commit and finish_commit both count down, is never negative.    *)
THEOREM TypeCorrect == Spec => []TypeOK
<1>1. IndInv => TypeOK
  BY DEF IndInv
<1> QED BY <1>1, Invariance, PTL

(* enroll_for, fetch_queue_for, pop_front and signal_done never lose a     *)
(* waiting session and never give it to two leaders.                       *)
THEOREM SessionsInOnePlace == Spec => []OnePlace
<1>1. IndInv => OnePlace
  BY DEF IndInv, PipeInv
<1> QED BY <1>1, Invariance, PTL

(* Every stage whose queue is not empty has exactly one leader.            *)
THEOREM StagesHaveOneLeader == Spec => []OneLeader
<1>1. IndInv => OneLeader
  BY DEF IndInv, PipeInv
<1> QED BY <1>1, Invariance, PTL

============================================================================
