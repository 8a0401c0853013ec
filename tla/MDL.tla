-------------------------------- MODULE MDL --------------------------------
(***************************************************************************)
(* Metadata locks: sql/mdl.cc.                                             *)
(*                                                                         *)
(* An MDL_lock keeps the tickets granted on an object and a queue of those *)
(* that wait.  Who cannot be granted its lock queues a ticket, publishes   *)
(* it in m_waiting_for, looks for a deadlock and sleeps on its wait slot,  *)
(* which takes one message: GRANTED, VICTIM, or its own TIMEOUT or KILLED. *)
(* Whoever takes a ticket away grants what can be granted now.             *)
(*                                                                         *)
(* A step holds MDL_lock::m_rwlock of one object for writing, or is one    *)
(* node of a search for deadlocks.  A search holds m_rwlock and            *)
(* m_LOCK_waiting_for for reading along its path, and writers wait for     *)
(* it; readers never wait for a writer that waits.                         *)
(***************************************************************************)
EXTENDS Integers, FiniteSets, SequencesExt

CONSTANTS
  Context,               \* MDL_contexts, one for each session
  Key,                   \* the tables locked
  Requests,              \* the pairs of key and type that are asked for
  Upgrades, Downgrades,  \* pairs of types
  max_write_lock_count,
  MAX_SEARCH_DEPTH,
  MaxRequests,           \* bound: requests and upgrades of a context
  MaxAborts              \* bound: waits that end by themselves

ObjectType == {"S", "SH", "SR", "SW", "SU", "SNW", "SNRW", "X"}

ASSUME MDLAssumption ==
  /\ IsFiniteSet(Context)
  /\ Requests \subseteq Key \X ObjectType
  /\ Upgrades \subseteq ObjectType \X ObjectType
  /\ Downgrades \subseteq {"X", "SNW"} \X ObjectType
  /\ max_write_lock_count \in Nat \ {0} /\ MAX_SEARCH_DEPTH \in Nat \ {0}
  /\ MaxRequests \in Nat /\ MaxAborts \in Nat

VARIABLES
  m_granted,      \* of each key: the set of tickets granted
  m_waiting,      \* of each key: the queue of tickets that wait
  m_hog_lock_count,
  m_wait,         \* the wait slot of each context
  m_waiting_for,  \* the key and type each context is known to wait for
  pc,
  request,        \* what a context asks for
  upgraded,       \* the type it will replace, if it upgrades
  path,           \* of its search: nodes entered, with edges to follow
  victim,         \* chosen by its search
  corrupted,      \* a ticket was taken out of a list it is not in
  requests, aborts

queues  == <<m_granted, m_waiting, m_hog_lock_count>>
search  == <<path, victim>>
local   == <<request, upgraded>>
counts  == <<requests, aborts>>
vars == <<queues, m_wait, m_waiting_for, pc, local, search, corrupted,
          counts>>

None == "none"
NoRequest == <<None, None>>

Goto(c, label) == pc' = [pc EXCEPT ![c] = label]

Enter(c, what, old) ==
  /\ request' = [request EXCEPT ![c] = what]
  /\ upgraded' = [upgraded EXCEPT ![c] = old]

Return(c) == Goto(c, "idle") /\ Enter(c, NoRequest, None)

(***************************************************************************)
(* Types of locks.                                                         *)
(***************************************************************************)

(* m_granted_incompatible: what a request cannot be granted next to. *)
incompatible_granted ==
  [S  |-> {"X"}, SH |-> {"X"},
   SR |-> {"X", "SNRW"},
   SW |-> {"X", "SNRW", "SNW"},
   SU |-> {"X", "SNRW", "SNW", "SU"},
   SNW  |-> {"X", "SNRW", "SNW", "SU", "SW"},
   SNRW |-> {"X", "SNRW", "SNW", "SU", "SW", "SR"},
   X    |-> ObjectType]

(* m_waiting_incompatible: for which waiting requests it stands back. *)
incompatible_waiting ==
  [S  |-> {"X"}, SH |-> {},
   SR |-> {"X", "SNRW"},
   SW |-> {"X", "SNRW", "SNW"},
   SU |-> {"X"}, SNW |-> {"X"}, SNRW |-> {"X"}, X |-> {}]

hog_lock_types == {"SNW", "SNRW", "X"}

stronger_or_equal(have, type) ==
  incompatible_granted[type] \subseteq incompatible_granted[have]

(* get_deadlock_weight: MDL_SHARED_UPGRADABLE and above are for DDL. *)
weight(type) == IF type \in {"SU", "SNW", "SNRW", "X"} THEN 100 ELSE 0

(***************************************************************************)
(* The queues of an object.                                                *)
(***************************************************************************)

Ticket(c, type) == [ctx |-> c, type |-> type]
types_in(Q) == {t.type : t \in Q}

FaultOwnTicketSuffices(tk, G) ==
  \/ incompatible_granted[tk.type] \cap types_in(G) = {}
  \/ \E t \in G : t.ctx = tk.ctx

(* No incompatible ticket of another context. *)
compatible(tk, G) ==
  \A t \in G : t.ctx # tk.ctx => t.type \notin incompatible_granted[tk.type]

can_grant_lock(tk, G, Q, ignore_lock_priority) ==
  /\ \/ ignore_lock_priority
     \/ incompatible_waiting[tk.type] \cap types_in(Q) = {}
  /\ compatible(tk, G)

weak_waiting(Q) == types_in(Q) \ hog_lock_types # {}

FaultNoLimit(Q, h) == FALSE
skip_high_priority(Q, h) ==
  h >= max_write_lock_count /\ weak_waiting(Q)

(* MDL_wait::set_status: the slot takes the first message only. *)
FaultNeverOccupied(status) == TRUE
slot_free(status) == status = "EMPTY"

(* The queue W without the tickets at the positions D. *)
without(W, D) ==
  LET left == DOMAIN W \ D
      nth(n) == CHOOSE i \in left : Cardinality({j \in left : j <= i}) = n
  IN  [n \in 1..Cardinality(left) |-> W[nth(n)]]

(* MDL_lock::reschedule_waiters, of an object with the granted tickets G   *)
(* and the queue W: who can be granted its lock is, from the head on.  D   *)
(* is where it is granted; the ticket at i meets what the ones before it   *)
(* in D have left, and the end of the queue is one place further.          *)
reschedule_waiters(k, G, W) ==
  LET skip == skip_high_priority(ToSet(W), m_hog_lock_count[k])
      hog(tk) == tk.type \in hog_lock_types
  IN  \E D \in SUBSET DOMAIN W :
        LET before(i) == {j \in D : j < i}
            granted(i) == {W[j] : j \in before(i)}
            waiting(i) == {W[j] : j \in DOMAIN W \ before(i)}
            wait(i) == [c \in Context |->
                          IF \E t \in granted(i) : t.ctx = c
                          THEN "GRANTED" ELSE m_wait[c]]
            end == Len(W) + 1
            hogs == Cardinality({i \in D : hog(W[i])})
        IN  /\ \A i \in DOMAIN W :
                 i \in D <=>
                   /\ ~(skip /\ hog(W[i]))
                   /\ can_grant_lock(W[i], G \cup granted(i), waiting(i),
                                     skip)
                   /\ slot_free(wait(i)[W[i].ctx])
            /\ m_granted' = [m_granted EXCEPT ![k] = G \cup granted(end)]
            /\ m_waiting' = [m_waiting EXCEPT ![k] = without(W, D)]
            /\ m_hog_lock_count' = [m_hog_lock_count EXCEPT ![k] =
                 IF weak_waiting(waiting(end)) THEN @ + hogs ELSE 0]
            /\ m_wait' = wait(end)

FaultSameBitmaps(k, G, W) ==
  IF /\ types_in(G) = types_in(m_granted[k])
     /\ types_in(ToSet(W)) = types_in(ToSet(m_waiting[k]))
  THEN /\ m_granted' = [m_granted EXCEPT ![k] = G]
       /\ m_waiting' = [m_waiting EXCEPT ![k] = W]
       /\ UNCHANGED <<m_hog_lock_count, m_wait>>
  ELSE reschedule_waiters(k, G, W)

(* MDL_lock::remove_ticket.  A lock that is empty goes to the cache of     *)
(* unused ones.  The object that serves the key next may be any of the     *)
(* cache, or a new one: MDL_object_lock::reset leaves it the count of      *)
(* strong locks it had for the key it served before.                       *)
remove_ticket(k, G, W) ==
  IF G = {} /\ W = <<>>
  THEN /\ m_granted' = [m_granted EXCEPT ![k] = {}]
       /\ m_waiting' = [m_waiting EXCEPT ![k] = <<>>]
       /\ \E hogs \in 0..max_write_lock_count :
            m_hog_lock_count' = [m_hog_lock_count EXCEPT ![k] = hogs]
       /\ UNCHANGED m_wait
  ELSE reschedule_waiters(k, G, W)

(***************************************************************************)
(* Locks held while a search is under way.                                 *)
(***************************************************************************)

on_path(c) ==
  \E s \in Context : \E i \in DOMAIN path[s] : path[s][i].ctx = c

m_rwlock_read(k) ==
  \E c \in Context : on_path(c) /\ m_waiting_for[c][1] = k

LOCK_waiting_for_read(c) == on_path(c) \/ \E s \in Context : victim[s] = c

(***************************************************************************)
(* Asking for a lock.                                                      *)
(***************************************************************************)

(* try_acquire_lock_impl and, without success, the queue.  MDL_context::   *)
(* try_acquire_lock gives up instead, and nothing has changed.             *)
acquire_lock(c, k, type, old) ==
  /\ ~m_rwlock_read(k)
  /\ IF can_grant_lock(Ticket(c, type), m_granted[k], ToSet(m_waiting[k]),
                       FALSE)
     THEN /\ m_granted' = [m_granted EXCEPT ![k] = @ \cup {Ticket(c, type)}]
          /\ IF old = None
             THEN UNCHANGED <<pc, local>>
             ELSE Goto(c, "merge") /\ Enter(c, <<k, type>>, old)
          /\ UNCHANGED <<m_waiting, m_wait>>
     ELSE /\ m_waiting' = [m_waiting EXCEPT ![k] = Append(@, Ticket(c, type))]
          /\ m_wait' = [m_wait EXCEPT ![c] = "EMPTY"]
          /\ Goto(c, "queued") /\ Enter(c, <<k, type>>, old)
          /\ UNCHANGED m_granted
  /\ requests[c] < MaxRequests
  /\ requests' = [requests EXCEPT ![c] = @ + 1]
  /\ UNCHANGED <<m_hog_lock_count, m_waiting_for, search, corrupted, aborts>>

(* find_ticket: with a ticket as strong there is nothing to do. *)
has_ticket(c, k, type) ==
  \E t \in m_granted[k] : t.ctx = c /\ stronger_or_equal(t.type, type)

Acquire(c) ==
  /\ pc[c] = "idle"
  /\ \E r \in Requests : ~has_ticket(c, r[1], r[2])
                         /\ acquire_lock(c, r[1], r[2], None)

upgrade_shared_lock(c) ==
  /\ pc[c] = "idle"
  /\ \E k \in Key, u \in Upgrades :
       /\ Ticket(c, u[1]) \in m_granted[k]
       /\ ~has_ticket(c, k, u[2])
       /\ acquire_lock(c, k, u[2], u[1])

(* The tickets of an upgrade become one, of the new type. *)
Merge(c) ==
  LET k == request[c][1] IN
  /\ pc[c] = "merge"
  /\ ~m_rwlock_read(k)
  /\ m_granted' = [m_granted EXCEPT ![k] = @ \ {Ticket(c, upgraded[c])}]
  /\ Return(c)
  /\ UNCHANGED <<m_waiting, m_hog_lock_count, m_wait, m_waiting_for, search,
                 corrupted, counts>>

will_wait_for(c) ==
  /\ pc[c] = "queued"
  /\ ~LOCK_waiting_for_read(c)
  /\ m_waiting_for' = [m_waiting_for EXCEPT ![c] = request[c]]
  /\ Goto(c, "search")
  /\ UNCHANGED <<queues, m_wait, local, search, corrupted, counts>>

(***************************************************************************)
(* The search for a deadlock.                                              *)
(***************************************************************************)

waits(n) == m_waiting_for[n] # NoRequest /\ slot_free(m_wait[n])

(* The tickets that n waits for: granted ones, and others with priority. *)
edges(n) ==
  LET k == m_waiting_for[n][1]
      type == m_waiting_for[n][2]
  IN  {t \in m_granted[k] :
         t.ctx # n /\ t.type \in incompatible_granted[type]}
        \cup
      {t \in ToSet(m_waiting[k]) :
         t.ctx # n /\ t.type \in incompatible_waiting[type]}

(* opt_change_victim_to, from the last node back to the first: the one of  *)
(* lowest weight, the first of these.                                      *)
choose_victim(nodes) ==
  LET w(i) == weight(m_waiting_for[nodes[i]][2])
      first == CHOOSE i \in DOMAIN nodes :
                 \A j \in DOMAIN nodes :
                   w(i) < w(j) \/ (w(i) = w(j) /\ i <= j)
  IN  nodes[first]

(* MDL_lock::visit_subgraph for node n, in the search of c, after nodes P. *)
visit_subgraph(c, n, P) ==
  IF ~waits(n)
  THEN /\ path' = [path EXCEPT ![c] = P]
       /\ Goto(c, IF P = <<>> THEN "wait" ELSE "visit")
       /\ UNCHANGED victim
  ELSE IF \/ Len(P) + 1 >= MAX_SEARCH_DEPTH
          \/ \E t \in edges(n) : t.ctx = c
  THEN /\ victim' = [victim EXCEPT ![c] =
            choose_victim(Append([i \in DOMAIN P |-> P[i].ctx], n))]
       /\ path' = [path EXCEPT ![c] = <<>>]
       /\ Goto(c, "victim")
  ELSE /\ path' = [path EXCEPT ![c] =
                     Append(P, [ctx |-> n, todo |-> edges(n)])]
       /\ Goto(c, "visit")
       /\ UNCHANGED victim

find_deadlock(c) ==
  /\ \/ pc[c] = "search" /\ visit_subgraph(c, c, <<>>)
     \/ /\ pc[c] = "visit"
        /\ \E t \in Last(path[c]).todo :
             visit_subgraph(c, t.ctx,
               [path[c] EXCEPT ![Len(path[c])].todo = @ \ {t}])
     \/ /\ pc[c] = "visit"
        /\ Last(path[c]).todo = {}
        /\ path' = [path EXCEPT ![c] = Front(@)]
        /\ Goto(c, IF Len(path[c]) = 1 THEN "wait" ELSE "visit")
        /\ UNCHANGED victim
  /\ UNCHANGED <<queues, m_wait, m_waiting_for, local, corrupted, counts>>

FaultOneVictim(c) == "wait"
(* Another victim leaves other loops through c, so it searches again. *)
after_victim(c) == IF victim[c] = c THEN "wait" ELSE "search"

SetVictim(c) ==
  /\ pc[c] = "victim"
  /\ m_wait' = [m_wait EXCEPT ![victim[c]] =
                  IF slot_free(@) THEN "VICTIM" ELSE @]
  /\ Goto(c, after_victim(c))
  /\ victim' = [victim EXCEPT ![c] = None]
  /\ UNCHANGED <<queues, m_waiting_for, local, path, corrupted, counts>>

(***************************************************************************)
(* The wait and its end.                                                   *)
(***************************************************************************)

(* timed_wait returns: with a message, or with one of its own, put into    *)
(* the slot while that is still empty (a timeout; being killed is alike),  *)
(* or without any after a second, and the client has gone meanwhile.       *)
timed_wait(c) ==
  /\ pc[c] = "wait"
  /\ \/ /\ ~slot_free(m_wait[c])
        /\ Goto(c, "done")
        /\ UNCHANGED <<m_wait, aborts>>
     \/ /\ slot_free(m_wait[c]) /\ aborts < MaxAborts
        /\ aborts' = aborts + 1
        /\ \/ m_wait' = [m_wait EXCEPT ![c] = "TIMEOUT"] /\ Goto(c, "done")
           \/ UNCHANGED m_wait /\ Goto(c, "gone")
  /\ UNCHANGED <<queues, m_waiting_for, local, search, corrupted, requests>>

done_waiting_for(c) ==
  /\ pc[c] \in {"done", "gone"}
  /\ ~LOCK_waiting_for_read(c)
  /\ m_waiting_for' = [m_waiting_for EXCEPT ![c] = NoRequest]
  /\ LET granted == pc[c] = "done" /\ m_wait[c] = "GRANTED"
     IN  IF granted /\ upgraded[c] = None
         THEN Return(c)
         ELSE /\ Goto(c, IF granted THEN "merge" ELSE "remove")
              /\ UNCHANGED local
  /\ UNCHANGED <<queues, m_wait, search, corrupted, counts>>

(* The ticket of a wait in vain leaves m_waiting.  If it is in m_granted   *)
(* by then, its removal ruins both lists.                                  *)
RemoveWaiting(c) ==
  LET k == request[c][1]
      tk == Ticket(c, request[c][2])
  IN  /\ pc[c] = "remove"
      /\ ~m_rwlock_read(k)
      /\ IF tk \in ToSet(m_waiting[k])
         THEN /\ LET W == m_waiting[k]
                 IN  remove_ticket(k, m_granted[k],
                                   without(W, {i \in DOMAIN W : W[i] = tk}))
              /\ Return(c)
              /\ UNCHANGED corrupted
         ELSE corrupted' = TRUE /\ UNCHANGED <<queues, m_wait, pc, local>>
      /\ UNCHANGED <<m_waiting_for, search, counts>>

(***************************************************************************)
(* Giving up a lock.                                                       *)
(***************************************************************************)

release_lock(c) ==
  /\ pc[c] = "idle"
  /\ \E k \in Key : \E t \in m_granted[k] :
       /\ t.ctx = c /\ ~m_rwlock_read(k)
       /\ remove_ticket(k, m_granted[k] \ {t}, m_waiting[k])
  /\ UNCHANGED <<m_waiting_for, pc, local, search, corrupted, counts>>

downgrade_lock(c) ==
  /\ pc[c] = "idle"
  /\ \E k \in Key, d \in Downgrades :
       /\ Ticket(c, d[1]) \in m_granted[k] /\ d[1] # d[2]
       /\ stronger_or_equal(d[1], d[2])
       /\ ~m_rwlock_read(k)
       /\ reschedule_waiters(k, (m_granted[k] \ {Ticket(c, d[1])})
                                  \cup {Ticket(c, d[2])}, m_waiting[k])
  /\ UNCHANGED <<m_waiting_for, pc, local, search, corrupted, counts>>

(***************************************************************************)
(* The specification.                                                      *)
(***************************************************************************)

Init ==
  /\ m_granted = [k \in Key |-> {}] /\ m_waiting = [k \in Key |-> <<>>]
  /\ m_hog_lock_count = [k \in Key |-> 0]
  /\ m_wait = [c \in Context |-> "EMPTY"]
  /\ m_waiting_for = [c \in Context |-> NoRequest]
  /\ pc = [c \in Context |-> "idle"]
  /\ request = [c \in Context |-> NoRequest]
  /\ upgraded = [c \in Context |-> None]
  /\ path = [c \in Context |-> <<>>] /\ victim = [c \in Context |-> None]
  /\ corrupted = FALSE
  /\ requests = [c \in Context |-> 0] /\ aborts = 0

Step(c) ==
  \/ Acquire(c) \/ upgrade_shared_lock(c) \/ Merge(c)
  \/ will_wait_for(c) \/ find_deadlock(c) \/ SetVictim(c)
  \/ timed_wait(c) \/ done_waiting_for(c) \/ RemoveWaiting(c)
  \/ release_lock(c) \/ downgrade_lock(c)

Next == ~corrupted /\ \E c \in Context : Step(c)

Spec == Init /\ [][Next]_vars

(***************************************************************************)
(* Properties.                                                             *)
(***************************************************************************)

(* Types; the counter of strong locks that reschedule_waiters granted in a *)
(* row while a weak one waits stays within max_write_lock_count.           *)
TypeOK ==
  /\ m_granted \in
       [Key -> SUBSET [ctx : Context, type : ObjectType]]
  /\ \A k \in Key : m_waiting[k] \in
       Seq([ctx : Context, type : ObjectType])
  /\ m_hog_lock_count \in [Key -> 0..max_write_lock_count]
  /\ m_wait \in [Context -> {"EMPTY", "GRANTED", "VICTIM", "TIMEOUT"}]
  /\ \A c \in Context : m_waiting_for[c] \in {NoRequest, request[c]}
  /\ pc \in [Context -> {"idle", "merge", "queued", "search", "visit",
                         "victim", "wait", "done", "gone", "remove"}]
  /\ victim \in [Context -> Context \cup {None}]
  /\ \A c \in Context : Len(path[c]) < MAX_SEARCH_DEPTH
  /\ corrupted \in BOOLEAN
  /\ requests \in [Context -> 0..MaxRequests] /\ aborts \in 0..MaxAborts

(* Locks granted to different contexts on one object are compatible,       *)
(* whether they were granted at once, from the queue, or by an upgrade or  *)
(* a downgrade.                                                            *)
CompatibleLocks ==
  \A k \in Key : \A t, u \in m_granted[k] :
    t.ctx # u.ctx => t.type \notin incompatible_granted[u.type]

(* The wait slot tells a context where its ticket is: it is granted if and *)
(* only if the slot says so, or the context removes the wrong one.  That   *)
(* includes a context that has given up: its slot is closed, and its       *)
(* ticket still waits, unless its client has gone (then acquire_lock       *)
(* leaves the slot open, and the ticket it removes may be granted).        *)
SlotTellsTheTruth ==
  \A c \in Context :
    pc[c] \notin {"idle", "merge"} =>
      LET k == request[c][1]
          tk == Ticket(c, request[c][2])
      IN  IF m_wait[c] = "GRANTED"
          THEN tk \in m_granted[k] /\ tk \notin ToSet(m_waiting[k])
          ELSE tk \notin m_granted[k] /\ tk \in ToSet(m_waiting[k])

(* Nobody sleeps who could be granted its lock, except for a strong lock   *)
(* that stands back for weak ones: some of these wait, or somebody else    *)
(* has got a lock and will look for waiters when it is released.           *)
NothingGrantableWaits ==
  \A k \in Key :
    LET Q == ToSet(m_waiting[k])
    IN  \A tk \in Q :
          /\ slot_free(m_wait[tk.ctx])
          /\ can_grant_lock(tk, m_granted[k], Q, FALSE)
          => /\ tk.type \in hog_lock_types
             /\ \/ skip_high_priority(Q, m_hog_lock_count[k])
                \/ \E t \in m_granted[k] : t.ctx # tk.ctx

(* Contexts that wait for each other do not go on doing so: once every     *)
(* search is over the wait-for graph has no cycle.                         *)
DeadlocksBroken ==
  (\A c \in Context : pc[c] \notin {"queued", "search", "visit", "victim"})
    => LET sleeping ==
             {c \in Context : pc[c] = "wait" /\ slot_free(m_wait[c])}
       IN  \A S \in (SUBSET sleeping) \ {{}} :
             \E c \in S : \A t \in edges(c) : t.ctx \notin S

(* Somebody who waits is always waited on by no one but a context that can *)
(* still do something: if reschedule_waiters wakes nobody because of weak  *)
(* locks, these "are either killed, timed out or chosen as a victim".      *)
WaitersCanGoOn ==
  \/ \A c \in Context : pc[c] = "idle"
  \/ \E c \in Context :
       \/ pc[c] \notin {"idle", "wait"}
       \/ pc[c] = "wait" /\ ~slot_free(m_wait[c])
       \/ pc[c] = "idle" /\ \E k \in Key : \E t \in m_granted[k] : t.ctx = c

============================================================================
