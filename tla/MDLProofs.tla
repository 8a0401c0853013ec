----------------------------- MODULE MDLProofs -----------------------------
(***************************************************************************)
(* Proofs about MDL, for any contexts, tables, requests and limits: locks  *)
(* granted to different contexts are compatible, the wait slot tells a     *)
(* context where its ticket is, nobody sleeps who could be granted its     *)
(* lock, and contexts that wait for each other are found by a search.      *)
(***************************************************************************)
EXTENDS MDL, FiniteSetTheorems, FunctionTheorems, SequenceTheorems,
        WellFoundedInduction, TLAPS

(***************************************************************************)
(* The inductive invariant.                                                *)
(***************************************************************************)

AllTickets == [ctx : Context, type : ObjectType]
Nodes == [ctx : Context, todo : SUBSET AllTickets]
Asked == Key \X ObjectType

(* Where a context has a ticket that was queued and is not yet dealt with. *)
Waiting == {"queued", "search", "visit", "victim", "wait", "done", "gone",
            "remove"}

asked_key(c) == request[c][1]
asked_ticket(c) == Ticket(c, request[c][2])

(* What TypeOK leaves open: the whole of the queues, of the requests, and  *)
(* of the path of a search, which is empty unless the search is under way. *)
Shapes ==
  /\ m_waiting \in [Key -> Seq(AllTickets)]
  /\ m_waiting_for \in [Context -> Asked \cup {NoRequest}]
  /\ request \in [Context -> Asked \cup {NoRequest}]
  /\ upgraded \in [Context -> ObjectType \cup {None}]
  /\ path \in [Context -> Seq(Nodes)]

PathOK == \A c \in Context : pc[c] = "visit" <=> path[c] # <<>>

(* A context publishes its request after it has queued a ticket and takes  *)
(* it back before it gives up the ticket.                                  *)
PublishedOK ==
  \A c \in Context :
    /\ m_waiting_for[c] \in {NoRequest, request[c]}
    /\ pc[c] \in {"idle", "merge", "queued", "remove"} =>
         m_waiting_for[c] = NoRequest

(* A ticket that waits is the one its context asks for, and its context    *)
(* has not been told that it is granted.                                   *)
QueuedAsk ==
  \A k \in Key : \A t \in ToSet(m_waiting[k]) :
    /\ pc[t.ctx] \in Waiting
    /\ request[t.ctx] = <<k, t.type>>
    /\ m_wait[t.ctx] # "GRANTED"

(* A context has one place in a queue. *)
OneEach ==
  \A k \in Key : \A i, j \in DOMAIN m_waiting[k] :
    m_waiting[k][i].ctx = m_waiting[k][j].ctx => i = j

(* The ticket of a wait that is not over is in one of the lists. *)
HeldOrQueued ==
  \A c \in Context : pc[c] \in Waiting =>
    /\ request[c] \in Asked
    /\ IF m_wait[c] = "GRANTED"
       THEN asked_ticket(c) \in m_granted[asked_key(c)]
       ELSE /\ asked_ticket(c) \notin m_granted[asked_key(c)]
            /\ asked_ticket(c) \in ToSet(m_waiting[asked_key(c)])

(* Before the tickets of an upgrade become one the new one is granted, and *)
(* it is stronger than the old one.                                        *)
MergeHolds ==
  \A c \in Context : pc[c] = "merge" =>
    /\ request[c] \in Asked /\ upgraded[c] # None
    /\ asked_ticket(c) \in m_granted[asked_key(c)]

UpgradeStronger ==
  \A c \in Context : upgraded[c] # None =>
    /\ request[c] \in Asked
    /\ ~stronger_or_equal(upgraded[c], request[c][2])

TicketsOK == /\ QueuedAsk
             /\ OneEach
             /\ HeldOrQueued
             /\ MergeHolds
             /\ UpgradeStronger

Inv == /\ TypeOK
       /\ Shapes
       /\ PathOK
       /\ PublishedOK
       /\ TicketsOK
       /\ CompatibleLocks
       /\ NothingGrantableWaits

(***************************************************************************)
(* Types of locks.                                                         *)
(***************************************************************************)

(* m_granted_incompatible is a symmetric matrix. *)
LEMMA IncompatibleSymmetric ==
  ASSUME NEW a \in ObjectType, NEW b \in ObjectType
  PROVE  a \in incompatible_granted[b] <=> b \in incompatible_granted[a]
BY DEF ObjectType, incompatible_granted

(* Of two types of locks one is as strong as the other. *)
LEMMA StrengthIsTotal ==
  ASSUME NEW a \in ObjectType, NEW b \in ObjectType
  PROVE  stronger_or_equal(a, b) \/ stronger_or_equal(b, a)
BY DEF ObjectType, incompatible_granted, stronger_or_equal

(* A request stands back only for a waiting one that it conflicts with. *)
LEMMA PriorityIsConflict ==
  ASSUME NEW a \in ObjectType
  PROVE  incompatible_waiting[a] \subseteq incompatible_granted[a]
BY DEF ObjectType, incompatible_granted, incompatible_waiting

(* Strong locks exclude each other. *)
LEMMA HogsExclude ==
  ASSUME NEW a \in hog_lock_types, NEW b \in hog_lock_types
  PROVE  a \in incompatible_granted[b]
BY DEF ObjectType, incompatible_granted, hog_lock_types

LEMMA TypesOfTypes ==
  ASSUME NEW a \in ObjectType
  PROVE  /\ incompatible_granted[a] \subseteq ObjectType
         /\ incompatible_waiting[a] \subseteq ObjectType
BY DEF ObjectType, incompatible_granted, incompatible_waiting

(***************************************************************************)
(* The queue without some of its tickets.                                  *)
(***************************************************************************)

Rank(K, i) == Cardinality({j \in K : j <= i})

(* The rank of a member of a finite set of numbers is between 1 and the    *)
(* size of the set, and grows from each member to the next.                *)
LEMMA RankBounds ==
  ASSUME NEW K, K \subseteq Nat, IsFiniteSet(K), NEW i \in K
  PROVE  Rank(K, i) \in 1..Cardinality(K)
<1> DEFINE R == {j \in K : j <= i}
<1>1. R \in SUBSET K
  OBVIOUS
<1>2. IsFiniteSet(R) /\ Cardinality(R) <= Cardinality(K)
  BY <1>1, FS_Subset
<1>3. i \in R
  BY SMT
<1>4. Cardinality(R) \in Nat /\ Cardinality(K) \in Nat
  BY <1>2, FS_CardinalityType
<1>5. Cardinality(R) # 0
  BY <1>2, <1>3, FS_EmptySet
<1> QED
  BY <1>2, <1>4, <1>5 DEF Rank

LEMMA RankGrows ==
  ASSUME NEW K, K \subseteq Nat, IsFiniteSet(K), NEW i \in K, NEW j \in K,
         i < j
  PROVE  Rank(K, i) # Rank(K, j)
<1> DEFINE R(n) == {m \in K : m <= n}
<1>1. R(i) \in SUBSET R(j)
  <2>1. \A m \in K : m <= i => m <= j
    BY SMT
  <2> QED
    BY <2>1
<1>2. R(j) \in SUBSET K
  OBVIOUS
<1>3. IsFiniteSet(R(j))
  BY <1>2, FS_Subset
<1>4. Cardinality(R(j)) = Cardinality(R(i)) => R(j) = R(i)
  <2> HIDE DEF R
  <2> QED
    BY <1>1, <1>3, FS_Subset
<1>5. j \in R(j) /\ j \notin R(i)
  BY SMT
<1> QED
  BY <1>4, <1>5 DEF Rank

LEMMA RankInjective ==
  ASSUME NEW K, K \subseteq Nat, IsFiniteSet(K), NEW i \in K, NEW j \in K,
         Rank(K, i) = Rank(K, j)
  PROVE  i = j
<1>1. i \in Nat /\ j \in Nat
  OBVIOUS
<1>2. ~(i < j) /\ ~(j < i)
  BY RankGrows
<1> QED
  BY <1>1, <1>2

(* So every rank is the rank of one member. *)
LEMMA RankSurjective ==
  ASSUME NEW K, K \subseteq Nat, IsFiniteSet(K), NEW n \in 1..Cardinality(K)
  PROVE  \E i \in K : Rank(K, i) = n
<1> DEFINE f == [i \in K |-> Rank(K, i)]
           T == 1..Cardinality(K)
<1>1. Cardinality(K) \in Nat
  BY FS_CardinalityType
<1>2. f \in [K -> T]
  BY RankBounds
<1>3. f \in Injection(K, T)
  <2>1. \A i, j \in K : f[i] = f[j] => i = j
    BY RankInjective
  <2> HIDE DEF f, T
  <2> QED
    BY <1>2, <2>1 DEF Injection, IsInjective
<1>4. IsFiniteSet(T) /\ Cardinality(T) = Cardinality(K)
  <2>1. Cardinality(T) = IF 1 > Cardinality(K) THEN 0
                         ELSE Cardinality(K) - 1 + 1
    BY <1>1, FS_Interval
  <2> QED
    BY <1>1, <2>1, FS_Interval
<1>5. f \in Surjection(K, T)
  <2> HIDE DEF f, T
  <2> QED
    BY <1>3, <1>4, FS_Injection
<1>6. PICK i \in K : f[i] = n
  BY <1>5 DEF Surjection
<1> QED
  BY <1>6

(* What is left of a queue: the tickets at the other positions, each in    *)
(* one place.                                                              *)
LEMMA WithoutFacts ==
  ASSUME NEW S, NEW W \in Seq(S), NEW D
  PROVE  /\ without(W, D) \in Seq(S)
         /\ ToSet(without(W, D)) = {W[i] : i \in DOMAIN W \ D}
         /\ (\A i, j \in DOMAIN W : W[i].ctx = W[j].ctx => i = j) =>
              \A m, n \in DOMAIN without(W, D) :
                without(W, D)[m].ctx = without(W, D)[n].ctx => m = n
<1> DEFINE K == DOMAIN W \ D
           nth(n) == CHOOSE i \in K : Rank(K, i) = n
           V == [n \in 1..Cardinality(K) |-> W[nth(n)]]
<1>1. V = without(W, D)
  BY DEF without, Rank
<1>2. DOMAIN W = 1..Len(W) /\ Len(W) \in Nat
  OBVIOUS
<1>3. K \subseteq Nat /\ IsFiniteSet(K)
  <2>1. IsFiniteSet(DOMAIN W)
    BY <1>2, FS_Interval
  <2>2. K \in SUBSET DOMAIN W
    OBVIOUS
  <2> QED
    BY <1>2, <2>1, <2>2, FS_Subset
<1>4. Cardinality(K) \in Nat
  BY <1>3, FS_CardinalityType
<1>5. \A n \in 1..Cardinality(K) : nth(n) \in K /\ Rank(K, nth(n)) = n
  <2> SUFFICES ASSUME NEW n \in 1..Cardinality(K)
               PROVE  nth(n) \in K /\ Rank(K, nth(n)) = n
    OBVIOUS
  <2>1. \E i \in K : Rank(K, i) = n
    BY <1>3, RankSurjective
  <2> QED
    BY <2>1, Zenon
<1>6. \A i \in K : \E n \in 1..Cardinality(K) : nth(n) = i
  <2> SUFFICES ASSUME NEW i \in K
               PROVE  \E n \in 1..Cardinality(K) : nth(n) = i
    OBVIOUS
  <2>1. Rank(K, i) \in 1..Cardinality(K)
    BY <1>3, RankBounds
  <2>2. nth(Rank(K, i)) = i
    BY <1>3, <1>5, <2>1, RankInjective
  <2> QED
    BY <2>1, <2>2
<1> HIDE DEF K, nth
<1>7. \A i \in K : W[i] \in S
  BY <1>2 DEF K
<1>8. V \in Seq(S)
  <2>1. \A n \in 1..Cardinality(K) : W[nth(n)] \in S
    BY <1>5, <1>7
  <2> QED
    BY <1>4, <2>1
<1>9. ToSet(V) = {W[i] : i \in K}
  BY <1>5, <1>6, Zenon DEF ToSet
<1>10. (\A i, j \in DOMAIN W : W[i].ctx = W[j].ctx => i = j) =>
         \A m, n \in DOMAIN V : V[m].ctx = V[n].ctx => m = n
  <2> SUFFICES ASSUME \A i, j \in DOMAIN W : W[i].ctx = W[j].ctx => i = j,
                      NEW m \in DOMAIN V, NEW n \in DOMAIN V,
                      V[m].ctx = V[n].ctx
               PROVE  m = n
    OBVIOUS
  <2>1. nth(m) \in K /\ nth(n) \in K
    BY <1>5
  <2>2. nth(m) = nth(n)
    BY <2>1 DEF K
  <2> QED
    BY <1>5, <2>2
<1> HIDE DEF V
<1> QED
  BY <1>1, <1>8, <1>9, <1>10 DEF K

(***************************************************************************)
(* Rescheduling.                                                           *)
(***************************************************************************)

(* What reschedule_waiters has granted before it comes to place i of the   *)
(* queue W if D is where it grants, what it then finds waiting, and the    *)
(* wait slots.                                                             *)
GrantedBefore(W, D, i) == {W[j] : j \in {j \in D : j < i}}
WaitingAt(W, D, i) == {W[j] : j \in DOMAIN W \ {j \in D : j < i}}
SlotsAt(W, D, i) == [c \in Context |->
                       IF \E t \in GrantedBefore(W, D, i) : t.ctx = c
                       THEN "GRANTED" ELSE m_wait[c]]

(* D is where reschedule_waiters grants. *)
Grants(k, G, W, D) ==
  \A i \in DOMAIN W :
    i \in D <=>
      /\ ~(/\ skip_high_priority(ToSet(W), m_hog_lock_count[k])
           /\ W[i].type \in hog_lock_types)
      /\ can_grant_lock(W[i], G \cup GrantedBefore(W, D, i),
                        WaitingAt(W, D, i),
                        skip_high_priority(ToSet(W), m_hog_lock_count[k]))
      /\ slot_free(SlotsAt(W, D, i)[W[i].ctx])

LEMMA RescheduleGrants ==
  ASSUME NEW k, NEW G, NEW W, reschedule_waiters(k, G, W)
  PROVE  \E D \in SUBSET DOMAIN W :
           /\ Grants(k, G, W, D)
           /\ m_granted' = [m_granted EXCEPT ![k] =
                              G \cup GrantedBefore(W, D, Len(W) + 1)]
           /\ m_waiting' = [m_waiting EXCEPT ![k] = without(W, D)]
           /\ m_hog_lock_count' = [m_hog_lock_count EXCEPT ![k] =
                IF weak_waiting(WaitingAt(W, D, Len(W) + 1))
                THEN @ + Cardinality({i \in D : W[i].type \in hog_lock_types})
                ELSE 0]
           /\ m_wait' = SlotsAt(W, D, Len(W) + 1)
BY Zenon DEF reschedule_waiters, Grants, GrantedBefore, WaitingAt, SlotsAt

(* At the end of the queue: N is what was granted. *)
LEMMA AtTheEnd ==
  ASSUME NEW S, NEW W \in Seq(S), NEW D \in SUBSET DOMAIN W
  PROVE  /\ GrantedBefore(W, D, Len(W) + 1) = {W[i] : i \in D}
         /\ WaitingAt(W, D, Len(W) + 1) = {W[i] : i \in DOMAIN W \ D}
<1>1. DOMAIN W = 1..Len(W) /\ Len(W) \in Nat
  OBVIOUS
<1>2. {j \in D : j < Len(W) + 1} = D
  BY <1>1
<1> QED
  BY <1>2, Zenon DEF GrantedBefore, WaitingAt

(* The wait slot takes no second message, so a pass grants one lock to a   *)
(* context.                                                                *)
LEMMA GrantedContexts ==
  ASSUME NEW k \in Key, NEW G \in SUBSET AllTickets,
         NEW W \in Seq(AllTickets), NEW D \in SUBSET DOMAIN W,
         Grants(k, G, W, D), NEW i \in D
  PROVE  \A t \in GrantedBefore(W, D, i) : t.ctx # W[i].ctx
<1>1. W[i].ctx \in Context
  <2>1. W[i] \in AllTickets
    OBVIOUS
  <2> QED
    BY <2>1 DEF AllTickets
<1>2. SlotsAt(W, D, i)[W[i].ctx] = "EMPTY"
  BY DEF Grants, slot_free
<1> QED
  BY <1>1, <1>2 DEF SlotsAt

(* Whoever is granted its lock is compatible with who has been.            *)
LEMMA GrantedCompatible ==
  ASSUME NEW k \in Key, NEW G \in SUBSET AllTickets,
         NEW W \in Seq(AllTickets),
         NEW D \in SUBSET DOMAIN W, Grants(k, G, W, D),
         NEW i \in D, NEW u \in G \cup GrantedBefore(W, D, i),
         u.ctx # W[i].ctx
  PROVE  /\ u.type \notin incompatible_granted[W[i].type]
         /\ W[i].type \notin incompatible_granted[u.type]
<1>1. u.type \notin incompatible_granted[W[i].type]
  BY DEF Grants, can_grant_lock, compatible
<1>2. W[i] \in AllTickets
  OBVIOUS
<1>3. u \in AllTickets
  <2>1. \A j \in D : W[j] \in AllTickets
    OBVIOUS
  <2> QED
    BY <2>1 DEF GrantedBefore
<1>4. W[i].type \in ObjectType /\ u.type \in ObjectType
  BY <1>2, <1>3 DEF AllTickets
<1> QED
  BY <1>1, <1>4, IncompatibleSymmetric

LEMMA PassCompatible ==
  ASSUME NEW k \in Key, NEW G \in SUBSET AllTickets,
         NEW W \in Seq(AllTickets),
         NEW D \in SUBSET DOMAIN W, Grants(k, G, W, D),
         NEW i \in D, NEW u \in G \cup {W[j] : j \in D}, W[i].ctx # u.ctx
  PROVE  /\ W[i].type \notin incompatible_granted[u.type]
         /\ u.type \notin incompatible_granted[W[i].type]
<1> DEFINE t == W[i]
<1>2. CASE u \in G
  BY <1>2, GrantedCompatible
<1>3. CASE u \notin G
  <2>1. PICK j \in D : u = W[j]
    BY <1>3
  <2>2. i \in Nat /\ j \in Nat /\ i # j
    BY <2>1
  <2>3. CASE i < j
    <3>1. t \in GrantedBefore(W, D, j)
      BY <2>3 DEF GrantedBefore
    <3> QED
      BY <2>1, <3>1, GrantedCompatible
  <2>4. CASE j < i
    <3>1. u \in GrantedBefore(W, D, i)
      BY <2>1, <2>4 DEF GrantedBefore
    <3> QED
      BY <3>1, GrantedCompatible
  <2> QED
    BY <2>2, <2>3, <2>4
<1> QED
  BY <1>2, <1>3

(* At most one strong lock is granted in a pass, and none that stands back *)
(* for weak ones.                                                          *)
LEMMA OneHogAtMost ==
  ASSUME NEW k \in Key, NEW G \in SUBSET AllTickets,
         NEW W \in Seq(AllTickets),
         NEW D \in SUBSET DOMAIN W, Grants(k, G, W, D)
  PROVE  LET hogs == {i \in D : W[i].type \in hog_lock_types}
         IN  /\ Cardinality(hogs) \in {0, 1}
             /\ skip_high_priority(ToSet(W), m_hog_lock_count[k]) =>
                  Cardinality(hogs) = 0
<1> DEFINE hogs == {i \in D : W[i].type \in hog_lock_types}
<1>1. \A i, j \in hogs : ~(i < j)
  <2> SUFFICES ASSUME NEW i \in hogs, NEW j \in hogs, i < j PROVE FALSE
    OBVIOUS
  <2>1. W[i] \in GrantedBefore(W, D, j)
    BY DEF GrantedBefore
  <2>2. W[i].ctx # W[j].ctx
    BY <2>1, GrantedContexts
  <2>3. W[i].type \notin incompatible_granted[W[j].type]
    BY <2>1, <2>2, GrantedCompatible
  <2> QED
    BY <2>3, HogsExclude
<1>2. \A i, j \in hogs : i = j
  <2>1. hogs \subseteq Nat
    OBVIOUS
  <2> QED
    BY <1>1, <2>1
<1>3. hogs = {} \/ \E i : hogs = {i}
  BY <1>2
<1>4. Cardinality(hogs) \in {0, 1}
  BY <1>3, FS_EmptySet, FS_Singleton
<1>5. ASSUME skip_high_priority(ToSet(W), m_hog_lock_count[k])
      PROVE  Cardinality(hogs) = 0
  <2>1. hogs = {}
    BY <1>5 DEF Grants
  <2> QED
    BY <2>1, FS_EmptySet
<1> QED
  BY <1>4, <1>5

(* What a step leaves behind in which the lists of k became G and W and    *)
(* the tickets N were granted.                                             *)
Outcome(k, G, W, N) ==
  /\ N \subseteq ToSet(W)
  /\ m_granted' = [m_granted EXCEPT ![k] = G \cup N]
  /\ m_waiting' \in [Key -> Seq(AllTickets)]
  /\ \A x \in Key : x # k => m_waiting'[x] = m_waiting[x]
  /\ ToSet(m_waiting'[k]) = ToSet(W) \ N
  /\ \A i, j \in DOMAIN m_waiting'[k] :
       m_waiting'[k][i].ctx = m_waiting'[k][j].ctx => i = j
  /\ m_hog_lock_count' \in [Key -> 0..max_write_lock_count]
  /\ \A x \in Key : x # k => m_hog_lock_count'[x] = m_hog_lock_count[x]
  /\ m_wait' = [c \in Context |-> IF \E t \in N : t.ctx = c
                                  THEN "GRANTED" ELSE m_wait[c]]
  /\ \A t \in N, u \in G \cup N :
       t.ctx # u.ctx => /\ t.type \notin incompatible_granted[u.type]
                        /\ u.type \notin incompatible_granted[t.type]
  /\ \A tk \in ToSet(m_waiting'[k]) :
       (/\ slot_free(m_wait'[tk.ctx])
        /\ can_grant_lock(tk, m_granted'[k], ToSet(m_waiting'[k]), FALSE))
       => /\ tk.type \in hog_lock_types
          /\ \/ skip_high_priority(ToSet(m_waiting'[k]),
                                   m_hog_lock_count'[k])
             \/ \E t \in m_granted'[k] : t.ctx # tk.ctx

(* The counter of strong locks stays within its limit: it grows only below *)
(* it, and by one.                                                         *)
LEMMA HogCountBound ==
  ASSUME NEW k \in Key, NEW G \in SUBSET AllTickets,
         NEW W \in Seq(AllTickets), NEW D \in SUBSET DOMAIN W,
         m_hog_lock_count \in [Key -> 0..max_write_lock_count],
         Grants(k, G, W, D)
  PROVE  weak_waiting({W[i] : i \in DOMAIN W \ D}) =>
           m_hog_lock_count[k]
             + Cardinality({i \in D : W[i].type \in hog_lock_types})
           \in 0..max_write_lock_count
<1> DEFINE n == Cardinality({i \in D : W[i].type \in hog_lock_types})
           h == m_hog_lock_count[k]
<1>1. n \in {0, 1} /\ (skip_high_priority(ToSet(W), h) => n = 0)
  BY OneHogAtMost
<1>2. h \in 0..max_write_lock_count /\ max_write_lock_count \in Nat
  BY MDLAssumption
<1>3. weak_waiting({W[i] : i \in DOMAIN W \ D}) => weak_waiting(ToSet(W))
  BY DEF weak_waiting, types_in, ToSet
<1> HIDE DEF n, h
<1>4. (weak_waiting({W[i] : i \in DOMAIN W \ D}) =>
         h + n \in 0..max_write_lock_count)
  BY <1>1, <1>2, <1>3 DEF skip_high_priority
<1> QED
  BY <1>4 DEF n, h

(* Whoever is left could not be granted its lock when its turn came, and   *)
(* what was granted later conflicts with it if it was what it stood back   *)
(* for; a strong lock that stood back may be grantable now.                *)
LEMMA LeftWaiting ==
  ASSUME NEW k \in Key, NEW G \in SUBSET AllTickets,
         NEW W \in Seq(AllTickets), NEW D \in SUBSET DOMAIN W,
         Grants(k, G, W, D),
         NEW i \in DOMAIN W \ D,
         m_wait[W[i].ctx] = "EMPTY", \A j \in D : W[j].ctx # W[i].ctx,
         can_grant_lock(W[i], G \cup {W[j] : j \in D},
                        {W[j] : j \in DOMAIN W \ D}, FALSE)
  PROVE  /\ W[i].type \in hog_lock_types
         /\ skip_high_priority(ToSet(W), m_hog_lock_count[k])
<1> DEFINE skip == skip_high_priority(ToSet(W), m_hog_lock_count[k])
           N == {W[j] : j \in D}
           Q == {W[j] : j \in DOMAIN W \ D}
<1>1. W[i] \in AllTickets /\ W[i].ctx \in Context /\ W[i].type \in ObjectType
  <2>1. W[i] \in AllTickets
    OBVIOUS
  <2> QED
    BY <2>1 DEF AllTickets
<1>2. GrantedBefore(W, D, i) \subseteq N
  BY DEF GrantedBefore
<1>3. slot_free(SlotsAt(W, D, i)[W[i].ctx])
  BY <1>1, <1>2 DEF SlotsAt, slot_free
<1>4. compatible(W[i], G \cup N)
  BY DEF can_grant_lock
<1>5. compatible(W[i], G \cup GrantedBefore(W, D, i))
  BY <1>2, <1>4 DEF compatible
<1>6. CASE skip
  <2>1. can_grant_lock(W[i], G \cup GrantedBefore(W, D, i),
                       WaitingAt(W, D, i), skip)
    BY <1>5, <1>6 DEF can_grant_lock
  <2> QED
    BY <1>3, <1>6, <2>1 DEF Grants
<1>7. CASE ~skip
  <2>1. ~can_grant_lock(W[i], G \cup GrantedBefore(W, D, i),
                        WaitingAt(W, D, i), skip)
    BY <1>3, <1>7 DEF Grants
  <2>2. PICK w \in WaitingAt(W, D, i) :
          w.type \in incompatible_waiting[W[i].type]
    BY <1>5, <2>1 DEF can_grant_lock, types_in
  <2>3. w \notin Q
    BY <2>2 DEF can_grant_lock, types_in
  <2>4. w \in N
    BY <2>2, <2>3 DEF WaitingAt
  <2>5. w.type \in incompatible_granted[W[i].type]
    BY <1>1, <2>2, PriorityIsConflict
  <2> QED
    BY <1>4, <2>4, <2>5 DEF compatible
<1> QED
  BY <1>6, <1>7

(* reschedule_waiters and remove_ticket have such an outcome. *)
LEMMA RescheduleOutcome ==
  ASSUME NEW k \in Key, NEW G \in SUBSET AllTickets,
         NEW W \in Seq(AllTickets), TypeOK, Shapes,
         \A i, j \in DOMAIN W : W[i].ctx = W[j].ctx => i = j,
         reschedule_waiters(k, G, W)
  PROVE  \E N : Outcome(k, G, W, N)
<1>1. PICK D \in SUBSET DOMAIN W :
        /\ Grants(k, G, W, D)
        /\ m_granted' = [m_granted EXCEPT ![k] =
                           G \cup GrantedBefore(W, D, Len(W) + 1)]
        /\ m_waiting' = [m_waiting EXCEPT ![k] = without(W, D)]
        /\ m_hog_lock_count' = [m_hog_lock_count EXCEPT ![k] =
             IF weak_waiting(WaitingAt(W, D, Len(W) + 1))
             THEN @ + Cardinality({i \in D : W[i].type \in hog_lock_types})
             ELSE 0]
        /\ m_wait' = SlotsAt(W, D, Len(W) + 1)
  BY RescheduleGrants, Zenon
<1>2. /\ GrantedBefore(W, D, Len(W) + 1) = {W[i] : i \in D}
      /\ WaitingAt(W, D, Len(W) + 1) = {W[i] : i \in DOMAIN W \ D}
  BY AtTheEnd
<1>3. m_wait' = [c \in Context |-> IF \E t \in {W[i] : i \in D} : t.ctx = c
                                   THEN "GRANTED" ELSE m_wait[c]]
  BY <1>1, <1>2, Zenon DEF SlotsAt
<1>4. m_granted' = [m_granted EXCEPT ![k] = G \cup {W[i] : i \in D}]
  BY <1>1, <1>2, Zenon
<1>5. m_hog_lock_count' = [m_hog_lock_count EXCEPT ![k] =
        IF weak_waiting({W[i] : i \in DOMAIN W \ D})
        THEN @ + Cardinality({i \in D : W[i].type \in hog_lock_types})
        ELSE 0]
  BY <1>1, <1>2, Zenon
<1> DEFINE N == {W[i] : i \in D}
           Q == {W[i] : i \in DOMAIN W \ D}
           n == Cardinality({i \in D : W[i].type \in hog_lock_types})
           h == IF weak_waiting(Q) THEN m_hog_lock_count[k] + n ELSE 0
<1>6. N \subseteq ToSet(W)
  BY DEF ToSet
<1>7. /\ without(W, D) \in Seq(AllTickets)
      /\ ToSet(without(W, D)) = Q
      /\ \A i, j \in DOMAIN without(W, D) :
           without(W, D)[i].ctx = without(W, D)[j].ctx => i = j
  BY WithoutFacts
<1>8. m_hog_lock_count \in [Key -> 0..max_write_lock_count]
  BY DEF TypeOK
<1>9. h \in 0..max_write_lock_count
  <2>1. weak_waiting(Q) => m_hog_lock_count[k] + n \in 0..max_write_lock_count
    BY <1>1, <1>8, HogCountBound, Zenon
  <2> QED
    BY <2>1, MDLAssumption
<1>10. \A t \in N, u \in G \cup N :
        t.ctx # u.ctx => /\ t.type \notin incompatible_granted[u.type]
                         /\ u.type \notin incompatible_granted[t.type]
  <2>1. \A i \in D : \A u \in G \cup N : W[i].ctx # u.ctx =>
          /\ W[i].type \notin incompatible_granted[u.type]
          /\ u.type \notin incompatible_granted[W[i].type]
    BY <1>1, PassCompatible, Zenon
  <2> QED
    BY <2>1, Zenon
<1>11. Q = ToSet(W) \ N
  <2>1. Q \subseteq ToSet(W)
    BY DEF ToSet
  <2>2. ToSet(W) \subseteq Q \cup N
    BY DEF ToSet
  <2>3. ASSUME NEW t \in Q PROVE t \notin N
    <3>1. PICK i \in DOMAIN W \ D : t = W[i]
      BY <2>3
    <3> QED
      BY <3>1
  <2> QED
    BY <2>1, <2>2, <2>3
<1>12. m_hog_lock_count' = [m_hog_lock_count EXCEPT ![k] = h]
  BY <1>5, Zenon
<1> HIDE DEF h
<1>13. m_hog_lock_count' \in [Key -> 0..max_write_lock_count]
  BY <1>8, <1>9, <1>12
<1>14. \A x \in Key : x # k => m_hog_lock_count'[x] = m_hog_lock_count[x]
  BY <1>8, <1>12
<1>15. m_hog_lock_count'[k] = h
  BY <1>8, <1>12
<1>16. m_waiting \in [Key -> Seq(AllTickets)]
  BY DEF Shapes
<1>17. m_waiting'[k] = without(W, D)
  BY <1>1, <1>16
<1>18. /\ m_waiting' \in [Key -> Seq(AllTickets)]
       /\ \A x \in Key : x # k => m_waiting'[x] = m_waiting[x]
  BY <1>1, <1>7, <1>16
<1>19. m_granted'[k] = G \cup N
  BY <1>4 DEF TypeOK
<1>20. ASSUME NEW tk \in Q, slot_free(m_wait'[tk.ctx]),
              can_grant_lock(tk, G \cup N, Q, FALSE)
       PROVE  /\ tk.type \in hog_lock_types
              /\ \/ skip_high_priority(Q, h)
                 \/ \E t \in G \cup N : t.ctx # tk.ctx
  <2>1. PICK i \in DOMAIN W \ D : tk = W[i]
    BY <1>20
  <2>2. tk.ctx \in Context
    <3>1. tk \in AllTickets
      BY <2>1
    <3> QED
      BY <3>1 DEF AllTickets
  <2>3. m_wait[tk.ctx] = "EMPTY" /\ \A t \in N : t.ctx # tk.ctx
    BY <1>3, <1>20, <2>2 DEF slot_free
  <2>4. /\ tk.type \in hog_lock_types
        /\ skip_high_priority(ToSet(W), m_hog_lock_count[k])
    <3>1. \A j \in D : W[j].ctx # W[i].ctx
      BY <2>1, <2>3
    <3> QED
      BY <1>1, <1>20, <2>1, <2>3, <3>1, LeftWaiting, Zenon
  <2>5. m_hog_lock_count[k] >= max_write_lock_count /\ weak_waiting(ToSet(W))
    BY <2>4 DEF skip_high_priority
  <2>6. CASE weak_waiting(Q)
    <3>1. n = 0
      BY <1>1, <2>4, OneHogAtMost
    <3>2. h = m_hog_lock_count[k]
      BY <1>8, <2>6, <3>1 DEF h
    <3> QED
      BY <2>4, <2>5, <2>6, <3>2 DEF skip_high_priority
  <2>7. CASE ~weak_waiting(Q)
    <3>1. PICK w \in ToSet(W) : w.type \notin hog_lock_types
      BY <2>5 DEF weak_waiting, types_in
    <3>2. w \notin Q
      BY <2>7, <3>1 DEF weak_waiting, types_in
    <3> QED
      BY <1>11, <2>3, <2>4, <3>1, <3>2
  <2> QED
    BY <2>6, <2>7
<1>21. \A tk \in ToSet(m_waiting'[k]) :
       (/\ slot_free(m_wait'[tk.ctx])
        /\ can_grant_lock(tk, m_granted'[k], ToSet(m_waiting'[k]), FALSE))
       => /\ tk.type \in hog_lock_types
          /\ \/ skip_high_priority(ToSet(m_waiting'[k]),
                                   m_hog_lock_count'[k])
             \/ \E t \in m_granted'[k] : t.ctx # tk.ctx
  <2>1. ToSet(m_waiting'[k]) = Q
    BY <1>7, <1>17, Zenon
  <2> HIDE DEF N, Q
  <2> QED
    BY <1>15, <1>19, <1>20, <2>1
<1>22. /\ ToSet(m_waiting'[k]) = ToSet(W) \ N
       /\ \A i, j \in DOMAIN m_waiting'[k] :
            m_waiting'[k][i].ctx = m_waiting'[k][j].ctx => i = j
  BY <1>7, <1>11, <1>17, Zenon
<1> HIDE DEF N, Q
<1>23. m_wait' = [c \in Context |-> IF \E t \in N : t.ctx = c
                                    THEN "GRANTED" ELSE m_wait[c]]
  BY <1>3 DEF N
<1>24. m_granted' = [m_granted EXCEPT ![k] = G \cup N]
  BY <1>4 DEF N
<1>25. Outcome(k, G, W, N)
  BY <1>6, <1>10, <1>13, <1>14, <1>18, <1>21, <1>22, <1>23, <1>24, Zenon
     DEF Outcome
<1> QED
  BY <1>25 DEF N

LEMMA RemoveOutcome ==
  ASSUME NEW k \in Key, NEW G \in SUBSET AllTickets,
         NEW W \in Seq(AllTickets), TypeOK, Shapes,
         \A i, j \in DOMAIN W : W[i].ctx = W[j].ctx => i = j,
         remove_ticket(k, G, W)
  PROVE  \E N : Outcome(k, G, W, N)
<1>1. CASE G = {} /\ W = <<>>
  <2>1. /\ m_granted' = [m_granted EXCEPT ![k] = {}]
        /\ m_waiting' = [m_waiting EXCEPT ![k] = <<>>]
        /\ \E hogs \in 0..max_write_lock_count :
             m_hog_lock_count' = [m_hog_lock_count EXCEPT ![k] = hogs]
        /\ m_wait' = m_wait
    BY <1>1 DEF remove_ticket
  <2>2. m_waiting \in [Key -> Seq(AllTickets)]
    BY DEF Shapes
  <2>3. ToSet(<<>>) = {}
    BY DEF ToSet
  <2>4. m_waiting'[k] = <<>> /\ m_waiting' \in [Key -> Seq(AllTickets)]
        /\ \A x \in Key : x # k => m_waiting'[x] = m_waiting[x]
    BY <2>1, <2>2
  <2>5. m_wait' = [c \in Context |-> IF \E t \in {} : t.ctx = c
                                     THEN "GRANTED" ELSE m_wait[c]]
    BY <2>1 DEF TypeOK
  <2>6. /\ m_hog_lock_count' \in [Key -> 0..max_write_lock_count]
        /\ \A x \in Key : x # k => m_hog_lock_count'[x] = m_hog_lock_count[x]
    <3>1. PICK hogs \in 0..max_write_lock_count :
            m_hog_lock_count' = [m_hog_lock_count EXCEPT ![k] = hogs]
      BY <2>1
    <3> QED
      BY <3>1 DEF TypeOK
  <2>7. Outcome(k, G, W, {})
    BY <1>1, <2>1, <2>3, <2>4, <2>5, <2>6 DEF Outcome
  <2> QED
    BY <2>7
<1>2. CASE ~(G = {} /\ W = <<>>)
  BY <1>2, RescheduleOutcome DEF remove_ticket
<1> QED
  BY <1>1, <1>2

(***************************************************************************)
(* What an outcome preserves.                                              *)
(***************************************************************************)

LEMMA TicketFacts ==
  /\ \A c \in Context, type \in ObjectType :
       /\ Ticket(c, type) \in AllTickets
       /\ Ticket(c, type).ctx = c
       /\ Ticket(c, type).type = type
  /\ \A t \in AllTickets : /\ t.ctx \in Context
                           /\ t.type \in ObjectType
                           /\ t = Ticket(t.ctx, t.type)
BY DEF Ticket, AllTickets

LEMMA AskedFacts ==
  /\ \A r \in Asked : /\ r[1] \in Key
                      /\ r[2] \in ObjectType
                      /\ r = <<r[1], r[2]>>
                      /\ r # NoRequest
  /\ \A k \in Key, type \in ObjectType :
       <<k, type>> \in Asked /\ <<k, type>>[1] = k /\ <<k, type>>[2] = type
<1>1. None \notin ObjectType
  BY DEF None, ObjectType
<1> QED
  BY <1>1 DEF Asked, NoRequest

LEMMA QueuedTickets ==
  ASSUME Shapes, NEW k \in Key, NEW t \in ToSet(m_waiting[k])
  PROVE  t \in AllTickets
<1>1. m_waiting[k] \in Seq(AllTickets)
  BY DEF Shapes
<1>2. PICK i \in DOMAIN m_waiting[k] : t = m_waiting[k][i]
  BY DEF ToSet
<1> QED
  BY <1>1, <1>2

(* The lists and slots after an outcome have their types; locks stay       *)
(* compatible, and nobody sleeps who could be granted its lock.            *)
LEMMA OutcomeLists ==
  ASSUME Inv, NEW k \in Key, NEW G \in SUBSET AllTickets,
         NEW W \in Seq(AllTickets), NEW N, Outcome(k, G, W, N),
         \A t, u \in G :
           t.ctx # u.ctx => t.type \notin incompatible_granted[u.type]
  PROVE  /\ m_granted' \in [Key -> SUBSET AllTickets]
         /\ m_waiting' \in [Key -> Seq(AllTickets)]
         /\ m_hog_lock_count' \in [Key -> 0..max_write_lock_count]
         /\ m_wait' \in [Context -> {"EMPTY", "GRANTED", "VICTIM", "TIMEOUT"}]
         /\ CompatibleLocks'
         /\ NothingGrantableWaits'
<1>1. /\ m_granted \in [Key -> SUBSET AllTickets]
      /\ m_wait \in [Context -> {"EMPTY", "GRANTED", "VICTIM", "TIMEOUT"}]
      /\ m_hog_lock_count \in [Key -> 0..max_write_lock_count]
  BY DEF Inv, TypeOK, AllTickets
<1>2. N \subseteq AllTickets
  <2>1. \A i \in DOMAIN W : W[i] \in AllTickets
    OBVIOUS
  <2> QED
    BY <2>1 DEF Outcome, ToSet
<1>3. m_granted' = [m_granted EXCEPT ![k] = G \cup N]
  BY DEF Outcome
<1>4. m_granted'[k] = G \cup N /\ \A x \in Key : x # k => m_granted'[x] = m_granted[x]
  BY <1>1, <1>3
<1>5. m_granted' \in [Key -> SUBSET AllTickets]
  BY <1>1, <1>2, <1>3
<1>6. m_wait' \in [Context -> {"EMPTY", "GRANTED", "VICTIM", "TIMEOUT"}]
  BY <1>1 DEF Outcome
<1>7. CompatibleLocks'
  <2> SUFFICES ASSUME NEW x \in Key, NEW t \in m_granted'[x],
                      NEW u \in m_granted'[x], t.ctx # u.ctx
               PROVE  t.type \notin incompatible_granted[u.type]
    BY DEF CompatibleLocks
  <2>1. CASE x # k
    BY <1>4, <2>1 DEF Inv, CompatibleLocks
  <2>2. CASE x = k
    BY <1>4, <2>2 DEF Outcome
  <2> QED
    BY <2>1, <2>2
<1>8. NothingGrantableWaits'
  <2>1. \A x \in Key : x # k =>
          /\ m_waiting'[x] = m_waiting[x]
          /\ m_hog_lock_count'[x] = m_hog_lock_count[x]
    BY DEF Outcome
  <2>2. \A c \in Context : m_wait'[c] = "EMPTY" => m_wait[c] = "EMPTY"
    BY DEF Outcome
  <2> SUFFICES ASSUME NEW x \in Key, NEW tk \in ToSet(m_waiting'[x]),
                      m_wait'[tk.ctx] = "EMPTY",
                      can_grant_lock(tk, m_granted'[x], ToSet(m_waiting'[x]),
                                     FALSE)
               PROVE  /\ tk.type \in hog_lock_types
                      /\ \/ skip_high_priority(ToSet(m_waiting'[x]),
                                               m_hog_lock_count'[x])
                         \/ \E t \in m_granted'[x] : t.ctx # tk.ctx
    BY Zenon DEF NothingGrantableWaits, slot_free
  <2>3. CASE x # k
    <3>1. tk \in ToSet(m_waiting[x])
      BY <2>1, <2>3
    <3>2. tk.ctx \in Context
      BY <3>1, QueuedTickets, TicketFacts DEF Inv
    <3>3. m_wait[tk.ctx] = "EMPTY"
      BY <2>2, <3>2
    <3>4. can_grant_lock(tk, m_granted[x], ToSet(m_waiting[x]), FALSE)
      BY <1>4, <2>1, <2>3
    <3>5. /\ tk.type \in hog_lock_types
          /\ \/ skip_high_priority(ToSet(m_waiting[x]), m_hog_lock_count[x])
             \/ \E t \in m_granted[x] : t.ctx # tk.ctx
      BY <3>1, <3>3, <3>4, Zenon DEF Inv, NothingGrantableWaits, slot_free
    <3> QED
      BY <1>4, <2>1, <2>3, <3>5
  <2>4. CASE x = k
    BY <2>4 DEF Outcome, slot_free
  <2> QED
    BY <2>3, <2>4
<1> QED
  BY <1>5, <1>6, <1>7, <1>8 DEF Outcome

(* The step of a that returns to the statement, with nothing of the others *)
(* in the lists of k changed but by rescheduling.                          *)
LEMMA OutcomeTickets ==
  ASSUME Inv, NEW a \in Context, NEW k \in Key,
         NEW G \in SUBSET AllTickets,
         NEW W \in Seq(AllTickets), NEW N, Outcome(k, G, W, N),
         \A t \in AllTickets :
           t.ctx # a => (t \in G <=> t \in m_granted[k]),
         \A t \in ToSet(m_waiting[k]) : t.ctx # a => t \in ToSet(W),
         \A t \in ToSet(W) : t.ctx # a /\ t \in ToSet(m_waiting[k]),
         \A x \in Key : x # k => \A t \in ToSet(m_waiting[x]) : t.ctx # a,
         pc'[a] = "idle",
         \A c \in Context : c # a => pc'[c] = pc[c] /\ request'[c] = request[c]
                                     /\ upgraded'[c] = upgraded[c]
  PROVE  QueuedAsk' /\ OneEach' /\ HeldOrQueued' /\ MergeHolds'
<1>1. /\ m_granted \in [Key -> SUBSET AllTickets]
      /\ m_wait \in [Context -> {"EMPTY", "GRANTED", "VICTIM", "TIMEOUT"}]
  BY DEF Inv, TypeOK, AllTickets
<1>2. \A x \in Key : \A t \in ToSet(m_waiting[x]) : t \in AllTickets
  BY QueuedTickets DEF Inv
<1>3. /\ m_granted'[k] = G \cup N
      /\ \A x \in Key : x # k => m_granted'[x] = m_granted[x]
  BY <1>1 DEF Outcome
<1>4. /\ ToSet(m_waiting'[k]) = ToSet(W) \ N
      /\ \A x \in Key : x # k => ToSet(m_waiting'[x]) = ToSet(m_waiting[x])
  BY DEF Outcome
<1>5. \A c \in Context : m_wait'[c] = IF \E t \in N : t.ctx = c
                                      THEN "GRANTED" ELSE m_wait[c]
  BY DEF Outcome
<1>6. \A x \in Key : \A t \in ToSet(m_waiting[x]) :
        /\ pc[t.ctx] \in Waiting
        /\ request[t.ctx] = <<x, t.type>>
        /\ m_wait[t.ctx] # "GRANTED"
  BY DEF Inv, TicketsOK, QueuedAsk
<1>7. \A u \in N : /\ u \in AllTickets
                   /\ u \in ToSet(m_waiting[k])
                   /\ u.ctx # a
                   /\ request[u.ctx] = <<k, u.type>>
  BY <1>2, <1>6 DEF Outcome
<1>8. \A x \in Key : \A t \in ToSet(m_waiting[x]) : \A u \in N :
        t.ctx = u.ctx => x = k /\ t = u
  <2> SUFFICES ASSUME NEW x \in Key, NEW t \in ToSet(m_waiting[x]),
                      NEW u \in N, t.ctx = u.ctx
               PROVE  x = k /\ t = u
    OBVIOUS
  <2>1. <<x, t.type>> = <<k, u.type>>
    BY <1>6, <1>7
  <2>2. x = k /\ t.type = u.type
    BY <2>1
  <2>3. t = Ticket(t.ctx, t.type) /\ u = Ticket(u.ctx, u.type)
    BY <1>2, <1>7, TicketFacts
  <2> QED
    BY <2>2, <2>3
<1>9. QueuedAsk'
  <2> SUFFICES ASSUME NEW x \in Key, NEW t \in ToSet(m_waiting'[x])
               PROVE  /\ pc'[t.ctx] \in Waiting
                      /\ request'[t.ctx] = <<x, t.type>>
                      /\ m_wait'[t.ctx] # "GRANTED"
    BY DEF QueuedAsk
  <2>1. t \in ToSet(m_waiting[x]) /\ t.ctx # a
    BY <1>4
  <2>2. t.ctx \in Context
    BY <1>2, <2>1, TicketFacts
  <2>3. \A u \in N : t.ctx # u.ctx
    BY <1>4, <1>8, <2>1
  <2> QED
    BY <1>5, <1>6, <2>1, <2>2, <2>3
<1>10. OneEach'
  <2> SUFFICES ASSUME NEW x \in Key
               PROVE  \A i, j \in DOMAIN m_waiting'[x] :
                        m_waiting'[x][i].ctx = m_waiting'[x][j].ctx => i = j
    BY DEF OneEach
  <2>1. CASE x = k
    BY <2>1 DEF Outcome
  <2>2. CASE x # k
    <3>1. m_waiting'[x] = m_waiting[x]
      BY <2>2 DEF Outcome
    <3> QED
      BY <3>1 DEF Inv, TicketsOK, OneEach
  <2> QED
    BY <2>1, <2>2
<1>11. HeldOrQueued'
  <2> SUFFICES ASSUME NEW c \in Context, pc'[c] \in Waiting
               PROVE  /\ request'[c] \in Asked
                      /\ IF m_wait'[c] = "GRANTED"
                         THEN asked_ticket(c)' \in m_granted'[asked_key(c)']
                         ELSE /\ asked_ticket(c)' \notin m_granted'[asked_key(c)']
                              /\ asked_ticket(c)' \in ToSet(m_waiting'[asked_key(c)'])
    BY Zenon DEF HeldOrQueued
  <2>1. c # a
    BY DEF Waiting
  <2>2. pc[c] \in Waiting /\ request'[c] = request[c]
    BY <2>1
  <2> DEFINE x == request[c][1]
             tk == Ticket(c, request[c][2])
  <2>3. /\ request[c] \in Asked
        /\ IF m_wait[c] = "GRANTED"
           THEN tk \in m_granted[x]
           ELSE tk \notin m_granted[x] /\ tk \in ToSet(m_waiting[x])
    BY <2>2 DEF Inv, TicketsOK, HeldOrQueued, asked_ticket, asked_key
  <2>4. asked_ticket(c)' = tk /\ asked_key(c)' = x
    BY <2>2 DEF asked_ticket, asked_key
  <2>5. x \in Key /\ tk \in AllTickets /\ tk.ctx = c
    BY <2>3, AskedFacts, TicketFacts
  <2> HIDE DEF x, tk
  <2>6. CASE m_wait[c] = "GRANTED"
    <3>1. m_wait'[c] = "GRANTED"
      BY <1>5, <2>6
    <3>2. tk \in m_granted'[x]
      BY <1>3, <2>1, <2>3, <2>5, <2>6
    <3> QED
      BY <2>2, <2>3, <2>4, <3>1, <3>2
  <2>7. CASE m_wait[c] # "GRANTED"
    <3>1. tk \notin m_granted[x] /\ tk \in ToSet(m_waiting[x])
      BY <2>3, <2>7
    <3>2. CASE \E u \in N : u.ctx = c
      <4>1. m_wait'[c] = "GRANTED"
        BY <1>5, <3>2
      <4>2. tk \in N /\ x = k
        BY <1>8, <2>5, <3>1, <3>2
      <4> QED
        BY <1>3, <2>2, <2>3, <2>4, <4>1, <4>2
    <3>3. CASE ~\E u \in N : u.ctx = c
      <4>1. m_wait'[c] # "GRANTED"
        BY <1>5, <2>7, <3>3
      <4>2. tk \notin N
        BY <2>5, <3>3
      <4>3. tk \notin m_granted'[x] /\ tk \in ToSet(m_waiting'[x])
        BY <1>3, <1>4, <2>1, <2>5, <3>1, <4>2
      <4> QED
        BY <2>2, <2>3, <2>4, <4>1, <4>3
    <3> QED
      BY <3>2, <3>3
  <2> QED
    BY <2>6, <2>7
<1>12. MergeHolds'
  <2> SUFFICES ASSUME NEW c \in Context, pc'[c] = "merge"
               PROVE  /\ request'[c] \in Asked /\ upgraded'[c] # None
                      /\ asked_ticket(c)' \in m_granted'[asked_key(c)']
    BY Zenon DEF MergeHolds
  <2>1. c # a
    OBVIOUS
  <2>2. /\ pc[c] = "merge" /\ request'[c] = request[c]
        /\ upgraded'[c] = upgraded[c]
    BY <2>1
  <2> DEFINE x == request[c][1]
             tk == Ticket(c, request[c][2])
  <2>3. request[c] \in Asked /\ upgraded[c] # None /\ tk \in m_granted[x]
    BY <2>2 DEF Inv, TicketsOK, MergeHolds, asked_ticket, asked_key
  <2>4. asked_ticket(c)' = tk /\ asked_key(c)' = x
    BY <2>2 DEF asked_ticket, asked_key
  <2>5. x \in Key /\ tk \in AllTickets /\ tk.ctx = c
    BY <2>3, AskedFacts, TicketFacts
  <2> HIDE DEF x, tk
  <2> QED
    BY <1>3, <2>1, <2>2, <2>3, <2>4, <2>5
<1> QED
  BY <1>9, <1>10, <1>11, <1>12

(***************************************************************************)
(* Steps that leave the lists alone.                                       *)
(***************************************************************************)

(* While the lists stay as they are and slots only fill, nobody becomes    *)
(* grantable.                                                              *)
LEMMA SlotsFill ==
  ASSUME Inv, UNCHANGED queues,
         \A c \in Context : m_wait'[c] = "EMPTY" => m_wait[c] = "EMPTY"
  PROVE  CompatibleLocks' /\ NothingGrantableWaits'
<1>1. /\ m_granted' = m_granted /\ m_waiting' = m_waiting
      /\ m_hog_lock_count' = m_hog_lock_count
  BY DEF queues
<1>2. CompatibleLocks'
  BY <1>1 DEF Inv, CompatibleLocks
<1>3. NothingGrantableWaits'
  <2>1. \A k \in Key : \A t \in ToSet(m_waiting[k]) : t.ctx \in Context
    BY QueuedTickets, TicketFacts DEF Inv
  <2> SUFFICES ASSUME NEW k \in Key, NEW tk \in ToSet(m_waiting[k]),
                      m_wait'[tk.ctx] = "EMPTY",
                      can_grant_lock(tk, m_granted[k], ToSet(m_waiting[k]),
                                     FALSE)
               PROVE  /\ tk.type \in hog_lock_types
                      /\ \/ skip_high_priority(ToSet(m_waiting[k]),
                                               m_hog_lock_count[k])
                         \/ \E t \in m_granted[k] : t.ctx # tk.ctx
    BY <1>1, Zenon DEF NothingGrantableWaits, slot_free
  <2>2. m_wait[tk.ctx] = "EMPTY"
    BY <2>1
  <2> QED
    BY <2>2, Zenon DEF Inv, NothingGrantableWaits, slot_free
<1> QED
  BY <1>2, <1>3

(* A wait that goes on: nothing is granted, and the tickets are where they *)
(* were.                                                                   *)
LEMMA WaitGoesOn ==
  ASSUME Inv, UNCHANGED <<queues, local>>, NEW a \in Context,
         pc[a] \in Waiting, pc'[a] \in Waiting,
         \A c \in Context : c # a => pc'[c] = pc[c],
         \A c \in Context : m_wait'[c] = "GRANTED" <=> m_wait[c] = "GRANTED"
  PROVE  TicketsOK'
<1>1. /\ m_granted' = m_granted /\ m_waiting' = m_waiting
      /\ request' = request /\ upgraded' = upgraded
  BY DEF queues, local
<1>2. \A c \in Context : pc'[c] \in Waiting <=> pc[c] \in Waiting
  OBVIOUS
<1>3. \A c \in Context : pc'[c] = "merge" => pc[c] = "merge"
  BY DEF Waiting
<1>4. QueuedAsk'
  <2>1. \A k \in Key : \A t \in ToSet(m_waiting[k]) : t.ctx \in Context
    BY QueuedTickets, TicketFacts DEF Inv
  <2> QED
    BY <1>1, <1>2, <2>1 DEF Inv, TicketsOK, QueuedAsk
<1>5. OneEach'
  BY <1>1 DEF Inv, TicketsOK, OneEach
<1>6. HeldOrQueued'
  BY <1>1, <1>2 DEF Inv, TicketsOK, HeldOrQueued, asked_key, asked_ticket
<1>7. MergeHolds'
  BY <1>1, <1>3 DEF Inv, TicketsOK, MergeHolds, asked_key, asked_ticket
<1>8. UpgradeStronger'
  BY <1>1 DEF Inv, TicketsOK, UpgradeStronger
<1> QED
  BY <1>4, <1>5, <1>6, <1>7, <1>8 DEF TicketsOK

LEMMA WillWaitForInv ==
  ASSUME Inv, NEW c \in Context, will_wait_for(c)
  PROVE  Inv'
<1>1. /\ pc[c] = "queued" /\ pc' = [pc EXCEPT ![c] = "search"]
      /\ m_waiting_for' = [m_waiting_for EXCEPT ![c] = request[c]]
      /\ UNCHANGED <<queues, m_wait, local, search, corrupted, counts>>
  BY DEF will_wait_for, Goto
<1>2. TypeOK'
  BY <1>1 DEF Inv, TypeOK, Shapes, queues, local, search, counts
<1>3. Shapes' /\ PathOK' /\ PublishedOK'
  BY <1>1 DEF Inv, TypeOK, Shapes, PathOK, PublishedOK, queues, local, search
<1>4. TicketsOK'
  <2>1. /\ pc[c] \in Waiting /\ pc'[c] \in Waiting
        /\ \A d \in Context : d # c => pc'[d] = pc[d]
    BY <1>1 DEF Waiting, Inv, TypeOK
  <2> QED
    BY <1>1, <2>1, WaitGoesOn
<1>5. CompatibleLocks' /\ NothingGrantableWaits'
  BY <1>1, SlotsFill
<1> QED
  BY <1>2, <1>3, <1>4, <1>5 DEF Inv

LEMMA SetVictimInv ==
  ASSUME Inv, NEW c \in Context, SetVictim(c)
  PROVE  Inv'
<1> DEFINE next == after_victim(c)
<1>1. /\ pc[c] = "victim" /\ pc' = [pc EXCEPT ![c] = next]
      /\ m_wait' = [m_wait EXCEPT ![victim[c]] =
                      IF m_wait[victim[c]] = "EMPTY" THEN "VICTIM"
                      ELSE m_wait[victim[c]]]
      /\ victim' = [victim EXCEPT ![c] = None]
      /\ UNCHANGED <<queues, m_waiting_for, local, path, corrupted, counts>>
  BY DEF SetVictim, Goto, slot_free
<1>2. next \in {"wait", "search"}
  BY DEF after_victim
<1> HIDE DEF next
<1>3. /\ m_wait' \in [Context -> {"EMPTY", "GRANTED", "VICTIM", "TIMEOUT"}]
      /\ \A d \in Context : m_wait'[d] = "EMPTY" => m_wait[d] = "EMPTY"
      /\ \A d \in Context : m_wait'[d] = "GRANTED" <=> m_wait[d] = "GRANTED"
  BY <1>1 DEF Inv, TypeOK
<1>4. TypeOK'
  BY <1>1, <1>2, <1>3 DEF Inv, TypeOK, Shapes, queues, local, counts
<1>5. Shapes' /\ PathOK' /\ PublishedOK'
  BY <1>1, <1>2 DEF Inv, TypeOK, Shapes, PathOK, PublishedOK, queues, local
<1>6. TicketsOK'
  <2>1. /\ pc[c] \in Waiting /\ pc'[c] \in Waiting
        /\ \A d \in Context : d # c => pc'[d] = pc[d]
    BY <1>1, <1>2 DEF Waiting, Inv, TypeOK
  <2> QED
    BY <1>1, <1>3, <2>1, WaitGoesOn
<1>7. CompatibleLocks' /\ NothingGrantableWaits'
  BY <1>1, <1>3, SlotsFill
<1> QED
  BY <1>4, <1>5, <1>6, <1>7 DEF Inv

LEMMA TimedWaitInv ==
  ASSUME Inv, NEW c \in Context, timed_wait(c)
  PROVE  Inv'
<1>0. PICK next \in {"done", "gone"} : pc' = [pc EXCEPT ![c] = next]
  BY DEF timed_wait, Goto
<1>1. /\ pc[c] = "wait" /\ pc' = [pc EXCEPT ![c] = next]
      /\ pc'[c] \in {"done", "gone"}
      /\ \A d \in Context : d # c => pc'[d] = pc[d]
      /\ UNCHANGED <<queues, m_waiting_for, local, search, corrupted,
                     requests>>
  BY <1>0 DEF timed_wait, Inv, TypeOK
<1>2. /\ m_wait' \in [Context -> {"EMPTY", "GRANTED", "VICTIM", "TIMEOUT"}]
      /\ \A d \in Context : m_wait'[d] = "EMPTY" => m_wait[d] = "EMPTY"
      /\ \A d \in Context : m_wait'[d] = "GRANTED" <=> m_wait[d] = "GRANTED"
  BY DEF timed_wait, slot_free, Inv, TypeOK
<1>3. aborts' \in 0..MaxAborts
  BY MDLAssumption DEF timed_wait, Inv, TypeOK
<1>4. TypeOK'
  BY <1>1, <1>2, <1>3 DEF Inv, TypeOK, Shapes, queues, local, search
<1>5. Shapes' /\ PathOK' /\ PublishedOK'
  BY <1>1 DEF Inv, TypeOK, Shapes, PathOK, PublishedOK, queues, local, search
<1>6. TicketsOK'
  <2>1. pc[c] \in Waiting /\ pc'[c] \in Waiting
    BY <1>1 DEF Waiting
  <2> QED
    BY <1>1, <1>2, <2>1, WaitGoesOn
<1>7. CompatibleLocks' /\ NothingGrantableWaits'
  BY <1>1, <1>2, SlotsFill
<1> QED
  BY <1>4, <1>5, <1>6, <1>7 DEF Inv

(* The end of a wait: granted, the context goes its way or merges the      *)
(* tickets of an upgrade, or it has to remove its ticket.                  *)
LEMMA DoneWaitingForInv ==
  ASSUME Inv, NEW c \in Context, done_waiting_for(c)
  PROVE  Inv'
<1>1. /\ pc[c] \in {"done", "gone"}
      /\ m_waiting_for' = [m_waiting_for EXCEPT ![c] = NoRequest]
      /\ UNCHANGED <<queues, m_wait, search, corrupted, counts>>
  BY DEF done_waiting_for
<1>2. \/ /\ m_wait[c] = "GRANTED" /\ upgraded[c] = None
         /\ pc' = [pc EXCEPT ![c] = "idle"]
         /\ request' = [request EXCEPT ![c] = NoRequest]
         /\ upgraded' = [upgraded EXCEPT ![c] = None]
      \/ /\ m_wait[c] = "GRANTED" /\ upgraded[c] # None
         /\ pc' = [pc EXCEPT ![c] = "merge"] /\ UNCHANGED local
      \/ /\ pc' = [pc EXCEPT ![c] = "remove"] /\ UNCHANGED local
  BY DEF done_waiting_for, Return, Goto, Enter
<1>3. CompatibleLocks' /\ NothingGrantableWaits'
  BY <1>1, SlotsFill
<1>4. TypeOK'
  BY <1>1, <1>2 DEF Inv, TypeOK, Shapes, queues, local, search, counts
<1>5. Shapes' /\ PathOK' /\ PublishedOK'
  <2>1. Shapes'
    BY <1>1, <1>2 DEF Inv, TypeOK, Shapes, queues, local, search
  <2>2. PathOK'
    BY <1>1, <1>2 DEF Inv, TypeOK, PathOK, queues, local, search
  <2>3. PublishedOK'
    BY <1>1, <1>2 DEF Inv, TypeOK, Shapes, PublishedOK, queues, local
  <2> QED
    BY <2>1, <2>2, <2>3
<1>6. CASE pc'[c] = "remove"
  <2>1. /\ pc[c] \in Waiting /\ pc'[c] \in Waiting
        /\ \A d \in Context : d # c => pc'[d] = pc[d]
    BY <1>1, <1>2, <1>6 DEF Waiting, Inv, TypeOK
  <2>2. UNCHANGED local
    BY <1>2, <1>6 DEF Inv, TypeOK
  <2>3. TicketsOK'
    BY <1>1, <2>1, <2>2, WaitGoesOn
  <2> QED
    BY <1>3, <1>4, <1>5, <2>3 DEF Inv
<1>7. CASE pc'[c] # "remove"
  <2>1. /\ m_granted' = m_granted /\ m_waiting' = m_waiting
        /\ m_wait' = m_wait
    BY <1>1 DEF queues
  <2>2. m_wait[c] = "GRANTED" /\ pc'[c] \in {"idle", "merge"}
        /\ \A d \in Context : d # c => /\ pc'[d] = pc[d]
                                       /\ request'[d] = request[d]
                                       /\ upgraded'[d] = upgraded[d]
    BY <1>2, <1>7 DEF Inv, TypeOK, Shapes, local
  <2>3. /\ pc'[c] = "merge" => UNCHANGED local /\ upgraded[c] # None
        /\ upgraded'[c] # None => UNCHANGED local
    BY <1>2, <1>7 DEF Inv, TypeOK, Shapes
  <2>4. pc[c] \in Waiting /\ pc'[c] \notin Waiting
    BY <1>1, <2>2 DEF Waiting
  <2>5. /\ request[c] \in Asked
        /\ asked_ticket(c) \in m_granted[asked_key(c)]
    BY <2>2, <2>4 DEF Inv, TicketsOK, HeldOrQueued
  <2>6. QueuedAsk'
    <3>1. \A k \in Key : \A t \in ToSet(m_waiting[k]) :
            t.ctx \in Context /\ t.ctx # c
      BY <2>2, QueuedTickets, TicketFacts DEF Inv, TicketsOK, QueuedAsk
    <3> QED
      BY <2>1, <2>2, <3>1 DEF Inv, TicketsOK, QueuedAsk
  <2>7. OneEach'
    BY <2>1 DEF Inv, TicketsOK, OneEach
  <2>8. HeldOrQueued'
    BY <2>1, <2>2, <2>4
       DEF Inv, TicketsOK, HeldOrQueued, asked_key, asked_ticket
  <2>9. MergeHolds'
    <3> SUFFICES ASSUME NEW d \in Context, pc'[d] = "merge"
                 PROVE  /\ request'[d] \in Asked /\ upgraded'[d] # None
                        /\ asked_ticket(d)' \in m_granted'[asked_key(d)']
      BY Zenon DEF MergeHolds
    <3>1. CASE d # c
      BY <2>1, <2>2, <3>1
         DEF Inv, TicketsOK, MergeHolds, asked_key, asked_ticket
    <3>2. CASE d = c
      BY <2>1, <2>3, <2>5, <3>2 DEF asked_key, asked_ticket, local
    <3> QED
      BY <3>1, <3>2
  <2>10. UpgradeStronger'
    BY <2>2, <2>3 DEF Inv, TicketsOK, UpgradeStronger, local
  <2> QED
    BY <1>3, <1>4, <1>5, <2>6, <2>7, <2>8, <2>9, <2>10 DEF Inv, TicketsOK
<1> QED
  BY <1>6, <1>7

(***************************************************************************)
(* The search for a deadlock.                                              *)
(***************************************************************************)

(* A nonempty set of numbers has a least one. *)
LEMMA LeastOf ==
  ASSUME NEW S, S \subseteq Nat, S # {}
  PROVE  \E x \in S : \A y \in S : x <= y
<1>1. IsWellFoundedOn(OpToRel(<, Nat), Nat)
  BY NatLessThanWellFounded
<1>2. PICK x \in S : \A y \in S : <<y, x>> \notin OpToRel(<, Nat)
  BY <1>1, WFMin
<1>3. \A y \in S : ~(y < x)
  BY <1>2 DEF OpToRel
<1> QED
  BY <1>3

(* choose_victim finds a node: the first of those of the lower weight. *)
LEMMA VictimIsNode ==
  ASSUME NEW nodes \in Seq(Context), nodes # <<>>
  PROVE  choose_victim(nodes) \in Context
<1> DEFINE w(i) == weight(m_waiting_for[nodes[i]][2])
           light == {i \in DOMAIN nodes : w(i) = 0}
           I == IF light # {} THEN light ELSE DOMAIN nodes
           best(i) == \A j \in DOMAIN nodes :
                        w(i) < w(j) \/ (w(i) = w(j) /\ i <= j)
<1>1. DOMAIN nodes = 1..Len(nodes) /\ Len(nodes) \in Nat /\ Len(nodes) # 0
  OBVIOUS
<1>2. \A i \in DOMAIN nodes : w(i) \in {0, 100}
  BY DEF weight
<1>3. I \subseteq DOMAIN nodes /\ I \subseteq Nat /\ I # {}
  BY <1>1
<1>4. PICK i \in I : \A j \in I : i <= j
  BY <1>3, LeastOf
<1>5. best(i)
  <2> SUFFICES ASSUME NEW j \in DOMAIN nodes
               PROVE  w(i) < w(j) \/ (w(i) = w(j) /\ i <= j)
    OBVIOUS
  <2>1. w(i) \in {0, 100} /\ w(j) \in {0, 100} /\ i \in DOMAIN nodes
    BY <1>2, <1>3
  <2>2. (j \in I /\ w(i) = w(j)) \/ (w(i) = 0 /\ w(j) = 100)
    BY <1>4, <2>1
  <2> HIDE DEF w, I
  <2> QED
    BY <1>4, <2>1, <2>2
<1>6. \E m \in DOMAIN nodes : best(m)
  BY <1>3, <1>5
<1> HIDE DEF best
<1>7. (CHOOSE m \in DOMAIN nodes : best(m)) \in DOMAIN nodes
  BY <1>6
<1>8. choose_victim(nodes) = nodes[CHOOSE m \in DOMAIN nodes : best(m)]
  BY Zenon DEF choose_victim, best
<1> QED
  BY <1>7, <1>8

(* Only tickets of the lists are edges. *)
LEMMA EdgesAreTickets ==
  ASSUME Inv, NEW n \in Context, m_waiting_for[n] # NoRequest
  PROVE  edges(n) \subseteq AllTickets
<1>1. m_waiting_for[n][1] \in Key
  BY AskedFacts DEF Inv, Shapes
<1>2. m_granted[m_waiting_for[n][1]] \subseteq AllTickets
  BY <1>1 DEF Inv, TypeOK, AllTickets
<1>3. ToSet(m_waiting[m_waiting_for[n][1]]) \subseteq AllTickets
  BY <1>1, QueuedTickets DEF Inv
<1> QED
  BY <1>2, <1>3 DEF edges

(* Where a search is after one of its steps. *)
SearchAt(c, P, label) ==
  /\ P \in Seq(Nodes) /\ Len(P) < MAX_SEARCH_DEPTH
  /\ label \in {"wait", "visit", "victim"} /\ (label = "visit" <=> P # <<>>)
  /\ path' = [path EXCEPT ![c] = P]
  /\ pc' = [pc EXCEPT ![c] = label]
  /\ victim' \in [Context -> Context \cup {None}]

LEMMA VisitStep ==
  ASSUME Inv, NEW c \in Context, NEW n \in Context, NEW P \in Seq(Nodes),
         Len(P) < MAX_SEARCH_DEPTH, visit_subgraph(c, n, P)
  PROVE  \E R, label : SearchAt(c, R, label)
<1>1. CASE ~waits(n)
  <2>1. SearchAt(c, P, IF P = <<>> THEN "wait" ELSE "visit")
    BY <1>1 DEF visit_subgraph, SearchAt, Goto, Inv, TypeOK
  <2> QED
    BY <2>1
<1>2. CASE /\ waits(n)
           /\ Len(P) + 1 >= MAX_SEARCH_DEPTH \/ \E t \in edges(n) : t.ctx = c
  <2> DEFINE Q == [i \in DOMAIN P |-> P[i].ctx]
             nodes == Append(Q, n)
  <2>1. nodes \in Seq(Context) /\ nodes # <<>>
    <3>1. DOMAIN P = 1..Len(P) /\ Len(P) \in Nat
      OBVIOUS
    <3>2. \A i \in DOMAIN P : P[i].ctx \in Context
      <4>1. \A i \in DOMAIN P : P[i] \in Nodes
        OBVIOUS
      <4> QED
        BY <4>1 DEF Nodes
    <3>3. Q \in Seq(Context)
      BY <3>1, <3>2
    <3> HIDE DEF Q
    <3> QED
      BY <3>3
  <2>2. choose_victim(nodes) \in Context
    BY <2>1, VictimIsNode
  <2>3. /\ victim' = [victim EXCEPT ![c] = choose_victim(nodes)]
        /\ path' = [path EXCEPT ![c] = <<>>]
        /\ pc' = [pc EXCEPT ![c] = "victim"]
    BY <1>2, Zenon DEF visit_subgraph, Goto
  <2> HIDE DEF nodes
  <2>4. victim' \in [Context -> Context \cup {None}]
    BY <2>2, <2>3 DEF Inv, TypeOK
  <2>5. <<>> \in Seq(Nodes) /\ Len(<<>>) < MAX_SEARCH_DEPTH
    BY MDLAssumption
  <2>6. SearchAt(c, <<>>, "victim")
    BY <2>3, <2>4, <2>5 DEF SearchAt
  <2> QED
    BY <2>6
<1>3. CASE /\ waits(n)
           /\ ~(Len(P) + 1 >= MAX_SEARCH_DEPTH)
           /\ ~\E t \in edges(n) : t.ctx = c
  <2> DEFINE node == [ctx |-> n, todo |-> edges(n)]
             R == Append(P, node)
  <2>1. node \in Nodes
    BY <1>3, EdgesAreTickets DEF waits, Nodes
  <2>2. /\ path' = [path EXCEPT ![c] = R]
        /\ pc' = [pc EXCEPT ![c] = "visit"]
        /\ victim' = victim
    BY <1>3, Zenon DEF visit_subgraph, Goto
  <2> HIDE DEF node
  <2>3. R \in Seq(Nodes) /\ Len(R) = Len(P) + 1 /\ R # <<>>
    BY <2>1
  <2>4. Len(R) < MAX_SEARCH_DEPTH
    BY <1>3, <2>3, MDLAssumption
  <2> HIDE DEF R
  <2>5. SearchAt(c, R, "visit")
    BY <2>2, <2>3, <2>4 DEF SearchAt, Inv, TypeOK
  <2> QED
    BY <2>5
<1> QED
  BY <1>1, <1>2, <1>3

LEMMA FindDeadlockStep ==
  ASSUME Inv, NEW c \in Context, find_deadlock(c)
  PROVE  \E P, label : SearchAt(c, P, label)
<1>1. path[c] \in Seq(Nodes) /\ Len(path[c]) < MAX_SEARCH_DEPTH
  BY DEF Inv, TypeOK, Shapes
<1>2. CASE pc[c] = "search" /\ visit_subgraph(c, c, <<>>)
  <2>1. <<>> \in Seq(Nodes) /\ Len(<<>>) < MAX_SEARCH_DEPTH
    BY MDLAssumption
  <2> QED
    BY <1>2, <2>1, VisitStep
<1>3. ASSUME pc[c] = "visit", NEW t \in Last(path[c]).todo,
             visit_subgraph(c, t.ctx,
               [path[c] EXCEPT ![Len(path[c])].todo = @ \ {t}])
      PROVE  \E P, label : SearchAt(c, P, label)
  <2> DEFINE p == path[c]
             m == Len(p)
             P == [p EXCEPT ![m].todo = @ \ {t}]
  <2>1. p # <<>>
    BY <1>3 DEF Inv, PathOK
  <2> HIDE DEF p
  <2>2. m \in 1..Len(p) /\ DOMAIN p = 1..Len(p) /\ Len(p) \in Nat
        /\ p \in Seq(Nodes)
    BY <1>1, <2>1 DEF p
  <2>3. p[m] \in Nodes
    BY <2>2
  <2>4. t \in p[m].todo
    BY <1>3 DEF Last, p
  <2>5. t \in AllTickets /\ t.ctx \in Context
    BY <2>3, <2>4, TicketFacts DEF Nodes
  <2>6. P = [p EXCEPT ![m] = [p[m] EXCEPT !.todo = p[m].todo \ {t}]]
    OBVIOUS
  <2>7. [p[m] EXCEPT !.todo = p[m].todo \ {t}] \in Nodes
    BY <2>3 DEF Nodes
  <2>8. P \in Seq(Nodes) /\ Len(P) = Len(p)
    BY <2>2, <2>6, <2>7
  <2>9. visit_subgraph(c, t.ctx, P)
    BY <1>3 DEF p
  <2> HIDE DEF P
  <2> QED
    BY <1>1, <2>5, <2>8, <2>9, VisitStep DEF p
<1>4. CASE /\ pc[c] = "visit"
           /\ path' = [path EXCEPT ![c] = Front(@)]
           /\ Goto(c, IF Len(path[c]) = 1 THEN "wait" ELSE "visit")
           /\ UNCHANGED victim
  <2> DEFINE p == path[c]
             label == IF Len(p) = 1 THEN "wait" ELSE "visit"
  <2>1. p # <<>>
    BY <1>4 DEF Inv, PathOK
  <2>2. path' = [path EXCEPT ![c] = Front(p)] /\ pc' = [pc EXCEPT ![c] = label]
    BY <1>4 DEF Goto
  <2> HIDE DEF p
  <2>3. p \in Seq(Nodes) /\ Len(p) \in Nat /\ Len(p) # 0
        /\ Len(p) < MAX_SEARCH_DEPTH
    BY <1>1, <2>1 DEF p
  <2>4. Front(p) \in Seq(Nodes) /\ Len(Front(p)) = Len(p) - 1
    <3> DEFINE e == Len(p) - 1
    <3>1. e \in Nat /\ 1 \in Int
      BY <2>3
    <3>2. \A i \in 1..e : p[i] \in Nodes
      BY <2>3
    <3>3. Front(p) = SubSeq(p, 1, e)
      BY DEF Front
    <3> HIDE DEF e
    <3>4. /\ SubSeq(p, 1, e) \in Seq(Nodes)
          /\ Len(SubSeq(p, 1, e)) = IF 1 <= e THEN e - 1 + 1 ELSE 0
      BY <3>1, <3>2, SubSeqProperties
    <3>5. Len(SubSeq(p, 1, e)) = e
      BY <3>1, <3>4
    <3> QED
      BY <3>3, <3>4, <3>5 DEF e
  <2>5. Front(p) = <<>> <=> Len(p) = 1
    BY <2>3, <2>4
  <2>6. Len(Front(p)) < MAX_SEARCH_DEPTH
    BY <2>3, <2>4, MDLAssumption
  <2>7. SearchAt(c, Front(p), label)
    BY <1>4, <2>2, <2>4, <2>5, <2>6 DEF SearchAt, Inv, TypeOK
  <2> QED
    BY <2>7
<1> QED
  BY <1>2, <1>3, <1>4, Zenon DEF find_deadlock

LEMMA FindDeadlockInv ==
  ASSUME Inv, NEW c \in Context, find_deadlock(c)
  PROVE  Inv'
<1>1. PICK P, label : SearchAt(c, P, label)
  BY FindDeadlockStep
<1>2. /\ pc[c] \in {"search", "visit"}
      /\ UNCHANGED <<queues, m_wait, m_waiting_for, local, corrupted, counts>>
  BY DEF find_deadlock
<1>3. /\ path' \in [Context -> Seq(Nodes)]
      /\ \A d \in Context : Len(path'[d]) < MAX_SEARCH_DEPTH
  BY <1>1 DEF SearchAt, Inv, TypeOK, Shapes
<1>4. /\ label \in {"wait", "visit", "victim"}
      /\ pc' = [pc EXCEPT ![c] = label]
      /\ victim' \in [Context -> Context \cup {None}]
  BY <1>1 DEF SearchAt
<1>5. TypeOK'
  BY <1>2, <1>3, <1>4 DEF Inv, TypeOK, queues, local, counts
<1>6. Shapes' /\ PublishedOK'
  BY <1>2, <1>3, <1>4 DEF Inv, TypeOK, Shapes, PublishedOK, queues, local
<1>7. PathOK'
  BY <1>1 DEF SearchAt, Inv, TypeOK, Shapes, PathOK
<1>8. TicketsOK'
  <2>1. /\ pc[c] \in Waiting /\ pc'[c] \in Waiting
        /\ \A d \in Context : d # c => pc'[d] = pc[d]
    BY <1>2, <1>4 DEF Waiting, Inv, TypeOK
  <2> QED
    BY <1>2, <2>1, WaitGoesOn
<1>9. CompatibleLocks' /\ NothingGrantableWaits'
  BY <1>2, SlotsFill
<1> QED
  BY <1>5, <1>6, <1>7, <1>8, <1>9 DEF Inv

(***************************************************************************)
(* Asking for a lock.                                                      *)
(***************************************************************************)

(* More tickets, granted or waiting, grant nobody a lock. *)
LEMMA GrantShrinks ==
  ASSUME NEW tk, NEW G1, NEW G2, NEW Q1, NEW Q2,
         G1 \subseteq G2, Q1 \subseteq Q2,
         can_grant_lock(tk, G2, Q2, FALSE)
  PROVE  can_grant_lock(tk, G1, Q1, FALSE)
BY DEF can_grant_lock, compatible, types_in

LEMMA SkipGrows ==
  ASSUME NEW Q1, NEW Q2, NEW h, Q1 \subseteq Q2, skip_high_priority(Q1, h)
  PROVE  skip_high_priority(Q2, h)
BY DEF skip_high_priority, weak_waiting, types_in

(* While tickets are only added, and those added to the queue cannot be    *)
(* granted, nobody sleeps who could be granted its lock.                   *)
LEMMA ListsGrow ==
  ASSUME Inv, m_hog_lock_count' = m_hog_lock_count,
         \A x \in Key : /\ m_granted[x] \subseteq m_granted'[x]
                        /\ ToSet(m_waiting[x]) \subseteq ToSet(m_waiting'[x]),
         \A x \in Key : \A tk \in ToSet(m_waiting[x]) :
           m_wait'[tk.ctx] = m_wait[tk.ctx],
         \A x \in Key : \A tk \in ToSet(m_waiting'[x]) :
           tk \notin ToSet(m_waiting[x]) =>
             ~can_grant_lock(tk, m_granted'[x], ToSet(m_waiting'[x]), FALSE)
  PROVE  NothingGrantableWaits'
<1> SUFFICES ASSUME NEW x \in Key, NEW tk \in ToSet(m_waiting'[x]),
                    m_wait'[tk.ctx] = "EMPTY",
                    can_grant_lock(tk, m_granted'[x], ToSet(m_waiting'[x]),
                                   FALSE)
             PROVE  /\ tk.type \in hog_lock_types
                    /\ \/ skip_high_priority(ToSet(m_waiting'[x]),
                                             m_hog_lock_count'[x])
                       \/ \E t \in m_granted'[x] : t.ctx # tk.ctx
  BY Zenon DEF NothingGrantableWaits, slot_free
<1>1. tk \in ToSet(m_waiting[x])
  OBVIOUS
<1>2. can_grant_lock(tk, m_granted[x], ToSet(m_waiting[x]), FALSE)
  BY GrantShrinks
<1>3. m_wait[tk.ctx] = "EMPTY"
  BY <1>1
<1>4. /\ tk.type \in hog_lock_types
      /\ \/ skip_high_priority(ToSet(m_waiting[x]), m_hog_lock_count[x])
         \/ \E t \in m_granted[x] : t.ctx # tk.ctx
  BY <1>1, <1>2, <1>3, Zenon DEF Inv, NothingGrantableWaits, slot_free
<1>5. CASE skip_high_priority(ToSet(m_waiting[x]), m_hog_lock_count[x])
  BY <1>4, <1>5, SkipGrows
<1>6. CASE \E t \in m_granted[x] : t.ctx # tk.ctx
  BY <1>4, <1>6
<1> QED
  BY <1>4, <1>5, <1>6

LEMMA IdleNotQueued ==
  ASSUME Inv, NEW c \in Context, pc[c] \in {"idle", "merge"},
         NEW x \in Key, NEW t \in ToSet(m_waiting[x])
  PROVE  t.ctx # c
BY DEF Inv, TicketsOK, QueuedAsk, Waiting

(* A lock that is granted at once. *)
LEMMA GrantedAtOnce ==
  ASSUME Inv, NEW c \in Context, pc[c] = "idle", NEW k \in Key,
         NEW type \in ObjectType, NEW old \in ObjectType \cup {None},
         old # None => ~stronger_or_equal(old, type),
         can_grant_lock(Ticket(c, type), m_granted[k], ToSet(m_waiting[k]),
                        FALSE),
         m_granted' = [m_granted EXCEPT ![k] = @ \cup {Ticket(c, type)}],
         IF old = None
         THEN UNCHANGED <<pc, local>>
         ELSE Goto(c, "merge") /\ Enter(c, <<k, type>>, old),
         UNCHANGED <<m_waiting, m_wait, m_hog_lock_count, m_waiting_for,
                     search, corrupted, aborts>>,
         requests' \in [Context -> 0..MaxRequests]
  PROVE  Inv'
<1> DEFINE tk == Ticket(c, type)
<1>1. tk \in AllTickets /\ tk.ctx = c /\ tk.type = type
  BY TicketFacts
<1>2. m_granted \in [Key -> SUBSET AllTickets]
  BY DEF Inv, TypeOK, AllTickets
<1>3. <<k, type>> \in Asked
  BY AskedFacts
<1>4. \/ /\ old = None
         /\ UNCHANGED <<pc, request, upgraded>>
      \/ /\ old # None /\ pc' = [pc EXCEPT ![c] = "merge"]
         /\ request' = [request EXCEPT ![c] = <<k, type>>]
         /\ upgraded' = [upgraded EXCEPT ![c] = old]
  BY DEF Goto, Enter, local
<1>5. \A x \in Key : \A t \in ToSet(m_waiting[x]) :
        t.ctx \in Context /\ t.ctx # c
  BY IdleNotQueued, QueuedTickets, TicketFacts DEF Inv
<1>6. compatible(tk, m_granted[k])
  BY DEF can_grant_lock
<1> HIDE DEF tk
<1>7. /\ m_granted'[k] = m_granted[k] \cup {tk}
      /\ \A x \in Key : x # k => m_granted'[x] = m_granted[x]
      /\ m_granted' \in [Key -> SUBSET AllTickets]
  BY <1>1, <1>2 DEF tk
<1>8. TypeOK'
  <2>1. m_granted' \in [Key -> SUBSET [ctx : Context, type : ObjectType]]
    BY <1>7 DEF AllTickets
  <2>2. \A d \in Context : m_waiting_for'[d] \in {NoRequest, request'[d]}
    BY <1>4 DEF Inv, TypeOK, Shapes, PublishedOK
  <2>3. pc' \in [Context -> {"idle", "merge", "queued", "search", "visit",
                           "victim", "wait", "done", "gone", "remove"}]
    BY <1>4 DEF Inv, TypeOK
  <2> QED
    BY <2>1, <2>2, <2>3 DEF Inv, TypeOK, search
<1>9. Shapes' /\ PathOK' /\ PublishedOK'
  <2>1. /\ request' \in [Context -> Asked \cup {NoRequest}]
        /\ upgraded' \in [Context -> ObjectType \cup {None}]
    <3>1. /\ request \in [Context -> Asked \cup {NoRequest}]
          /\ upgraded \in [Context -> ObjectType \cup {None}]
      BY DEF Inv, Shapes
    <3> QED
      BY <1>3, <1>4, <3>1
  <2>2. Shapes'
    BY <2>1 DEF Inv, Shapes, search
  <2>3. PathOK'
    BY <1>4 DEF Inv, TypeOK, PathOK, search
  <2>4. PublishedOK'
    BY <1>4 DEF Inv, TypeOK, Shapes, PublishedOK
  <2> QED
    BY <2>2, <2>3, <2>4
<1>10. CompatibleLocks'
  <2> SUFFICES ASSUME NEW x \in Key, NEW t \in m_granted'[x],
                      NEW u \in m_granted'[x], t.ctx # u.ctx
               PROVE  t.type \notin incompatible_granted[u.type]
    BY DEF CompatibleLocks
  <2>1. t \in AllTickets /\ u \in AllTickets
    BY <1>7
  <2>2. t.type \in ObjectType /\ u.type \in ObjectType
    BY <2>1, TicketFacts
  <2>3. CASE t \in m_granted[x] /\ u \in m_granted[x]
    BY <2>3 DEF Inv, CompatibleLocks
  <2>4. CASE x = k /\ t = tk /\ u \in m_granted[k]
    BY <1>6, <2>2, <2>4, IncompatibleSymmetric DEF compatible
  <2>5. CASE x = k /\ u = tk /\ t \in m_granted[k]
    BY <1>6, <2>5 DEF compatible
  <2> QED
    BY <1>7, <2>3, <2>4, <2>5
<1>11. NothingGrantableWaits'
  <2>1. \A x \in Key : m_granted[x] \subseteq m_granted'[x]
    BY <1>7
  <2> QED
    BY <2>1, ListsGrow
<1>12. \A d \in Context : d # c => /\ pc'[d] = pc[d]
                                   /\ request'[d] = request[d]
                                   /\ upgraded'[d] = upgraded[d]
  BY <1>4 DEF Inv, TypeOK, Shapes
<1>13. pc'[c] \notin Waiting
  BY <1>4 DEF Waiting, Inv, TypeOK
<1>14. QueuedAsk'
  BY <1>5, <1>12 DEF Inv, TicketsOK, QueuedAsk
<1>15. OneEach'
  BY DEF Inv, TicketsOK, OneEach
<1>16. HeldOrQueued'
  <2> SUFFICES ASSUME NEW d \in Context, pc'[d] \in Waiting
               PROVE  /\ request'[d] \in Asked
                      /\ IF m_wait'[d] = "GRANTED"
                         THEN asked_ticket(d)' \in m_granted'[asked_key(d)']
                         ELSE /\ asked_ticket(d)' \notin m_granted'[asked_key(d)']
                              /\ asked_ticket(d)' \in ToSet(m_waiting'[asked_key(d)'])
    BY Zenon DEF HeldOrQueued
  <2>1. d # c /\ pc[d] \in Waiting /\ request'[d] = request[d]
    BY <1>12, <1>13
  <2> DEFINE x == request[d][1]
             td == Ticket(d, request[d][2])
  <2>2. /\ request[d] \in Asked
        /\ IF m_wait[d] = "GRANTED"
           THEN td \in m_granted[x]
           ELSE td \notin m_granted[x] /\ td \in ToSet(m_waiting[x])
    BY <2>1 DEF Inv, TicketsOK, HeldOrQueued, asked_ticket, asked_key
  <2>3. asked_ticket(d)' = td /\ asked_key(d)' = x
    BY <2>1 DEF asked_ticket, asked_key
  <2>4. x \in Key /\ td.ctx = d
    BY <2>2, AskedFacts, TicketFacts
  <2> HIDE DEF x, td
  <2>5. td \in m_granted'[x] <=> td \in m_granted[x]
    BY <1>1, <1>7, <2>1, <2>4
  <2> QED
    BY <2>1, <2>2, <2>3, <2>5
<1>17. MergeHolds'
  <2> SUFFICES ASSUME NEW d \in Context, pc'[d] = "merge"
               PROVE  /\ request'[d] \in Asked /\ upgraded'[d] # None
                      /\ asked_ticket(d)' \in m_granted'[asked_key(d)']
    BY Zenon DEF MergeHolds
  <2>1. CASE d # c
    <3>1. /\ request'[d] = request[d] /\ upgraded'[d] = upgraded[d]
          /\ request[d] \in Asked /\ upgraded[d] # None
          /\ asked_ticket(d) \in m_granted[asked_key(d)]
      BY <1>12, <2>1 DEF Inv, TicketsOK, MergeHolds
    <3>2. asked_ticket(d)' = asked_ticket(d) /\ asked_key(d)' = asked_key(d)
      BY <3>1 DEF asked_ticket, asked_key
    <3>3. asked_key(d) \in Key
      BY <3>1, AskedFacts DEF asked_key
    <3> QED
      BY <1>7, <3>1, <3>2, <3>3
  <2>2. CASE d = c
    <3>1. old # None /\ request'[c] = <<k, type>> /\ upgraded'[c] = old
      BY <1>4, <2>2 DEF Inv, TypeOK, Shapes
    <3>2. asked_ticket(c)' = tk /\ asked_key(c)' = k
      BY <3>1 DEF asked_ticket, asked_key, tk
    <3> QED
      BY <1>3, <1>7, <2>2, <3>1, <3>2
  <2> QED
    BY <2>1, <2>2
<1>18. UpgradeStronger'
  <2> SUFFICES ASSUME NEW d \in Context, upgraded'[d] # None
               PROVE  /\ request'[d] \in Asked
                      /\ ~stronger_or_equal(upgraded'[d], request'[d][2])
    BY Zenon DEF UpgradeStronger
  <2>1. CASE request'[d] = request[d] /\ upgraded'[d] = upgraded[d]
    BY <2>1 DEF Inv, TicketsOK, UpgradeStronger
  <2>2. CASE ~(request'[d] = request[d] /\ upgraded'[d] = upgraded[d])
    <3>1. old # None /\ request'[d] = <<k, type>> /\ upgraded'[d] = old
      BY <1>4, <1>12, <2>2 DEF Inv, TypeOK, Shapes
    <3> QED
      BY <1>3, <3>1
  <2> QED
    BY <2>1, <2>2
<1> QED
  BY <1>8, <1>9, <1>10, <1>11, <1>14, <1>15, <1>16, <1>17, <1>18
     DEF Inv, TicketsOK

LEMMA AppendFacts ==
  ASSUME NEW S, NEW q \in Seq(S), NEW tk \in S
  PROVE  /\ Append(q, tk) \in Seq(S)
         /\ DOMAIN Append(q, tk) = 1..(Len(q) + 1)
         /\ ToSet(Append(q, tk)) = ToSet(q) \cup {tk}
         /\ \A i \in DOMAIN q : i \in 1..Len(q) /\ Append(q, tk)[i] = q[i]
         /\ Append(q, tk)[Len(q) + 1] = tk
<1>1. /\ Append(q, tk) \in Seq(S) /\ Len(Append(q, tk)) = Len(q) + 1
      /\ DOMAIN q = 1..Len(q) /\ Len(q) \in Nat
      /\ DOMAIN Append(q, tk) = 1..(Len(q) + 1)
  OBVIOUS
<1>2. \A i \in 1..Len(q) : Append(q, tk)[i] = q[i]
  OBVIOUS
<1>3. Append(q, tk)[Len(q) + 1] = tk
  OBVIOUS
<1>4. 1..(Len(q) + 1) = 1..Len(q) \cup {Len(q) + 1}
  BY <1>1
<1>5. ToSet(Append(q, tk)) = ToSet(q) \cup {tk}
  <2>1. ToSet(q) = {q[i] : i \in 1..Len(q)}
    BY <1>1 DEF ToSet
  <2>2. ToSet(Append(q, tk)) =
          {Append(q, tk)[i] : i \in 1..Len(q) \cup {Len(q) + 1}}
    BY <1>1, <1>4 DEF ToSet
  <2> QED
    BY <1>2, <1>3, <2>1, <2>2, Zenon
<1> QED
  BY <1>1, <1>2, <1>3, <1>5

(* A request that has to wait. *)
LEMMA Queues ==
  ASSUME Inv, NEW c \in Context, pc[c] = "idle", NEW k \in Key,
         NEW type \in ObjectType, NEW old \in ObjectType \cup {None},
         old # None => ~stronger_or_equal(old, type),
         Ticket(c, type) \notin m_granted[k],
         ~can_grant_lock(Ticket(c, type), m_granted[k], ToSet(m_waiting[k]),
                         FALSE),
         m_waiting' = [m_waiting EXCEPT ![k] = Append(@, Ticket(c, type))],
         m_wait' = [m_wait EXCEPT ![c] = "EMPTY"],
         Goto(c, "queued"), Enter(c, <<k, type>>, old),
         UNCHANGED <<m_granted, m_hog_lock_count, m_waiting_for, search,
                     corrupted, aborts>>,
         requests' \in [Context -> 0..MaxRequests]
  PROVE  Inv'
<1> DEFINE tk == Ticket(c, type)
           q == m_waiting[k]
<1>1. tk \in AllTickets /\ tk.ctx = c /\ tk.type = type
  BY TicketFacts
<1>2. <<k, type>> \in Asked
  BY AskedFacts
<1>3. /\ pc' = [pc EXCEPT ![c] = "queued"]
      /\ request' = [request EXCEPT ![c] = <<k, type>>]
      /\ upgraded' = [upgraded EXCEPT ![c] = old]
  BY DEF Goto, Enter
<1>4. \A x \in Key : \A t \in ToSet(m_waiting[x]) :
        t.ctx \in Context /\ t.ctx # c
  BY IdleNotQueued, QueuedTickets, TicketFacts DEF Inv
<1>5. m_waiting \in [Key -> Seq(AllTickets)] /\ q \in Seq(AllTickets)
  BY DEF Inv, Shapes
<1> HIDE DEF tk
<1>6. m_waiting'[k] = Append(q, tk)
      /\ \A x \in Key : x # k => m_waiting'[x] = m_waiting[x]
  BY <1>5 DEF tk
<1> HIDE DEF q
<1>7. /\ Append(q, tk) \in Seq(AllTickets)
      /\ DOMAIN Append(q, tk) = 1..(Len(q) + 1)
      /\ ToSet(Append(q, tk)) = ToSet(q) \cup {tk}
      /\ \A i \in DOMAIN q : i \in 1..Len(q) /\ Append(q, tk)[i] = q[i]
      /\ Append(q, tk)[Len(q) + 1] = tk
  BY <1>1, <1>5, AppendFacts
<1>8. m_waiting' \in [Key -> Seq(AllTickets)]
  BY <1>5, <1>7 DEF q, tk
<1>9. /\ ToSet(m_waiting'[k]) = ToSet(m_waiting[k]) \cup {tk}
      /\ \A x \in Key : x # k => ToSet(m_waiting'[x]) = ToSet(m_waiting[x])
  BY <1>6, <1>7 DEF q
<1>10. /\ m_wait'[c] = "EMPTY"
       /\ \A d \in Context : d # c => /\ m_wait'[d] = m_wait[d]
                                      /\ pc'[d] = pc[d]
                                      /\ request'[d] = request[d]
                                      /\ upgraded'[d] = upgraded[d]
       /\ pc'[c] = "queued" /\ request'[c] = <<k, type>> /\ upgraded'[c] = old
  BY <1>3 DEF Inv, TypeOK, Shapes
<1>11. TypeOK'
  <2>1. \A x \in Key : m_waiting'[x] \in Seq([ctx : Context, type : ObjectType])
    BY <1>8 DEF AllTickets
  <2> QED
    BY <1>3, <2>1 DEF Inv, TypeOK, Shapes, PublishedOK, search
<1>12. Shapes' /\ PathOK' /\ PublishedOK'
  BY <1>2, <1>3, <1>8 DEF Inv, TypeOK, Shapes, PathOK, PublishedOK, search
<1>13. CompatibleLocks'
  BY DEF Inv, CompatibleLocks
<1>14. NothingGrantableWaits'
  <2>1. ~can_grant_lock(tk, m_granted'[k], ToSet(m_waiting'[k]), FALSE)
    BY <1>9, GrantShrinks DEF tk
  <2>2. \A x \in Key : ToSet(m_waiting[x]) \subseteq ToSet(m_waiting'[x])
    BY <1>9
  <2>3. \A x \in Key : \A t \in ToSet(m_waiting[x]) :
          m_wait'[t.ctx] = m_wait[t.ctx]
    BY <1>4, <1>10
  <2>4. \A x \in Key : \A t \in ToSet(m_waiting'[x]) :
          t \notin ToSet(m_waiting[x]) =>
            ~can_grant_lock(t, m_granted'[x], ToSet(m_waiting'[x]), FALSE)
    BY <1>9, <2>1
  <2> QED
    BY <2>2, <2>3, <2>4, ListsGrow
<1>15. QueuedAsk'
  <2> SUFFICES ASSUME NEW x \in Key, NEW t \in ToSet(m_waiting'[x])
               PROVE  /\ pc'[t.ctx] \in Waiting
                      /\ request'[t.ctx] = <<x, t.type>>
                      /\ m_wait'[t.ctx] # "GRANTED"
    BY DEF QueuedAsk
  <2>1. CASE t \in ToSet(m_waiting[x])
    <3>1. /\ pc[t.ctx] \in Waiting
          /\ request[t.ctx] = <<x, t.type>>
          /\ m_wait[t.ctx] # "GRANTED"
      BY <2>1 DEF Inv, TicketsOK, QueuedAsk
    <3> QED
      BY <1>4, <1>10, <2>1, <3>1
  <2>2. CASE t \notin ToSet(m_waiting[x])
    <3>1. x = k /\ t = tk
      BY <1>9, <2>2
    <3> QED
      BY <1>1, <1>10, <3>1 DEF Waiting
  <2> QED
    BY <2>1, <2>2
<1>16. OneEach'
  <2> SUFFICES ASSUME NEW x \in Key, NEW i \in DOMAIN m_waiting'[x],
                      NEW j \in DOMAIN m_waiting'[x],
                      m_waiting'[x][i].ctx = m_waiting'[x][j].ctx
               PROVE  i = j
    BY DEF OneEach
  <2>1. CASE x # k
    BY <1>6, <2>1 DEF Inv, TicketsOK, OneEach
  <2>2. CASE x = k
    <3>1. \A m \in DOMAIN q : q[m].ctx # c
      BY <1>4 DEF ToSet, q
    <3>2. \A m, n \in DOMAIN q : q[m].ctx = q[n].ctx => m = n
      BY DEF Inv, TicketsOK, OneEach, q
    <3>3. DOMAIN q = 1..Len(q) /\ Len(q) \in Nat
      BY <1>5
    <3>4. i \in 1..(Len(q) + 1) /\ j \in 1..(Len(q) + 1)
          /\ Append(q, tk)[i].ctx = Append(q, tk)[j].ctx
      BY <1>6, <1>7, <2>2
    <3>5. /\ i \in DOMAIN q \/ i = Len(q) + 1
          /\ j \in DOMAIN q \/ j = Len(q) + 1
      BY <3>3, <3>4
    <3>6. CASE i \in DOMAIN q /\ j \in DOMAIN q
      BY <1>7, <3>2, <3>4, <3>6
    <3>7. CASE ~(i \in DOMAIN q /\ j \in DOMAIN q)
      BY <1>1, <1>7, <3>1, <3>4, <3>5, <3>7
    <3> QED
      BY <3>6, <3>7
  <2> QED
    BY <2>1, <2>2
<1>17. HeldOrQueued'
  <2> SUFFICES ASSUME NEW d \in Context, pc'[d] \in Waiting
               PROVE  /\ request'[d] \in Asked
                      /\ IF m_wait'[d] = "GRANTED"
                         THEN asked_ticket(d)' \in m_granted'[asked_key(d)']
                         ELSE /\ asked_ticket(d)' \notin m_granted'[asked_key(d)']
                              /\ asked_ticket(d)' \in ToSet(m_waiting'[asked_key(d)'])
    BY Zenon DEF HeldOrQueued
  <2>1. CASE d = c
    <3>1. asked_ticket(c)' = tk /\ asked_key(c)' = k
      BY <1>10 DEF asked_ticket, asked_key, tk
    <3> QED
      BY <1>2, <1>9, <1>10, <2>1, <3>1 DEF tk
  <2>2. CASE d # c
    <3>1. /\ m_wait'[d] = m_wait[d] /\ pc[d] \in Waiting
          /\ request'[d] = request[d]
      BY <1>10, <2>2
    <3>2. asked_ticket(d)' = asked_ticket(d) /\ asked_key(d)' = asked_key(d)
      BY <3>1 DEF asked_ticket, asked_key
    <3>3. /\ request[d] \in Asked
          /\ IF m_wait[d] = "GRANTED"
             THEN asked_ticket(d) \in m_granted[asked_key(d)]
             ELSE /\ asked_ticket(d) \notin m_granted[asked_key(d)]
                  /\ asked_ticket(d) \in ToSet(m_waiting[asked_key(d)])
      BY <3>1 DEF Inv, TicketsOK, HeldOrQueued
    <3>4. asked_key(d) \in Key
      BY <3>3, AskedFacts DEF asked_key
    <3> QED
      BY <1>9, <3>1, <3>2, <3>3, <3>4
  <2> QED
    BY <2>1, <2>2
<1>18. MergeHolds'
  <2>1. \A d \in Context : pc'[d] = "merge" => d # c
    BY <1>10
  <2> QED
    BY <1>10, <2>1 DEF Inv, TicketsOK, MergeHolds, asked_ticket, asked_key
<1>19. UpgradeStronger'
  <2> SUFFICES ASSUME NEW d \in Context, upgraded'[d] # None
               PROVE  /\ request'[d] \in Asked
                      /\ ~stronger_or_equal(upgraded'[d], request'[d][2])
    BY Zenon DEF UpgradeStronger
  <2>1. CASE d # c
    BY <1>10, <2>1 DEF Inv, TicketsOK, UpgradeStronger
  <2>2. CASE d = c
    BY <1>2, <1>10, <2>2
  <2> QED
    BY <2>1, <2>2
<1> QED
  BY <1>11, <1>12, <1>13, <1>14, <1>15, <1>16, <1>17, <1>18, <1>19
     DEF Inv, TicketsOK

LEMMA AcquireLockInv ==
  ASSUME Inv, NEW c \in Context, pc[c] = "idle", NEW k \in Key,
         NEW type \in ObjectType, NEW old \in ObjectType \cup {None},
         ~has_ticket(c, k, type),
         old # None => Ticket(c, old) \in m_granted[k],
         acquire_lock(c, k, type, old)
  PROVE  Inv'
<1>1. old # None => ~stronger_or_equal(old, type)
  BY TicketFacts DEF has_ticket
<1>2. Ticket(c, type) \notin m_granted[k]
  <2>1. stronger_or_equal(type, type)
    BY DEF stronger_or_equal
  <2> QED
    BY <2>1, TicketFacts DEF has_ticket
<1>3. requests' \in [Context -> 0..MaxRequests]
  BY MDLAssumption DEF acquire_lock, Inv, TypeOK
<1>4. CASE can_grant_lock(Ticket(c, type), m_granted[k], ToSet(m_waiting[k]),
                          FALSE)
  <2>1. /\ m_granted' = [m_granted EXCEPT ![k] = @ \cup {Ticket(c, type)}]
        /\ IF old = None
           THEN UNCHANGED <<pc, local>>
           ELSE Goto(c, "merge") /\ Enter(c, <<k, type>>, old)
        /\ UNCHANGED <<m_waiting, m_wait, m_hog_lock_count, m_waiting_for,
                       search, corrupted, aborts>>
    BY <1>4 DEF acquire_lock
  <2> QED
    BY <1>1, <1>3, <1>4, <2>1, GrantedAtOnce
<1>5. CASE ~can_grant_lock(Ticket(c, type), m_granted[k],
                           ToSet(m_waiting[k]), FALSE)
  <2>1. /\ m_waiting' = [m_waiting EXCEPT ![k] = Append(@, Ticket(c, type))]
        /\ m_wait' = [m_wait EXCEPT ![c] = "EMPTY"]
        /\ Goto(c, "queued") /\ Enter(c, <<k, type>>, old)
        /\ UNCHANGED <<m_granted, m_hog_lock_count, m_waiting_for, search,
                       corrupted, aborts>>
    BY <1>5 DEF acquire_lock
  <2> QED
    BY <1>1, <1>2, <1>3, <1>5, <2>1, Queues
<1> QED
  BY <1>4, <1>5

LEMMA AcquireInv ==
  ASSUME Inv, NEW c \in Context, Acquire(c) \/ upgrade_shared_lock(c)
  PROVE  Inv'
<1>1. CASE Acquire(c)
  <2>1. PICK r \in Requests : /\ ~has_ticket(c, r[1], r[2])
                              /\ acquire_lock(c, r[1], r[2], None)
    BY <1>1 DEF Acquire
  <2>2. r[1] \in Key /\ r[2] \in ObjectType /\ pc[c] = "idle"
    BY <1>1, MDLAssumption DEF Acquire
  <2> QED
    BY <2>1, <2>2, AcquireLockInv
<1>2. CASE upgrade_shared_lock(c)
  <2>1. PICK k \in Key, u \in Upgrades :
          /\ Ticket(c, u[1]) \in m_granted[k]
          /\ ~has_ticket(c, k, u[2])
          /\ acquire_lock(c, k, u[2], u[1])
    BY <1>2 DEF upgrade_shared_lock
  <2>2. u[1] \in ObjectType /\ u[2] \in ObjectType /\ pc[c] = "idle"
    BY <1>2, MDLAssumption DEF upgrade_shared_lock
  <2> QED
    BY <2>1, <2>2, AcquireLockInv
<1> QED
  BY <1>1, <1>2

(* The old ticket of an upgrade goes: the new one conflicts with all that  *)
(* it did, so nobody becomes grantable.                                    *)
LEMMA MergeInv ==
  ASSUME Inv, NEW c \in Context, Merge(c)
  PROVE  Inv'
<1> DEFINE k == request[c][1]
           type == request[c][2]
           old == Ticket(c, upgraded[c])
           new == Ticket(c, type)
<1>1. /\ pc[c] = "merge"
      /\ m_granted' = [m_granted EXCEPT ![k] = @ \ {old}]
      /\ pc' = [pc EXCEPT ![c] = "idle"]
      /\ request' = [request EXCEPT ![c] = NoRequest]
      /\ upgraded' = [upgraded EXCEPT ![c] = None]
      /\ UNCHANGED <<m_waiting, m_hog_lock_count, m_wait, m_waiting_for,
                     search, corrupted, counts>>
  BY DEF Merge, Return, Goto, Enter
<1>2. request[c] \in Asked /\ upgraded[c] # None /\ new \in m_granted[k]
  BY <1>1 DEF Inv, TicketsOK, MergeHolds, asked_key, asked_ticket
<1>3. k \in Key /\ type \in ObjectType /\ upgraded[c] \in ObjectType
  BY <1>2, AskedFacts DEF Inv, Shapes
<1>4. ~stronger_or_equal(upgraded[c], type)
  BY <1>2 DEF Inv, TicketsOK, UpgradeStronger
<1> HIDE DEF k, type
<1>5. incompatible_granted[upgraded[c]] \subseteq incompatible_granted[type]
  BY <1>3, <1>4, StrengthIsTotal DEF stronger_or_equal
<1>6. /\ old \in AllTickets /\ old.ctx = c /\ old.type = upgraded[c]
      /\ new \in AllTickets /\ new.ctx = c /\ new.type = type
  BY <1>3, TicketFacts
<1>7. old # new
  <2>1. upgraded[c] # type
    BY <1>4 DEF stronger_or_equal
  <2> QED
    BY <1>6, <2>1
<1> HIDE DEF old, new
<1>8. /\ m_granted \in [Key -> SUBSET AllTickets]
      /\ m_granted'[k] = m_granted[k] \ {old}
      /\ \A x \in Key : x # k => m_granted'[x] = m_granted[x]
      /\ m_granted' \in [Key -> SUBSET AllTickets]
  <2>1. m_granted \in [Key -> SUBSET AllTickets]
    BY DEF Inv, TypeOK, AllTickets
  <2> QED
    BY <1>1, <1>3, <2>1
<1>9. new \in m_granted'[k]
  BY <1>2, <1>7, <1>8
<1>10. \A x \in Key : \A t \in AllTickets :
         t.ctx # c => (t \in m_granted'[x] <=> t \in m_granted[x])
  BY <1>6, <1>8
<1>11. \A x \in Key : \A t \in ToSet(m_waiting[x]) :
         t \in AllTickets /\ t.ctx \in Context /\ t.ctx # c
  BY <1>1, IdleNotQueued, QueuedTickets, TicketFacts DEF Inv
<1>12. \A d \in Context : d # c => /\ pc'[d] = pc[d]
                                   /\ request'[d] = request[d]
                                   /\ upgraded'[d] = upgraded[d]
  BY <1>1 DEF Inv, TypeOK, Shapes
<1>13. pc'[c] = "idle" /\ upgraded'[c] = None
  BY <1>1 DEF Inv, TypeOK, Shapes
<1>14. TypeOK'
  <2>1. m_granted' \in [Key -> SUBSET [ctx : Context, type : ObjectType]]
    BY <1>8 DEF AllTickets
  <2> QED
    BY <1>1, <2>1 DEF Inv, TypeOK, Shapes, PublishedOK, search, counts
<1>15. Shapes' /\ PathOK' /\ PublishedOK'
  BY <1>1 DEF Inv, TypeOK, Shapes, PathOK, PublishedOK, search
<1>16. CompatibleLocks'
  BY <1>8 DEF Inv, CompatibleLocks
<1>17. NothingGrantableWaits'
  <2> SUFFICES ASSUME NEW x \in Key, NEW tk \in ToSet(m_waiting[x]),
                      m_wait[tk.ctx] = "EMPTY",
                      can_grant_lock(tk, m_granted'[x], ToSet(m_waiting[x]),
                                     FALSE)
               PROVE  /\ tk.type \in hog_lock_types
                      /\ \/ skip_high_priority(ToSet(m_waiting[x]),
                                               m_hog_lock_count[x])
                         \/ \E t \in m_granted'[x] : t.ctx # tk.ctx
    BY <1>1, Zenon DEF NothingGrantableWaits, slot_free
  <2>1. compatible(tk, m_granted'[x])
    BY DEF can_grant_lock
  <2>2. compatible(tk, m_granted[x])
    <3> SUFFICES ASSUME NEW t \in m_granted[x], t.ctx # tk.ctx
                 PROVE  t.type \notin incompatible_granted[tk.type]
      BY DEF compatible
    <3>1. CASE t \in m_granted'[x]
      BY <2>1, <3>1 DEF compatible
    <3>2. CASE t \notin m_granted'[x]
      <4>1. x = k /\ t = old
        BY <1>8, <3>2
      <4>2. tk.type \in ObjectType /\ tk.ctx # c
        BY <1>11, TicketFacts
      <4>3. type \notin incompatible_granted[tk.type]
        BY <1>6, <1>9, <2>1, <4>1, <4>2 DEF compatible
      <4>4. tk.type \notin incompatible_granted[type]
        BY <1>3, <4>2, <4>3, IncompatibleSymmetric
      <4>5. tk.type \notin incompatible_granted[upgraded[c]]
        BY <1>5, <4>4
      <4> QED
        BY <1>3, <1>6, <4>1, <4>2, <4>5, IncompatibleSymmetric
    <3> QED
      BY <3>1, <3>2
  <2>3. can_grant_lock(tk, m_granted[x], ToSet(m_waiting[x]), FALSE)
    BY <2>2 DEF can_grant_lock
  <2>4. /\ tk.type \in hog_lock_types
        /\ \/ skip_high_priority(ToSet(m_waiting[x]), m_hog_lock_count[x])
           \/ \E t \in m_granted[x] : t.ctx # tk.ctx
    BY <2>3, Zenon DEF Inv, NothingGrantableWaits, slot_free
  <2>5. (\E t \in m_granted[x] : t.ctx # tk.ctx) =>
          \E t \in m_granted'[x] : t.ctx # tk.ctx
    BY <1>6, <1>8, <1>9
  <2> QED
    BY <2>4, <2>5
<1>18. QueuedAsk'
  BY <1>1, <1>11, <1>12 DEF Inv, TicketsOK, QueuedAsk
<1>19. OneEach'
  BY <1>1 DEF Inv, TicketsOK, OneEach
<1>20. \A d \in Context : d # c =>
         /\ asked_ticket(d)' = asked_ticket(d)
         /\ asked_key(d)' = asked_key(d)
         /\ request[d] \in Asked =>
              (asked_ticket(d) \in m_granted'[asked_key(d)]
                 <=> asked_ticket(d) \in m_granted[asked_key(d)])
  <2> SUFFICES ASSUME NEW d \in Context, d # c
               PROVE  /\ asked_ticket(d)' = asked_ticket(d)
                      /\ asked_key(d)' = asked_key(d)
                      /\ request[d] \in Asked =>
                           (asked_ticket(d) \in m_granted'[asked_key(d)]
                              <=> asked_ticket(d) \in m_granted[asked_key(d)])
    BY Zenon
  <2>1. asked_ticket(d)' = asked_ticket(d) /\ asked_key(d)' = asked_key(d)
    BY <1>12 DEF asked_ticket, asked_key
  <2>2. ASSUME request[d] \in Asked
        PROVE  /\ asked_key(d) \in Key /\ asked_ticket(d) \in AllTickets
               /\ asked_ticket(d).ctx = d
    BY <2>2, AskedFacts, TicketFacts DEF asked_ticket, asked_key
  <2> QED
    BY <1>10, <2>1, <2>2
<1>21. HeldOrQueued'
  <2> SUFFICES ASSUME NEW d \in Context, pc'[d] \in Waiting
               PROVE  /\ request'[d] \in Asked
                      /\ IF m_wait'[d] = "GRANTED"
                         THEN asked_ticket(d)' \in m_granted'[asked_key(d)']
                         ELSE /\ asked_ticket(d)' \notin m_granted'[asked_key(d)']
                              /\ asked_ticket(d)' \in ToSet(m_waiting'[asked_key(d)'])
    BY Zenon DEF HeldOrQueued
  <2>1. d # c
    BY <1>13 DEF Waiting
  <2>2. /\ request[d] \in Asked
        /\ IF m_wait[d] = "GRANTED"
           THEN asked_ticket(d) \in m_granted[asked_key(d)]
           ELSE /\ asked_ticket(d) \notin m_granted[asked_key(d)]
                /\ asked_ticket(d) \in ToSet(m_waiting[asked_key(d)])
    BY <1>12, <2>1 DEF Inv, TicketsOK, HeldOrQueued
  <2> QED
    BY <1>1, <1>12, <1>20, <2>1, <2>2
<1>22. MergeHolds'
  <2> SUFFICES ASSUME NEW d \in Context, pc'[d] = "merge"
               PROVE  /\ request'[d] \in Asked /\ upgraded'[d] # None
                      /\ asked_ticket(d)' \in m_granted'[asked_key(d)']
    BY Zenon DEF MergeHolds
  <2>1. d # c
    BY <1>13
  <2> QED
    BY <1>12, <1>20, <2>1 DEF Inv, TicketsOK, MergeHolds
<1>23. UpgradeStronger'
  BY <1>12, <1>13 DEF Inv, TicketsOK, UpgradeStronger
<1> QED
  BY <1>14, <1>15, <1>16, <1>17, <1>18, <1>19, <1>21, <1>22, <1>23
     DEF Inv, TicketsOK

(***************************************************************************)
(* Giving up a ticket.                                                     *)
(***************************************************************************)

(* What the lists are given does not matter, as long as the tickets of the *)
(* other contexts are left alone.                                          *)
LEMMA GiveUpInv ==
  ASSUME Inv, NEW a \in Context, NEW k \in Key,
         NEW G \in SUBSET AllTickets, NEW W \in Seq(AllTickets), NEW N,
         Outcome(k, G, W, N),
         \A t, u \in G :
           t.ctx # u.ctx => t.type \notin incompatible_granted[u.type],
         \A t \in AllTickets :
           t.ctx # a => (t \in G <=> t \in m_granted[k]),
         \A t \in ToSet(m_waiting[k]) : t.ctx # a => t \in ToSet(W),
         \A t \in ToSet(W) : t.ctx # a /\ t \in ToSet(m_waiting[k]),
         \A x \in Key : x # k => \A t \in ToSet(m_waiting[x]) : t.ctx # a,
         m_waiting_for[a] = NoRequest, pc[a] # "visit",
         pc' = [pc EXCEPT ![a] = "idle"],
         \/ UNCHANGED local
         \/ /\ request' = [request EXCEPT ![a] = NoRequest]
            /\ upgraded' = [upgraded EXCEPT ![a] = None],
         UNCHANGED <<m_waiting_for, search, corrupted, counts>>
  PROVE  Inv'
<1>1. /\ m_granted' \in [Key -> SUBSET AllTickets]
      /\ m_waiting' \in [Key -> Seq(AllTickets)]
      /\ m_hog_lock_count' \in [Key -> 0..max_write_lock_count]
      /\ m_wait' \in [Context -> {"EMPTY", "GRANTED", "VICTIM", "TIMEOUT"}]
      /\ CompatibleLocks'
      /\ NothingGrantableWaits'
  BY OutcomeLists
<1>2. \/ request' = request /\ upgraded' = upgraded
      \/ /\ request' = [request EXCEPT ![a] = NoRequest]
         /\ upgraded' = [upgraded EXCEPT ![a] = None]
  BY DEF local
<1>3. /\ pc'[a] = "idle"
      /\ \A c \in Context : c # a => /\ pc'[c] = pc[c]
                                     /\ request'[c] = request[c]
                                     /\ upgraded'[c] = upgraded[c]
  BY <1>2 DEF Inv, TypeOK, Shapes
<1>4. QueuedAsk' /\ OneEach' /\ HeldOrQueued' /\ MergeHolds'
  BY <1>3, OutcomeTickets
<1>5. UpgradeStronger'
  BY <1>2 DEF Inv, TicketsOK, UpgradeStronger, Shapes
<1>6. TypeOK'
  <2>1. /\ m_granted' \in [Key -> SUBSET [ctx : Context, type : ObjectType]]
        /\ \A x \in Key :
             m_waiting'[x] \in Seq([ctx : Context, type : ObjectType])
    BY <1>1 DEF AllTickets
  <2>2. \A c \in Context : m_waiting_for'[c] \in {NoRequest, request'[c]}
    BY <1>3 DEF Inv, TypeOK
  <2>3. pc' \in [Context -> {"idle", "merge", "queued", "search", "visit",
                           "victim", "wait", "done", "gone", "remove"}]
    BY DEF Inv, TypeOK
  <2> QED
    BY <1>1, <2>1, <2>2, <2>3 DEF Inv, TypeOK, search, counts
<1>7. Shapes'
  BY <1>1, <1>2 DEF Inv, Shapes, search
<1>8. PathOK'
  BY <1>3 DEF Inv, PathOK, search
<1>9. PublishedOK'
  BY <1>3 DEF Inv, PublishedOK
<1> QED
  BY <1>1, <1>4, <1>5, <1>6, <1>7, <1>8, <1>9 DEF Inv, TicketsOK

LEMMA RemoveWaitingInv ==
  ASSUME Inv, NEW c \in Context, RemoveWaiting(c)
  PROVE  Inv'
<1> DEFINE k == request[c][1]
           tk == Ticket(c, request[c][2])
           q == m_waiting[k]
           D == {i \in DOMAIN q : q[i] = tk}
           W == without(q, D)
<1>1. pc[c] = "remove" /\ UNCHANGED <<m_waiting_for, search, counts>>
  BY DEF RemoveWaiting
<1>2. request[c] \in Asked
  BY <1>1 DEF Inv, TicketsOK, HeldOrQueued, Waiting
<1>3. k \in Key /\ tk \in AllTickets /\ tk.ctx = c
  BY <1>2, AskedFacts, TicketFacts
<1>4. CASE tk \notin ToSet(q)
  <2>1. corrupted' = TRUE /\ UNCHANGED <<queues, m_wait, pc, local>>
    BY <1>4 DEF RemoveWaiting
  <2>2. TypeOK'
    BY <1>1, <2>1 DEF Inv, TypeOK, queues, local, search, counts
  <2>3. Shapes' /\ PathOK' /\ PublishedOK'
    BY <1>1, <2>1
       DEF Inv, Shapes, PathOK, PublishedOK, queues, local, search
  <2>4. TicketsOK'
    <3>1. pc[c] \in Waiting /\ pc'[c] \in Waiting
      BY <1>1, <2>1 DEF Waiting
    <3> QED
      BY <2>1, <3>1, WaitGoesOn
  <2>5. CompatibleLocks' /\ NothingGrantableWaits'
    BY <2>1, SlotsFill
  <2> QED
    BY <2>2, <2>3, <2>4, <2>5 DEF Inv
<1>5. CASE tk \in ToSet(q)
  <2>1. /\ remove_ticket(k, m_granted[k], W)
        /\ pc' = [pc EXCEPT ![c] = "idle"]
        /\ request' = [request EXCEPT ![c] = NoRequest]
        /\ upgraded' = [upgraded EXCEPT ![c] = None]
        /\ corrupted' = corrupted
    BY <1>5, Zenon DEF RemoveWaiting, Return, Goto, Enter
  <2>2. q \in Seq(AllTickets)
    BY <1>3 DEF Inv, Shapes
  <2>3. \A i, j \in DOMAIN q : q[i].ctx = q[j].ctx => i = j
    BY <1>3 DEF Inv, TicketsOK, OneEach
  <2> HIDE DEF q, k, tk
  <2>4. /\ W \in Seq(AllTickets)
        /\ ToSet(W) = {q[i] : i \in DOMAIN q \ D}
        /\ \A i, j \in DOMAIN W : W[i].ctx = W[j].ctx => i = j
    <3> HIDE DEF D
    <3>1. /\ without(q, D) \in Seq(AllTickets)
          /\ ToSet(without(q, D)) = {q[i] : i \in DOMAIN q \ D}
          /\ (\A i, j \in DOMAIN q : q[i].ctx = q[j].ctx => i = j) =>
               \A m, n \in DOMAIN without(q, D) :
                 without(q, D)[m].ctx = without(q, D)[n].ctx => m = n
      BY <2>2, WithoutFacts
    <3> HIDE DEF W
    <3>2. W = without(q, D)
      BY DEF W
    <3> QED
      BY <2>3, <3>1, <3>2
  <2>5. ToSet(W) = ToSet(q) \ {tk}
    <3>1. {q[i] : i \in DOMAIN q \ D} = {q[i] : i \in DOMAIN q} \ {tk}
      OBVIOUS
    <3> QED
      BY <2>4, <3>1 DEF ToSet
  <2> HIDE DEF W
  <2>6. m_granted[k] \in SUBSET AllTickets
    BY <1>3 DEF Inv, TypeOK, AllTickets
  <2>7. PICK N : Outcome(k, m_granted[k], W, N)
    BY <1>3, <2>1, <2>4, <2>6, RemoveOutcome DEF Inv
  <2>8. \A x \in Key : \A t \in ToSet(m_waiting[x]) :
          t.ctx = c => x = k /\ t = tk
    <3> SUFFICES ASSUME NEW x \in Key, NEW t \in ToSet(m_waiting[x]),
                        t.ctx = c
                 PROVE  x = k /\ t = tk
      OBVIOUS
    <3>1. request[c] = <<x, t.type>>
      BY DEF Inv, TicketsOK, QueuedAsk
    <3>2. t = Ticket(c, t.type)
      BY QueuedTickets, TicketFacts DEF Inv
    <3> QED
      BY <3>1, <3>2 DEF k, tk
  <2>9. /\ \A t \in ToSet(m_waiting[k]) : t.ctx # c => t \in ToSet(W)
        /\ \A t \in ToSet(W) : t.ctx # c /\ t \in ToSet(m_waiting[k])
        /\ \A x \in Key : x # k => \A t \in ToSet(m_waiting[x]) : t.ctx # c
    BY <1>3, <2>5, <2>8 DEF q
  <2>10. m_waiting_for[c] = NoRequest /\ pc[c] # "visit"
    BY <1>1 DEF Inv, PublishedOK
  <2>11. \A t, u \in m_granted[k] :
           t.ctx # u.ctx => t.type \notin incompatible_granted[u.type]
    BY <1>3 DEF Inv, CompatibleLocks
  <2> QED
    BY <1>1, <1>3, <2>1, <2>4, <2>6, <2>7, <2>9, <2>10, <2>11, GiveUpInv
<1> QED
  BY <1>4, <1>5

(* A context that gives up or weakens a granted ticket of its own. *)
LEMMA ShrinkInv ==
  ASSUME Inv, NEW c \in Context, pc[c] = "idle", NEW k \in Key,
         NEW G \in SUBSET AllTickets,
         \A t, u \in G :
           t.ctx # u.ctx => t.type \notin incompatible_granted[u.type],
         \A t \in AllTickets :
           t.ctx # c => (t \in G <=> t \in m_granted[k]),
         \/ remove_ticket(k, G, m_waiting[k])
         \/ reschedule_waiters(k, G, m_waiting[k]),
         UNCHANGED <<m_waiting_for, pc, local, search, corrupted, counts>>
  PROVE  Inv'
<1>1. m_waiting[k] \in Seq(AllTickets)
  BY DEF Inv, Shapes
<1>2. \A i, j \in DOMAIN m_waiting[k] :
        m_waiting[k][i].ctx = m_waiting[k][j].ctx => i = j
  BY DEF Inv, TicketsOK, OneEach
<1>3. PICK N : Outcome(k, G, m_waiting[k], N)
  BY <1>1, <1>2, RemoveOutcome, RescheduleOutcome DEF Inv
<1>4. \A x \in Key : \A t \in ToSet(m_waiting[x]) : t.ctx # c
  BY IdleNotQueued
<1>5. m_waiting_for[c] = NoRequest
  BY DEF Inv, PublishedOK
<1>6. pc' = [pc EXCEPT ![c] = "idle"] /\ pc[c] # "visit"
  BY DEF Inv, TypeOK
<1>7. \A t \in ToSet(m_waiting[k]) : t.ctx # c
  BY <1>4
<1> QED
  BY <1>1, <1>3, <1>4, <1>5, <1>6, <1>7, GiveUpInv, ZenonT(30)

LEMMA ReleaseLockInv ==
  ASSUME Inv, NEW c \in Context, release_lock(c)
  PROVE  Inv'
<1>1. /\ pc[c] = "idle"
      /\ UNCHANGED <<m_waiting_for, pc, local, search, corrupted, counts>>
  BY DEF release_lock
<1>2. PICK k \in Key : \E t \in m_granted[k] :
        /\ t.ctx = c
        /\ remove_ticket(k, m_granted[k] \ {t}, m_waiting[k])
  BY DEF release_lock
<1>3. PICK t \in m_granted[k] :
        /\ t.ctx = c
        /\ remove_ticket(k, m_granted[k] \ {t}, m_waiting[k])
  BY <1>2
<1> DEFINE G == m_granted[k] \ {t}
<1>4. G \in SUBSET AllTickets
  BY DEF Inv, TypeOK, AllTickets
<1>5. \A u, v \in G :
        u.ctx # v.ctx => u.type \notin incompatible_granted[v.type]
  BY DEF Inv, CompatibleLocks
<1>6. \A u \in AllTickets : u.ctx # c => (u \in G <=> u \in m_granted[k])
  BY <1>3
<1> HIDE DEF G
<1>7. remove_ticket(k, G, m_waiting[k])
  BY <1>3 DEF G
<1> QED
  BY <1>1, <1>4, <1>5, <1>6, <1>7, ShrinkInv

LEMMA DowngradeLockInv ==
  ASSUME Inv, NEW c \in Context, downgrade_lock(c)
  PROVE  Inv'
<1>1. /\ pc[c] = "idle"
      /\ UNCHANGED <<m_waiting_for, pc, local, search, corrupted, counts>>
  BY DEF downgrade_lock
<1>2. PICK k \in Key, d \in Downgrades :
        /\ Ticket(c, d[1]) \in m_granted[k]
        /\ stronger_or_equal(d[1], d[2])
        /\ reschedule_waiters(k, (m_granted[k] \ {Ticket(c, d[1])})
                                   \cup {Ticket(c, d[2])}, m_waiting[k])
  BY DEF downgrade_lock
<1> DEFINE old == Ticket(c, d[1])
           new == Ticket(c, d[2])
           G == (m_granted[k] \ {old}) \cup {new}
<1>3. d[1] \in ObjectType /\ d[2] \in ObjectType
  <2>1. {"X", "SNW"} \subseteq ObjectType
    BY DEF ObjectType
  <2> QED
    BY <2>1, MDLAssumption
<1>4. /\ old.ctx = c /\ old.type = d[1]
      /\ new \in AllTickets /\ new.ctx = c /\ new.type = d[2]
  BY <1>3, TicketFacts
<1>5. old \in m_granted[k] /\ reschedule_waiters(k, G, m_waiting[k])
  BY <1>2
<1> HIDE DEF old, new
<1>6. m_granted[k] \in SUBSET AllTickets
  BY DEF Inv, TypeOK, AllTickets
<1>7. G \in SUBSET AllTickets
  BY <1>4, <1>6
<1>8. \A u \in AllTickets : u.ctx # c => (u \in G <=> u \in m_granted[k])
  BY <1>4
<1>9. \A u \in m_granted[k] : u.ctx # c =>
        /\ u.type \notin incompatible_granted[d[2]]
        /\ d[2] \notin incompatible_granted[u.type]
  <2> SUFFICES ASSUME NEW u \in m_granted[k], u.ctx # c
               PROVE  /\ u.type \notin incompatible_granted[d[2]]
                      /\ d[2] \notin incompatible_granted[u.type]
    OBVIOUS
  <2>1. u.type \in ObjectType
    BY <1>6, TicketFacts
  <2>2. u.type \notin incompatible_granted[d[1]]
    BY <1>4, <1>5 DEF Inv, CompatibleLocks
  <2>3. u.type \notin incompatible_granted[d[2]]
    BY <1>2, <2>2 DEF stronger_or_equal
  <2> QED
    BY <1>3, <2>1, <2>3, IncompatibleSymmetric
<1>10. \A t, u \in G :
         t.ctx # u.ctx => t.type \notin incompatible_granted[u.type]
  <2> SUFFICES ASSUME NEW t \in G, NEW u \in G, t.ctx # u.ctx
               PROVE  t.type \notin incompatible_granted[u.type]
    OBVIOUS
  <2>1. CASE t = new
    BY <1>4, <1>9, <2>1
  <2>2. CASE u = new
    BY <1>4, <1>9, <2>2
  <2>3. CASE t # new /\ u # new
    BY <2>3 DEF Inv, CompatibleLocks
  <2> QED
    BY <2>1, <2>2, <2>3
<1> HIDE DEF G
<1> QED
  BY <1>1, <1>5, <1>7, <1>8, <1>10, ShrinkInv

(***************************************************************************)
(* The theorems.                                                           *)
(***************************************************************************)

LEMMA InitInv == Init => Inv
<1> SUFFICES ASSUME Init PROVE Inv
  OBVIOUS
<1>1. ToSet(<<>>) = {}
  BY DEF ToSet
<1>2. \A k \in Key : m_waiting[k] = <<>> /\ m_granted[k] = {}
  BY DEF Init
<1>3. TypeOK
  <2>1. \A c \in Context : Len(path[c]) = 0 /\ m_waiting_for[c] = NoRequest
    BY DEF Init
  <2>2. /\ 0 \in 0..max_write_lock_count /\ 0 < MAX_SEARCH_DEPTH
        /\ 0 \in 0..MaxRequests /\ 0 \in 0..MaxAborts
    BY MDLAssumption
  <2>3. m_granted \in [Key -> SUBSET [ctx : Context, type : ObjectType]]
    BY DEF Init
  <2>4. \A k \in Key :
          m_waiting[k] \in Seq([ctx : Context, type : ObjectType])
    <3>1. <<>> \in Seq([ctx : Context, type : ObjectType])
      OBVIOUS
    <3> QED
      BY <1>2, <3>1
  <2>5. /\ m_hog_lock_count \in [Key -> 0..max_write_lock_count]
        /\ requests \in [Context -> 0..MaxRequests] /\ aborts \in 0..MaxAborts
    BY <2>2 DEF Init
  <2> QED
    BY <2>1, <2>2, <2>3, <2>4, <2>5 DEF Init, TypeOK
<1>4. Shapes /\ PathOK /\ PublishedOK
  BY DEF Init, Shapes, PathOK, PublishedOK
<1>5. TicketsOK
  BY <1>1, <1>2 DEF Init, TicketsOK, QueuedAsk, OneEach, HeldOrQueued,
     MergeHolds, UpgradeStronger, Waiting
<1>6. CompatibleLocks
  BY <1>2 DEF CompatibleLocks
<1>7. NothingGrantableWaits
  BY <1>1, <1>2 DEF NothingGrantableWaits
<1> QED
  BY <1>3, <1>4, <1>5, <1>6, <1>7 DEF Inv

LEMMA StutterInv ==
  ASSUME Inv, UNCHANGED vars
  PROVE  Inv'
<1>1. UNCHANGED <<m_granted, m_waiting, m_hog_lock_count, m_wait,
                  m_waiting_for, pc, request, upgraded, path, victim,
                  corrupted, requests, aborts>>
  BY DEF vars, queues, local, search, counts
<1>2. TypeOK' /\ Shapes' /\ PathOK' /\ PublishedOK'
  BY <1>1 DEF Inv, TypeOK, Shapes, PathOK, PublishedOK
<1>3. TicketsOK'
  BY <1>1 DEF Inv, TicketsOK, QueuedAsk, OneEach, HeldOrQueued, MergeHolds,
     UpgradeStronger, asked_key, asked_ticket
<1>4. CompatibleLocks' /\ NothingGrantableWaits'
  BY <1>1, SlotsFill DEF queues
<1> QED
  BY <1>2, <1>3, <1>4 DEF Inv

LEMMA NextInv ==
  ASSUME Inv, [Next]_vars
  PROVE  Inv'
<1>1. ASSUME NEW c \in Context, Step(c)
      PROVE  Inv'
  <2>1. CASE Acquire(c) \/ upgrade_shared_lock(c)
    BY <2>1, AcquireInv
  <2>2. CASE Merge(c)
    BY <2>2, MergeInv
  <2>3. CASE will_wait_for(c)
    BY <2>3, WillWaitForInv
  <2>4. CASE find_deadlock(c)
    BY <2>4, FindDeadlockInv
  <2>5. CASE SetVictim(c)
    BY <2>5, SetVictimInv
  <2>6. CASE timed_wait(c)
    BY <2>6, TimedWaitInv
  <2>7. CASE done_waiting_for(c)
    BY <2>7, DoneWaitingForInv
  <2>8. CASE RemoveWaiting(c)
    BY <2>8, RemoveWaitingInv
  <2>9. CASE release_lock(c)
    BY <2>9, ReleaseLockInv
  <2>10. CASE downgrade_lock(c)
    BY <2>10, DowngradeLockInv
  <2> QED
    BY <1>1, <2>1, <2>2, <2>3, <2>4, <2>5, <2>6, <2>7, <2>8, <2>9, <2>10
       DEF Step
<1>2. CASE UNCHANGED vars
  BY <1>2, StutterInv
<1> QED
  BY <1>1, <1>2 DEF Next

(* Every reachable state satisfies the inductive invariant. *)
THEOREM MDLInvariant == Spec => []Inv
<1>1. Init => Inv
  BY InitInv
<1>2. Inv /\ [Next]_vars => Inv'
  BY NextInv
<1> QED
  BY <1>1, <1>2, PTL DEF Spec

(* The tickets, slots, requests and paths of sql/mdl.cc keep their types,  *)
(* a search stays within its depth, and the counter of strong locks within *)
(* max_write_lock_count.                                                   *)
THEOREM TypesHold == Spec => []TypeOK
<1>1. Inv => TypeOK
  BY DEF Inv
<1> QED
  BY <1>1, MDLInvariant, PTL

(* Locks granted to different contexts on one object are compatible,       *)
(* however they were granted.                                              *)
THEOREM LocksCompatible == Spec => []CompatibleLocks
<1>1. Inv => CompatibleLocks
  BY DEF Inv
<1> QED
  BY <1>1, MDLInvariant, PTL

(* The wait slot tells a context in which of the lists its ticket is.      *)
THEOREM SlotsTellTheTruth == Spec => []SlotTellsTheTruth
<1>1. Inv => SlotTellsTheTruth
  <2> SUFFICES ASSUME Inv, NEW c \in Context,
                      pc[c] \notin {"idle", "merge"}
               PROVE  IF m_wait[c] = "GRANTED"
                      THEN /\ asked_ticket(c) \in m_granted[asked_key(c)]
                           /\ asked_ticket(c) \notin
                                ToSet(m_waiting[asked_key(c)])
                      ELSE /\ asked_ticket(c) \notin m_granted[asked_key(c)]
                           /\ asked_ticket(c) \in
                                ToSet(m_waiting[asked_key(c)])
    BY Zenon DEF SlotTellsTheTruth, asked_ticket, asked_key
  <2>1. pc[c] \in Waiting
    BY DEF Inv, TypeOK, Waiting
  <2>2. /\ request[c] \in Asked
        /\ IF m_wait[c] = "GRANTED"
           THEN asked_ticket(c) \in m_granted[asked_key(c)]
           ELSE /\ asked_ticket(c) \notin m_granted[asked_key(c)]
                /\ asked_ticket(c) \in ToSet(m_waiting[asked_key(c)])
    BY <2>1 DEF Inv, TicketsOK, HeldOrQueued
  <2>3. asked_key(c) \in Key /\ asked_ticket(c).ctx = c
    BY <2>2, AskedFacts, TicketFacts DEF asked_key, asked_ticket
  <2>4. m_wait[c] = "GRANTED" =>
          asked_ticket(c) \notin ToSet(m_waiting[asked_key(c)])
    BY <2>3 DEF Inv, TicketsOK, QueuedAsk
  <2> QED
    BY <2>2, <2>4
<1> QED
  BY <1>1, MDLInvariant, PTL

(* Nobody sleeps who could be granted its lock, except for a strong lock   *)
(* that stands back for weak ones.                                         *)
THEOREM NobodyForgotten == Spec => []NothingGrantableWaits
<1>1. Inv => NothingGrantableWaits
  BY DEF Inv
<1> QED
  BY <1>1, MDLInvariant, PTL

(***************************************************************************)
(* Deadlocks.                                                              *)
(***************************************************************************)

(* Who has published a request and has not got a message. *)
Blocked ==
  {c \in Context : /\ pc[c] \in {"search", "visit", "victim", "wait"}
                   /\ slot_free(m_wait[c])}

(* Everybody in S waits for somebody in S. *)
Closed(S) == \A c \in S : \E t \in edges(c) : t.ctx \in S

(* The search of c is not over, and has an edge into S to follow. *)
Searches(c, S) ==
  \/ pc[c] \in {"search", "victim"}
  \/ /\ pc[c] = "visit"
     /\ \E j \in DOMAIN path[c] : \E t \in path[c][j].todo : t.ctx \in S

(* Contexts that wait for each other are found: one of them is still       *)
(* searching.                                                              *)
SomebodySearches ==
  \A S \in SUBSET Blocked :
    S # {} /\ Closed(S) => \E c \in S : Searches(c, S)

(* From the publication of a request to its withdrawal. *)
Published == {"search", "visit", "victim", "wait", "done", "gone"}

Announced ==
  \A c \in Context : pc[c] \in Published => m_waiting_for[c] = request[c]

DeadlockInv == Announced /\ SomebodySearches

LEMMA BlockedWaits ==
  ASSUME Inv, Announced, NEW c \in Blocked
  PROVE  /\ c \in Context /\ waits(c) /\ m_waiting_for[c] \in Asked
         /\ m_waiting_for[c][1] \in Key
<1>1. c \in Context /\ pc[c] \in Published /\ pc[c] \in Waiting
      /\ slot_free(m_wait[c])
  BY DEF Blocked, Published, Waiting
<1>2. m_waiting_for[c] \in Asked
  BY <1>1 DEF Announced, Inv, TicketsOK, HeldOrQueued
<1>3. m_waiting_for[c] # NoRequest /\ m_waiting_for[c][1] \in Key
  BY <1>2, AskedFacts
<1> QED
  BY <1>1, <1>2, <1>3 DEF waits

(* Who waits for each other after a step did so before, when no ticket of  *)
(* theirs is new in a list.                                                *)
LEMMA ClosedBefore ==
  ASSUME NEW S,
         \A c \in S : /\ m_waiting_for'[c] = m_waiting_for[c]
                      /\ m_waiting_for[c][1] \in Key,
         \A k \in Key : \A t :
           t.ctx \in S =>
             /\ t \in m_granted'[k] => t \in m_granted[k]
             /\ t \in ToSet(m_waiting'[k]) => t \in ToSet(m_waiting[k]),
         Closed(S)'
  PROVE  Closed(S)
<1> SUFFICES ASSUME NEW c \in S PROVE \E t \in edges(c) : t.ctx \in S
  BY DEF Closed
<1>1. PICK t \in edges(c)' : t.ctx \in S
  BY DEF Closed
<1>2. PICK k, type : k = m_waiting_for[c][1] /\ type = m_waiting_for[c][2]
  OBVIOUS
<1>3. k \in Key
  BY <1>2
<1>4. /\ t.ctx # c
      /\ \/ t \in m_granted'[k] /\ t.type \in incompatible_granted[type]
         \/ /\ t \in ToSet(m_waiting'[k])
            /\ t.type \in incompatible_waiting[type]
  BY <1>1, <1>2 DEF edges
<1>5. \/ t \in m_granted[k] /\ t.type \in incompatible_granted[type]
      \/ t \in ToSet(m_waiting[k]) /\ t.type \in incompatible_waiting[type]
  BY <1>1, <1>3, <1>4
<1>6. t \in edges(c)
  BY <1>2, <1>4, <1>5 DEF edges
<1> QED
  BY <1>1, <1>6

(* A step that has nothing to do with those who are blocked. *)
LEMMA Undisturbed ==
  ASSUME Inv, DeadlockInv,
         \A d \in Context : pc'[d] \in Published =>
           /\ pc[d] \in Published /\ m_waiting_for'[d] = m_waiting_for[d]
           /\ request'[d] = request[d],
         \A d \in Blocked' : /\ d \in Blocked /\ pc'[d] = pc[d]
                             /\ path'[d] = path[d],
         \A k \in Key : \A t :
           t.ctx \in Blocked' =>
             /\ t \in m_granted'[k] => t \in m_granted[k]
             /\ t \in ToSet(m_waiting'[k]) => t \in ToSet(m_waiting[k])
  PROVE  DeadlockInv'
<1>1. Announced'
  BY DEF DeadlockInv, Announced
<1>2. SomebodySearches'
  <2> SUFFICES ASSUME NEW S, S \subseteq Blocked', S # {}, Closed(S)'
               PROVE  \E c \in S : Searches(c, S)'
    BY DEF SomebodySearches
  <2>1. S \subseteq Blocked
    OBVIOUS
  <2>2. \A c \in S : /\ m_waiting_for'[c] = m_waiting_for[c]
                     /\ m_waiting_for[c][1] \in Key
    <3> SUFFICES ASSUME NEW c \in S
                 PROVE  /\ m_waiting_for'[c] = m_waiting_for[c]
                        /\ m_waiting_for[c][1] \in Key
      OBVIOUS
    <3>1. c \in Blocked /\ c \in Blocked'
      BY <2>1
    <3>2. c \in Context /\ pc'[c] \in Published
      BY <3>1 DEF Blocked, Published
    <3>3. m_waiting_for[c][1] \in Key
      BY <3>1, BlockedWaits DEF DeadlockInv
    <3> QED
      BY <3>2, <3>3
  <2>3. \A k \in Key : \A t :
          t.ctx \in S =>
            /\ t \in m_granted'[k] => t \in m_granted[k]
            /\ t \in ToSet(m_waiting'[k]) => t \in ToSet(m_waiting[k])
    OBVIOUS
  <2>4. Closed(S)
    BY <2>2, <2>3, ClosedBefore
  <2>5. PICK c \in S : Searches(c, S)
    BY <2>1, <2>4 DEF DeadlockInv, SomebodySearches
  <2>6. Searches(c, S)'
    BY <2>5 DEF Searches
  <2> QED
    BY <2>6
<1> QED
  BY <1>1, <1>2 DEF DeadlockInv

(* A context publishes its request: loops that this closes it is going to  *)
(* look for.                                                               *)
LEMMA WillWaitForDeadlock ==
  ASSUME Inv, DeadlockInv, NEW c \in Context, will_wait_for(c)
  PROVE  DeadlockInv'
<1>1. /\ pc[c] = "queued" /\ pc' = [pc EXCEPT ![c] = "search"]
      /\ m_waiting_for' = [m_waiting_for EXCEPT ![c] = request[c]]
      /\ UNCHANGED <<m_granted, m_waiting, m_wait, request, path>>
  BY DEF will_wait_for, Goto, queues, local, search
<1>2. /\ pc'[c] = "search" /\ m_waiting_for'[c] = request[c]
      /\ \A d \in Context : d # c => /\ pc'[d] = pc[d]
                                     /\ m_waiting_for'[d] = m_waiting_for[d]
  BY <1>1 DEF Inv, TypeOK, Shapes
<1>3. Announced'
  BY <1>1, <1>2 DEF DeadlockInv, Announced
<1>4. SomebodySearches'
  <2> SUFFICES ASSUME NEW S, S \subseteq Blocked', S # {}, Closed(S)'
               PROVE  \E d \in S : Searches(d, S)'
    BY DEF SomebodySearches
  <2>1. CASE c \in S
    <3>1. Searches(c, S)'
      BY <1>2 DEF Searches
    <3> QED
      BY <2>1, <3>1
  <2>2. CASE c \notin S
    <3>1. S \subseteq Blocked
      BY <1>1, <1>2, <2>2 DEF Blocked
    <3>2. \A d \in S : /\ m_waiting_for'[d] = m_waiting_for[d]
                       /\ m_waiting_for[d][1] \in Key /\ d \in Context
      BY <1>2, <2>2, <3>1, BlockedWaits DEF DeadlockInv
    <3>3. Closed(S)
      BY <1>1, <3>2, ClosedBefore
    <3>4. PICK d \in S : Searches(d, S)
      BY <3>1, <3>3 DEF DeadlockInv, SomebodySearches
    <3>5. Searches(d, S)'
      BY <1>1, <1>2, <2>2, <3>2, <3>4 DEF Searches
    <3> QED
      BY <3>5
  <2> QED
    BY <2>1, <2>2
<1> QED
  BY <1>3, <1>4 DEF DeadlockInv

(* The victim is told.  Unless it is the context itself, which then is not *)
(* blocked any more, the search starts again.                              *)
LEMMA SetVictimDeadlock ==
  ASSUME Inv, DeadlockInv, NEW c \in Context, SetVictim(c)
  PROVE  DeadlockInv'
<1>1. /\ pc[c] = "victim" /\ pc' = [pc EXCEPT ![c] = after_victim(c)]
      /\ m_wait' = [m_wait EXCEPT ![victim[c]] =
                      IF slot_free(m_wait[victim[c]]) THEN "VICTIM"
                      ELSE m_wait[victim[c]]]
      /\ UNCHANGED <<m_granted, m_waiting, m_waiting_for, request, path>>
  BY DEF SetVictim, Goto, queues, local
<1>2. /\ pc'[c] = after_victim(c) /\ after_victim(c) \in {"wait", "search"}
      /\ \A d \in Context : d # c => pc'[d] = pc[d]
  BY <1>1 DEF Inv, TypeOK, after_victim
<1>3. \A d \in Context : slot_free(m_wait'[d]) => slot_free(m_wait[d])
  BY <1>1 DEF slot_free, Inv, TypeOK
<1>4. victim[c] = c => ~slot_free(m_wait'[c])
  BY <1>1 DEF slot_free, Inv, TypeOK
<1>5. Announced'
  BY <1>1, <1>2 DEF DeadlockInv, Announced, Published
<1>6. SomebodySearches'
  <2> SUFFICES ASSUME NEW S, S \subseteq Blocked', S # {}, Closed(S)'
               PROVE  \E d \in S : Searches(d, S)'
    BY DEF SomebodySearches
  <2>1. S \subseteq Blocked
    BY <1>1, <1>2, <1>3 DEF Blocked
  <2>2. \A d \in S : m_waiting_for[d][1] \in Key /\ d \in Context
    BY <2>1, BlockedWaits DEF DeadlockInv
  <2>3. Closed(S)
    BY <1>1, <2>2, ClosedBefore
  <2>4. PICK d \in S : Searches(d, S)
    BY <2>1, <2>3 DEF DeadlockInv, SomebodySearches
  <2>5. CASE d # c
    <3>1. Searches(d, S)'
      BY <1>1, <1>2, <2>2, <2>4, <2>5 DEF Searches
    <3> QED
      BY <3>1
  <2>6. CASE d = c
    <3>1. slot_free(m_wait'[c])
      BY <2>6 DEF Blocked
    <3>2. pc'[c] = "search"
      BY <1>2, <1>4, <3>1 DEF after_victim
    <3>3. Searches(d, S)'
      BY <2>6, <3>2 DEF Searches
    <3> QED
      BY <3>3
  <2> QED
    BY <2>5, <2>6
<1> QED
  BY <1>5, <1>6 DEF DeadlockInv

(* A step into node n follows an edge into S, or leaves one to follow. *)
LEMMA VisitSearches ==
  ASSUME Inv, DeadlockInv, NEW c \in Context, NEW n \in Context,
         NEW P \in Seq(Nodes), visit_subgraph(c, n, P),
         NEW S \in SUBSET Blocked, Closed(S),
         n \in S \/ \E j \in DOMAIN P : \E t \in P[j].todo : t.ctx \in S
  PROVE  Searches(c, S)'
<1>0. path \in [Context -> Seq(Nodes)] /\ c \in DOMAIN pc
  BY DEF Inv, TypeOK, Shapes
<1>1. CASE ~waits(n)
  <2>1. n \notin S
    BY <1>1, BlockedWaits DEF DeadlockInv
  <2>2. PICK j \in DOMAIN P : \E t \in P[j].todo : t.ctx \in S
    BY <2>1
  <2>3. P # <<>>
    BY <2>2
  <2>4. path'[c] = P /\ pc'[c] = "visit"
    BY <1>0, <1>1, <2>3 DEF visit_subgraph, Goto
  <2> QED
    BY <2>2, <2>4 DEF Searches
<1>2. CASE /\ waits(n)
           /\ Len(P) + 1 >= MAX_SEARCH_DEPTH \/ \E t \in edges(n) : t.ctx = c
  <2>1. pc' = [pc EXCEPT ![c] = "victim"]
    BY <1>2, Zenon DEF visit_subgraph, Goto
  <2> QED
    BY <1>0, <2>1 DEF Searches
<1>3. CASE /\ waits(n)
           /\ ~(Len(P) + 1 >= MAX_SEARCH_DEPTH)
           /\ ~\E t \in edges(n) : t.ctx = c
  <2> DEFINE node == [ctx |-> n, todo |-> edges(n)]
             R == Append(P, node)
  <2>1. node \in Nodes
    BY <1>3, EdgesAreTickets DEF waits, Nodes
  <2>2. /\ path' = [path EXCEPT ![c] = R]
        /\ pc' = [pc EXCEPT ![c] = "visit"]
    BY <1>3, Zenon DEF visit_subgraph, Goto
  <2>3. node.todo = edges(n)
    OBVIOUS
  <2>4. PICK top : top = node
    OBVIOUS
  <2>5. top \in Nodes /\ R = Append(P, top) /\ top.todo = edges(n)
    BY <2>1, <2>3, <2>4
  <2> HIDE DEF node
  <2>6. /\ Len(R) = Len(P) + 1 /\ R[Len(P) + 1] = top
        /\ DOMAIN R = 1..(Len(P) + 1) /\ Len(P) \in Nat
        /\ DOMAIN P = 1..Len(P)
        /\ \A j \in DOMAIN P : R[j] = P[j]
    BY <2>5
  <2>7. \E j \in DOMAIN R : \E t \in R[j].todo : t.ctx \in S
    <3>1. CASE n \in S
      <4>1. PICK t \in edges(n) : t.ctx \in S
        BY <3>1 DEF Closed
      <4>2. Len(P) + 1 \in DOMAIN R /\ R[Len(P) + 1].todo = edges(n)
        BY <2>5, <2>6
      <4> QED
        BY <4>1, <4>2
    <3>2. CASE n \notin S
      <4>1. PICK j \in DOMAIN P : \E t \in P[j].todo : t.ctx \in S
        BY <3>2
      <4>2. j \in DOMAIN R /\ R[j] = P[j]
        BY <2>6
      <4> QED
        BY <4>1, <4>2
    <3> QED
      BY <3>1, <3>2
  <2> HIDE DEF R
  <2>8. PICK Q : Q = R
    OBVIOUS
  <2>9. path'[c] = Q /\ pc'[c] = "visit"
    BY <1>0, <2>2, <2>8
  <2> QED
    BY <2>7, <2>8, <2>9 DEF Searches
<1> QED
  BY <1>1, <1>2, <1>3

(* The search of c goes on as long as it has such an edge. *)
LEMMA SearchGoesOn ==
  ASSUME Inv, DeadlockInv, NEW c \in Context, find_deadlock(c),
         NEW S \in SUBSET Blocked, c \in S, Closed(S), Searches(c, S)
  PROVE  Searches(c, S)'
<1>1. path[c] \in Seq(Nodes) /\ c \in DOMAIN pc /\ c \in DOMAIN path
  BY DEF Inv, TypeOK, Shapes
<1>2. CASE pc[c] = "search" /\ visit_subgraph(c, c, <<>>)
  <2>1. <<>> \in Seq(Nodes)
    OBVIOUS
  <2> QED
    BY <1>2, <2>1, VisitSearches
<1>3. ASSUME pc[c] = "visit", NEW t \in Last(path[c]).todo,
             visit_subgraph(c, t.ctx,
               [path[c] EXCEPT ![Len(path[c])].todo = @ \ {t}])
      PROVE  Searches(c, S)'
  <2>1. PICK p : p = path[c]
    OBVIOUS
  <2> DEFINE m == Len(p)
             P == [p EXCEPT ![m].todo = @ \ {t}]
  <2>2. p # <<>>
    BY <1>3, <2>1 DEF Inv, PathOK
  <2>3. m \in 1..Len(p) /\ DOMAIN p = 1..Len(p) /\ Len(p) \in Nat
        /\ p \in Seq(Nodes)
    BY <1>1, <2>1, <2>2
  <2>4. p[m] \in Nodes
    BY <2>3
  <2>5. t \in p[m].todo
    BY <1>3, <2>1 DEF Last
  <2>6. t \in AllTickets /\ t.ctx \in Context
    BY <2>4, <2>5, TicketFacts DEF Nodes
  <2>7. P = [p EXCEPT ![m] = [p[m] EXCEPT !.todo = p[m].todo \ {t}]]
    OBVIOUS
  <2>8. [p[m] EXCEPT !.todo = p[m].todo \ {t}] \in Nodes
    BY <2>4 DEF Nodes
  <2>9. P \in Seq(Nodes) /\ DOMAIN P = DOMAIN p
    BY <2>3, <2>7, <2>8
  <2>10. P[m].todo = p[m].todo \ {t}
    BY <2>3, <2>4, <2>7 DEF Nodes
  <2>11. \A j \in DOMAIN p : j # m => P[j] = p[j]
    BY <2>3, <2>7
  <2>12. visit_subgraph(c, t.ctx, P)
    BY <1>3, <2>1
  <2> HIDE DEF P
  <2>13. PICK j \in DOMAIN p : \E u \in p[j].todo : u.ctx \in S
    BY <1>3, <2>1 DEF Searches
  <2>14. PICK u \in p[j].todo : u.ctx \in S
    BY <2>13
  <2>15. t.ctx \in S \/ (j \in DOMAIN P /\ u \in P[j].todo)
    BY <2>9, <2>10, <2>11, <2>14
  <2> QED
    BY <2>6, <2>9, <2>12, <2>14, <2>15, VisitSearches
<1>4. CASE /\ pc[c] = "visit"
           /\ Last(path[c]).todo = {}
           /\ path' = [path EXCEPT ![c] = Front(@)]
           /\ Goto(c, IF Len(path[c]) = 1 THEN "wait" ELSE "visit")
  <2>1. PICK p : p = path[c]
    OBVIOUS
  <2>2. p \in Seq(Nodes) /\ p # <<>> /\ DOMAIN p = 1..Len(p) /\ Len(p) \in Nat
    BY <1>1, <1>4, <2>1 DEF Inv, PathOK
  <2>3. PICK j \in DOMAIN p : \E u \in p[j].todo : u.ctx \in S
    BY <1>4, <2>1 DEF Searches
  <2>4. p[Len(p)].todo = {}
    BY <1>4, <2>1 DEF Last
  <2>5. j # Len(p)
    BY <2>3, <2>4
  <2>6. j \in 1..(Len(p) - 1) /\ Len(p) # 1 /\ Len(p) - 1 \in Nat
    BY <2>2, <2>3, <2>5
  <2>7. PICK e : e = Len(p) - 1
    OBVIOUS
  <2>8. e \in Nat /\ j \in 1..e /\ 1 \in Int
    BY <2>6, <2>7
  <2>9. \A i \in 1..e : p[i] \in Nodes
    BY <2>2, <2>7
  <2>10. Front(p) = SubSeq(p, 1, e)
    BY <2>7 DEF Front
  <2>11. /\ Len(SubSeq(p, 1, e)) = IF 1 <= e THEN e - 1 + 1 ELSE 0
         /\ SubSeq(p, 1, e) \in Seq(Nodes)
         /\ \A i \in 1..(e - 1 + 1) : SubSeq(p, 1, e)[i] = p[1 + i - 1]
    BY <2>8, <2>9, SubSeqProperties
  <2>12. PICK Q : Q = SubSeq(p, 1, e)
    OBVIOUS
  <2>13. Q \in Seq(Nodes) /\ Len(Q) = e /\ j \in 1..(e - 1 + 1)
    BY <2>8, <2>11, <2>12
  <2>14. Q[j] = p[1 + j - 1] /\ 1 + j - 1 = j
    BY <2>8, <2>11, <2>12, <2>13
  <2>15. j \in DOMAIN Q /\ Q[j] = p[j]
    BY <2>8, <2>13, <2>14
  <2>16. path'[c] = Q /\ pc'[c] = "visit"
    BY <1>1, <1>4, <2>1, <2>6, <2>10, <2>12 DEF Goto
  <2> QED
    BY <2>3, <2>15, <2>16 DEF Searches
<1> QED
  BY <1>2, <1>3, <1>4, Zenon DEF find_deadlock

LEMMA FindDeadlockDeadlock ==
  ASSUME Inv, DeadlockInv, NEW c \in Context, find_deadlock(c)
  PROVE  DeadlockInv'
<1>1. PICK P, label : SearchAt(c, P, label)
  BY FindDeadlockStep
<1>2. /\ pc[c] \in {"search", "visit"}
      /\ UNCHANGED <<m_granted, m_waiting, m_wait, m_waiting_for, request>>
  BY DEF find_deadlock, queues, local
<1>3. /\ pc'[c] \in {"wait", "visit", "victim"}
      /\ \A d \in Context : d # c => pc'[d] = pc[d] /\ path'[d] = path[d]
  BY <1>1 DEF SearchAt, Inv, TypeOK, Shapes
<1>4. Announced'
  BY <1>2, <1>3 DEF DeadlockInv, Announced, Published
<1>5. SomebodySearches'
  <2> SUFFICES ASSUME NEW S, S \subseteq Blocked', S # {}, Closed(S)'
               PROVE  \E d \in S : Searches(d, S)'
    BY DEF SomebodySearches
  <2>1. S \subseteq Blocked
    BY <1>2, <1>3 DEF Blocked
  <2>2. \A d \in S : m_waiting_for[d][1] \in Key /\ d \in Context
    BY <2>1, BlockedWaits DEF DeadlockInv
  <2>3. Closed(S)
    BY <1>2, <2>2, ClosedBefore
  <2>4. PICK d \in S : Searches(d, S)
    BY <2>1, <2>3 DEF DeadlockInv, SomebodySearches
  <2>5. CASE d # c
    <3>1. Searches(d, S)'
      BY <1>3, <2>2, <2>4, <2>5 DEF Searches
    <3> QED
      BY <3>1
  <2>6. CASE d = c
    <3>1. Searches(c, S)'
      BY <2>1, <2>3, <2>4, <2>6, SearchGoesOn
    <3> QED
      BY <2>6, <3>1
  <2> QED
    BY <2>5, <2>6
<1> QED
  BY <1>4, <1>5 DEF DeadlockInv

(* Where nobody begins to wait: c is not blocked after its step, and no    *)
(* ticket of the others enters a list unless its owner is told.            *)
LEMMA NobodyBeginsToWait ==
  ASSUME Inv, DeadlockInv, NEW c \in Context, NEW label,
         pc' = [pc EXCEPT ![c] = label],
         label \notin {"search", "visit", "victim", "wait"},
         label \in Published =>
           /\ pc[c] \in Published /\ request'[c] = request[c]
           /\ m_waiting_for'[c] = m_waiting_for[c],
         path' = path,
         \A d \in Context : d # c =>
           /\ m_waiting_for'[d] = m_waiting_for[d]
           /\ request'[d] = request[d]
           /\ slot_free(m_wait'[d]) => slot_free(m_wait[d]),
         \A k \in Key : \A t :
           t.ctx \in Context /\ t.ctx # c /\ slot_free(m_wait'[t.ctx]) =>
             /\ t \in m_granted'[k] => t \in m_granted[k]
             /\ t \in ToSet(m_waiting'[k]) => t \in ToSet(m_waiting[k])
  PROVE  DeadlockInv'
<1>1. pc'[c] = label /\ \A d \in Context : d # c => pc'[d] = pc[d]
  BY DEF Inv, TypeOK
<1>2. \A d \in Context : pc'[d] \in Published =>
        /\ pc[d] \in Published /\ m_waiting_for'[d] = m_waiting_for[d]
        /\ request'[d] = request[d]
  BY <1>1
<1>3. \A d \in Blocked' : d \in Context /\ d # c /\ slot_free(m_wait'[d])
  BY <1>1 DEF Blocked
<1>4. \A d \in Blocked' : /\ d \in Blocked /\ pc'[d] = pc[d]
                          /\ path'[d] = path[d]
  BY <1>1, <1>3 DEF Blocked
<1>5. \A k \in Key : \A t :
        t.ctx \in Blocked' =>
          /\ t \in m_granted'[k] => t \in m_granted[k]
          /\ t \in ToSet(m_waiting'[k]) => t \in ToSet(m_waiting[k])
  BY <1>3
<1> QED
  BY <1>2, <1>4, <1>5, Undisturbed

LEMMA OutcomeDeadlock ==
  ASSUME Inv, DeadlockInv, NEW c \in Context, NEW k \in Key,
         NEW G, NEW W, NEW N, Outcome(k, G, W, N),
         pc' = [pc EXCEPT ![c] = "idle"],
         m_waiting_for' = m_waiting_for, path' = path,
         \A d \in Context : d # c => request'[d] = request[d],
         \A t : t.ctx # c /\ t \in G => t \in m_granted[k],
         ToSet(W) \subseteq ToSet(m_waiting[k])
  PROVE  DeadlockInv'
<1>1. /\ m_granted' = [m_granted EXCEPT ![k] = G \cup N]
      /\ \A x \in Key : x # k => m_waiting'[x] = m_waiting[x]
      /\ ToSet(m_waiting'[k]) = ToSet(W) \ N
      /\ m_wait' = [d \in Context |-> IF \E t \in N : t.ctx = d
                                      THEN "GRANTED" ELSE m_wait[d]]
  BY DEF Outcome
<1>2. \A d \in Context : slot_free(m_wait'[d]) =>
        slot_free(m_wait[d]) /\ ~\E t \in N : t.ctx = d
  BY <1>1 DEF slot_free
<1>3. \A x \in Key : \A t :
        t.ctx \in Context /\ t.ctx # c /\ slot_free(m_wait'[t.ctx]) =>
          /\ t \in m_granted'[x] => t \in m_granted[x]
          /\ t \in ToSet(m_waiting'[x]) => t \in ToSet(m_waiting[x])
  <2> SUFFICES ASSUME NEW x \in Key, NEW t, t.ctx \in Context, t.ctx # c,
                      slot_free(m_wait'[t.ctx])
               PROVE  /\ t \in m_granted'[x] => t \in m_granted[x]
                      /\ t \in ToSet(m_waiting'[x]) => t \in ToSet(m_waiting[x])
    OBVIOUS
  <2>1. t \notin N
    BY <1>2
  <2>2. m_granted'[x] = IF x = k THEN G \cup N ELSE m_granted[x]
    BY <1>1 DEF Inv, TypeOK
  <2>3. t \in m_granted'[x] => t \in m_granted[x]
    BY <2>1, <2>2
  <2>4. t \in ToSet(m_waiting'[x]) => t \in ToSet(m_waiting[x])
    BY <1>1, <2>1
  <2> QED
    BY <2>3, <2>4
<1>4. "idle" \notin Published
        /\ "idle" \notin {"search", "visit", "victim", "wait"}
  BY DEF Published
<1>5. \A d \in Context : d # c =>
        /\ m_waiting_for'[d] = m_waiting_for[d]
        /\ request'[d] = request[d]
        /\ slot_free(m_wait'[d]) => slot_free(m_wait[d])
  BY <1>2
<1> QED
  BY <1>3, <1>4, <1>5, NobodyBeginsToWait

(* A context asks for a lock: its ticket is new, but it does not wait yet. *)
LEMMA AcquireLockDeadlock ==
  ASSUME Inv, DeadlockInv, NEW c \in Context, pc[c] = "idle", NEW k \in Key,
         NEW type \in ObjectType, NEW old, acquire_lock(c, k, type, old)
  PROVE  DeadlockInv'
<1>1. PICK tk : tk = Ticket(c, type)
  OBVIOUS
<1>2. tk \in AllTickets /\ tk.ctx = c
  BY <1>1, TicketFacts
<1>3. m_waiting_for' = m_waiting_for /\ path' = path
  BY DEF acquire_lock, search
<1>4. PICK label \in {"idle", "merge", "queued"} :
        pc' = [pc EXCEPT ![c] = label]
  BY DEF acquire_lock, Goto, Inv, TypeOK
<1>5. \A d \in Context : d # c => request'[d] = request[d]
  BY DEF acquire_lock, Enter, local, Inv, Shapes
<1>6. \A d \in Context : d # c => m_wait'[d] = m_wait[d]
  BY DEF acquire_lock, Inv, TypeOK
<1>7. \/ m_granted' = [m_granted EXCEPT ![k] = @ \cup {tk}]
      \/ m_granted' = m_granted
  BY <1>1 DEF acquire_lock
<1>8. \/ m_waiting' = [m_waiting EXCEPT ![k] = Append(@, tk)]
      \/ m_waiting' = m_waiting
  BY <1>1 DEF acquire_lock
<1>9. \A x \in Key : \A t : t \in m_granted'[x] /\ t # tk => t \in m_granted[x]
  BY <1>7 DEF Inv, TypeOK
<1>10. \A x \in Key : \A t :
         t \in ToSet(m_waiting'[x]) /\ t # tk => t \in ToSet(m_waiting[x])
  <2> SUFFICES ASSUME NEW x \in Key, NEW t, t \in ToSet(m_waiting'[x]),
                      t # tk
               PROVE  t \in ToSet(m_waiting[x])
    OBVIOUS
  <2>1. m_waiting \in [Key -> Seq(AllTickets)]
    BY DEF Inv, Shapes
  <2>2. CASE m_waiting' = m_waiting
    BY <2>2
  <2>3. CASE m_waiting' = [m_waiting EXCEPT ![k] = Append(@, tk)]
    <3>1. CASE x # k
      BY <2>1, <2>3, <3>1
    <3>2. CASE x = k
      <4>1. m_waiting'[x] = Append(m_waiting[x], tk)
        BY <2>1, <2>3, <3>2
      <4>2. m_waiting[x] \in Seq(AllTickets)
        BY <2>1
      <4>3. ToSet(Append(m_waiting[x], tk)) = ToSet(m_waiting[x]) \cup {tk}
        <5>1. PICK w : w = m_waiting[x]
          OBVIOUS
        <5>2. w \in Seq(AllTickets) /\ tk \in AllTickets
          BY <1>2, <4>2, <5>1
        <5>3. ToSet(Append(w, tk)) = ToSet(w) \cup {tk}
          BY <5>2, AppendFacts
        <5> QED
          BY <5>1, <5>3
      <4> QED
        BY <4>1, <4>3
    <3> QED
      BY <3>1, <3>2
  <2> QED
    BY <1>8, <2>2, <2>3
<1>11. label \notin Published
       /\ label \notin {"search", "visit", "victim", "wait"}
  BY DEF Published
<1>12. \A x \in Key : \A t :
         t.ctx \in Context /\ t.ctx # c /\ slot_free(m_wait'[t.ctx]) =>
           /\ t \in m_granted'[x] => t \in m_granted[x]
           /\ t \in ToSet(m_waiting'[x]) => t \in ToSet(m_waiting[x])
  BY <1>2, <1>9, <1>10
<1>13. \A d \in Context : d # c =>
         /\ m_waiting_for'[d] = m_waiting_for[d]
         /\ request'[d] = request[d]
         /\ slot_free(m_wait'[d]) => slot_free(m_wait[d])
  BY <1>3, <1>5, <1>6
<1> QED
  BY <1>3, <1>4, <1>11, <1>12, <1>13, NobodyBeginsToWait

LEMMA AcquireDeadlock ==
  ASSUME Inv, DeadlockInv, NEW c \in Context,
         Acquire(c) \/ upgrade_shared_lock(c)
  PROVE  DeadlockInv'
<1>1. CASE Acquire(c)
  <2>1. PICK r \in Requests : acquire_lock(c, r[1], r[2], None)
    BY <1>1 DEF Acquire
  <2>2. r[1] \in Key /\ r[2] \in ObjectType /\ pc[c] = "idle"
    BY <1>1, MDLAssumption DEF Acquire
  <2> QED
    BY <2>1, <2>2, AcquireLockDeadlock
<1>2. CASE upgrade_shared_lock(c)
  <2>1. PICK k \in Key, u \in Upgrades : acquire_lock(c, k, u[2], u[1])
    BY <1>2 DEF upgrade_shared_lock
  <2>2. u[2] \in ObjectType /\ pc[c] = "idle"
    BY <1>2, MDLAssumption DEF upgrade_shared_lock
  <2> QED
    BY <2>1, <2>2, AcquireLockDeadlock
<1> QED
  BY <1>1, <1>2

LEMMA MergeDeadlock ==
  ASSUME Inv, DeadlockInv, NEW c \in Context, Merge(c)
  PROVE  DeadlockInv'
<1>1. /\ pc' = [pc EXCEPT ![c] = "idle"]
      /\ request' = [request EXCEPT ![c] = NoRequest]
      /\ UNCHANGED <<m_waiting, m_wait, m_waiting_for, path>>
  BY DEF Merge, Return, Goto, Enter, search
<1>2. PICK k, old : m_granted' = [m_granted EXCEPT ![k] = @ \ {old}]
  BY DEF Merge
<1>3. \A x \in Key : \A t : t \in m_granted'[x] => t \in m_granted[x]
  BY <1>2 DEF Inv, TypeOK
<1>4. "idle" \notin Published
  BY DEF Published
<1>5. \A d \in Context : d # c => request'[d] = request[d]
  BY <1>1 DEF Inv, Shapes
<1> QED
  BY <1>1, <1>3, <1>4, <1>5, NobodyBeginsToWait

LEMMA TimedWaitDeadlock ==
  ASSUME Inv, DeadlockInv, NEW c \in Context, timed_wait(c)
  PROVE  DeadlockInv'
<1>1. PICK label \in {"done", "gone"} : pc' = [pc EXCEPT ![c] = label]
  BY DEF timed_wait, Goto
<1>2. /\ pc[c] = "wait"
      /\ UNCHANGED <<m_granted, m_waiting, m_waiting_for, request, path>>
  BY DEF timed_wait, queues, local, search
<1>3. \A d \in Context : slot_free(m_wait'[d]) => slot_free(m_wait[d])
  BY DEF timed_wait, slot_free, Inv, TypeOK
<1>4. pc[c] \in Published
  BY <1>2 DEF Published
<1> QED
  BY <1>1, <1>2, <1>3, <1>4, NobodyBeginsToWait

LEMMA DoneWaitingForDeadlock ==
  ASSUME Inv, DeadlockInv, NEW c \in Context, done_waiting_for(c)
  PROVE  DeadlockInv'
<1>1. PICK label \in {"idle", "merge", "remove"} :
        pc' = [pc EXCEPT ![c] = label]
  BY DEF done_waiting_for, Return, Goto
<1>2. /\ m_waiting_for' = [m_waiting_for EXCEPT ![c] = NoRequest]
      /\ UNCHANGED <<m_granted, m_waiting, m_wait, path>>
  BY DEF done_waiting_for, queues, search
<1>3. \A d \in Context : d # c => /\ m_waiting_for'[d] = m_waiting_for[d]
                                  /\ request'[d] = request[d]
  BY <1>2 DEF done_waiting_for, Return, Enter, local, Inv, Shapes
<1>4. label \notin Published
  BY DEF Published
<1> QED
  BY <1>1, <1>2, <1>3, <1>4, NobodyBeginsToWait

LEMMA StutterDeadlock ==
  ASSUME Inv, DeadlockInv,
         UNCHANGED <<m_granted, m_waiting, m_wait, m_waiting_for, pc, request,
                     path>>
  PROVE  DeadlockInv'
<1>1. Blocked' = Blocked
  BY DEF Blocked
<1> QED
  BY <1>1, Undisturbed

LEMMA RemoveWaitingDeadlock ==
  ASSUME Inv, DeadlockInv, NEW c \in Context, RemoveWaiting(c)
  PROVE  DeadlockInv'
<1>1. PICK k, tk, q : /\ k = request[c][1] /\ tk = Ticket(c, request[c][2])
                      /\ q = m_waiting[k]
  OBVIOUS
<1>2. pc[c] = "remove" /\ m_waiting_for' = m_waiting_for /\ path' = path
  BY DEF RemoveWaiting, search
<1>3. request[c] \in Asked
  BY <1>2 DEF Inv, TicketsOK, HeldOrQueued, Waiting
<1>4. k \in Key
  BY <1>1, <1>3, AskedFacts
<1>5. CASE tk \notin ToSet(q)
  <2>1. UNCHANGED <<m_granted, m_waiting, m_wait, pc, request>>
    BY <1>1, <1>5 DEF RemoveWaiting, queues, local
  <2> QED
    BY <1>2, <2>1, StutterDeadlock
<1>6. CASE tk \in ToSet(q)
  <2>1. PICK D : D = {i \in DOMAIN q : q[i] = tk}
    OBVIOUS
  <2>2. PICK W : W = without(q, D)
    OBVIOUS
  <2>3. /\ remove_ticket(k, m_granted[k], W)
        /\ pc' = [pc EXCEPT ![c] = "idle"]
        /\ request' = [request EXCEPT ![c] = NoRequest]
    BY <1>1, <1>6, <2>1, <2>2, Zenon DEF RemoveWaiting, Return, Goto, Enter
  <2>4. q \in Seq(AllTickets)
    BY <1>1, <1>4 DEF Inv, Shapes
  <2>5. \A i, j \in DOMAIN q : q[i].ctx = q[j].ctx => i = j
    BY <1>1, <1>4 DEF Inv, TicketsOK, OneEach
  <2>6. /\ without(q, D) \in Seq(AllTickets)
        /\ ToSet(without(q, D)) = {q[i] : i \in DOMAIN q \ D}
        /\ (\A i, j \in DOMAIN q : q[i].ctx = q[j].ctx => i = j) =>
             \A m, n \in DOMAIN without(q, D) :
               without(q, D)[m].ctx = without(q, D)[n].ctx => m = n
    <3>1. D \in SUBSET DOMAIN q
      BY <2>1
    <3> QED
      BY <2>4, <3>1, WithoutFacts
  <2>7. /\ W \in Seq(AllTickets)
        /\ ToSet(W) = {q[i] : i \in DOMAIN q \ D}
        /\ \A i, j \in DOMAIN W : W[i].ctx = W[j].ctx => i = j
    BY <2>2, <2>5, <2>6
  <2>8. ToSet(W) \subseteq ToSet(m_waiting[k])
    BY <1>1, <2>7 DEF ToSet
  <2>9. m_granted[k] \in SUBSET AllTickets
    BY <1>4 DEF Inv, TypeOK, AllTickets
  <2>10. PICK N : Outcome(k, m_granted[k], W, N)
    BY <1>4, <2>3, <2>7, <2>9, RemoveOutcome DEF Inv
  <2>11. \A d \in Context : d # c => request'[d] = request[d]
    BY <2>3 DEF Inv, Shapes
  <2> QED
    BY <1>2, <1>4, <2>3, <2>8, <2>10, <2>11, OutcomeDeadlock
<1> QED
  BY <1>5, <1>6

LEMMA ShrinkDeadlock ==
  ASSUME Inv, DeadlockInv, NEW c \in Context, pc[c] = "idle", NEW k \in Key,
         NEW G \in SUBSET AllTickets,
         \A t : t.ctx # c /\ t \in G => t \in m_granted[k],
         \/ remove_ticket(k, G, m_waiting[k])
         \/ reschedule_waiters(k, G, m_waiting[k]),
         UNCHANGED <<m_waiting_for, pc, request, path>>
  PROVE  DeadlockInv'
<1>1. m_waiting[k] \in Seq(AllTickets)
  BY DEF Inv, Shapes
<1>2. \A i, j \in DOMAIN m_waiting[k] :
        m_waiting[k][i].ctx = m_waiting[k][j].ctx => i = j
  BY DEF Inv, TicketsOK, OneEach
<1>3. PICK N : Outcome(k, G, m_waiting[k], N)
  BY <1>1, <1>2, RemoveOutcome, RescheduleOutcome DEF Inv
<1>4. pc' = [pc EXCEPT ![c] = "idle"]
  BY DEF Inv, TypeOK
<1> QED
  BY <1>3, <1>4, OutcomeDeadlock

LEMMA ReleaseLockDeadlock ==
  ASSUME Inv, DeadlockInv, NEW c \in Context,
         release_lock(c) \/ downgrade_lock(c)
  PROVE  DeadlockInv'
<1>1. pc[c] = "idle" /\ UNCHANGED <<m_waiting_for, pc, request, path>>
  BY DEF release_lock, downgrade_lock, local, search
<1>2. \A k \in Key : m_granted[k] \in SUBSET AllTickets
  BY DEF Inv, TypeOK, AllTickets
<1>3. CASE release_lock(c)
  <2>1. PICK k \in Key : \E t \in m_granted[k] :
          remove_ticket(k, m_granted[k] \ {t}, m_waiting[k])
    BY <1>3 DEF release_lock
  <2>2. PICK t \in m_granted[k] :
          remove_ticket(k, m_granted[k] \ {t}, m_waiting[k])
    BY <2>1
  <2>3. PICK G : G = m_granted[k] \ {t}
    OBVIOUS
  <2>4. G \in SUBSET AllTickets /\ \A u : u \in G => u \in m_granted[k]
    BY <1>2, <2>3
  <2>5. remove_ticket(k, G, m_waiting[k])
    BY <2>2, <2>3
  <2> QED
    BY <1>1, <2>4, <2>5, ShrinkDeadlock
<1>4. CASE downgrade_lock(c)
  <2>1. PICK k \in Key, d \in Downgrades :
          reschedule_waiters(k, (m_granted[k] \ {Ticket(c, d[1])})
                                  \cup {Ticket(c, d[2])}, m_waiting[k])
    BY <1>4 DEF downgrade_lock
  <2>2. d[2] \in ObjectType
    BY MDLAssumption
  <2>3. PICK old, new : old = Ticket(c, d[1]) /\ new = Ticket(c, d[2])
    OBVIOUS
  <2>4. new \in AllTickets /\ new.ctx = c
    BY <2>2, <2>3, TicketFacts
  <2>5. PICK G : G = (m_granted[k] \ {old}) \cup {new}
    OBVIOUS
  <2>6. G \in SUBSET AllTickets
        /\ \A u : u.ctx # c /\ u \in G => u \in m_granted[k]
    BY <1>2, <2>4, <2>5
  <2>7. reschedule_waiters(k, G, m_waiting[k])
    BY <2>1, <2>3, <2>5
  <2> QED
    BY <1>1, <2>6, <2>7, ShrinkDeadlock
<1> QED
  BY <1>3, <1>4

LEMMA InitDeadlock == Init => DeadlockInv
<1> SUFFICES ASSUME Init PROVE DeadlockInv
  OBVIOUS
<1>1. \A c \in Context : pc[c] = "idle"
  BY DEF Init
<1>2. Blocked = {} /\ Announced
  BY <1>1 DEF Blocked, Announced, Published
<1> QED
  BY <1>2 DEF DeadlockInv, SomebodySearches

LEMMA NextDeadlock ==
  ASSUME Inv, DeadlockInv, [Next]_vars
  PROVE  DeadlockInv'
<1>1. ASSUME NEW c \in Context, Step(c)
      PROVE  DeadlockInv'
  <2>1. CASE Acquire(c) \/ upgrade_shared_lock(c)
    BY <2>1, AcquireDeadlock
  <2>2. CASE Merge(c)
    BY <2>2, MergeDeadlock
  <2>3. CASE will_wait_for(c)
    BY <2>3, WillWaitForDeadlock
  <2>4. CASE find_deadlock(c)
    BY <2>4, FindDeadlockDeadlock
  <2>5. CASE SetVictim(c)
    BY <2>5, SetVictimDeadlock
  <2>6. CASE timed_wait(c)
    BY <2>6, TimedWaitDeadlock
  <2>7. CASE done_waiting_for(c)
    BY <2>7, DoneWaitingForDeadlock
  <2>8. CASE RemoveWaiting(c)
    BY <2>8, RemoveWaitingDeadlock
  <2>9. CASE release_lock(c) \/ downgrade_lock(c)
    BY <2>9, ReleaseLockDeadlock
  <2> QED
    BY <1>1, <2>1, <2>2, <2>3, <2>4, <2>5, <2>6, <2>7, <2>8, <2>9 DEF Step
<1>2. CASE UNCHANGED vars
  <2>1. UNCHANGED <<m_granted, m_waiting, m_wait, m_waiting_for, pc, request,
                    path>>
    BY <1>2 DEF vars, queues, local, search
  <2> QED
    BY <2>1, StutterDeadlock
<1> QED
  BY <1>1, <1>2 DEF Next

(* At every moment, of contexts that wait for each other one is still      *)
(* searching and has an edge to another of them to follow: no step of      *)
(* sql/mdl.cc makes a wait-for loop that no search will find.              *)
THEOREM LoopsAreSearched == Spec => [](Inv /\ DeadlockInv)
<1>1. Init => Inv /\ DeadlockInv
  BY InitInv, InitDeadlock
<1>2. Inv /\ DeadlockInv /\ [Next]_vars => (Inv /\ DeadlockInv)'
  BY NextInv, NextDeadlock
<1> QED
  BY <1>1, <1>2, PTL DEF Spec

(* Once all searches are over the wait-for graph has no cycle: every       *)
(* deadlock has been broken by a victim.                                   *)
THEOREM DeadlocksAreBroken == Spec => []DeadlocksBroken
<1>1. Inv /\ DeadlockInv => DeadlocksBroken
  <2> DEFINE sleeping ==
               {c \in Context : pc[c] = "wait" /\ slot_free(m_wait[c])}
  <2> SUFFICES ASSUME Inv, DeadlockInv,
                      \A c \in Context :
                        pc[c] \notin {"queued", "search", "visit", "victim"},
                      NEW S \in (SUBSET sleeping) \ {{}}
               PROVE  \E c \in S : \A t \in edges(c) : t.ctx \notin S
    BY Zenon DEF DeadlocksBroken
  <2>1. S \in SUBSET Blocked /\ S # {}
    BY DEF Blocked
  <2>2. CASE Closed(S)
    <3>1. PICK c \in S : Searches(c, S)
      BY <2>1, <2>2 DEF DeadlockInv, SomebodySearches
    <3> QED
      BY <3>1 DEF Searches
  <2>3. CASE ~Closed(S)
    BY <2>3, Zenon DEF Closed
  <2> QED
    BY <2>2, <2>3
<1> QED
  BY <1>1, LoopsAreSearched, PTL
============================================================================
