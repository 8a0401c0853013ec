-------------------------- MODULE AuditFilesProofs --------------------------
(***************************************************************************)
(* What is proved of AuditFiles, for any number of sessions, old files,    *)
(* records, restarts and changes of the options: the files hold the newest *)
(* records, whole and in order, through every step of a rotation, a failed *)
(* one and one that is cut short by a crash; and what SYNCHRONOUS has      *)
(* answered and a rotation has not moved away is on disk.                  *)
(*                                                                         *)
(* A step does one of four things to what can be read: nothing, a part is  *)
(* added at the end of the log, a file moves up by one name, or an empty   *)
(* file gets a name that was free.  Only the second changes what was       *)
(* written, and only the third can drop a file.                            *)
(***************************************************************************)
EXTENDS AuditFiles, FiniteSetTheorems, FunctionTheorems, SequenceTheorems,
        TLAPS

(***************************************************************************)
(* The inductive invariant.                                                *)
(***************************************************************************)

(* The variables TypeOK leaves out. *)
Shapes ==
  /\ configured \in [rotations : RotationsAtStart, limit : LimitsAtStart]
  /\ content \in Seq(Seq(Int)) /\ synced \in Seq(Nat)
  /\ written \in Seq(Int)
  /\ own \in [Session -> 0..records] /\ answered \subseteq 1..records
  /\ strayed \in BOOLEAN /\ sets \in Nat

(* Who rotates is alone in the logger, has a record of its own that is     *)
(* complete, and moves files to names there are.                           *)
Inside ==
  /\ lock # NoOne => ~half
  /\ \A w \in Session :
       /\ pc[w] \in {"rename", "open"} => lock = w
       /\ pc[w] = "rename" => i < MaxRotations
       /\ pc[w] # "idle" => own[w] > 0

(* The parts in the files are of records begun, and the one awaited is not *)
(* among them.                                                             *)
Parts ==
  \A f \in 1..Len(content) : \A k \in 1..Len(content[f]) :
    /\ content[f][k] # 0
    /\ -records <= content[f][k] /\ content[f][k] <= records
    /\ half => -records < content[f][k]

(* The first part of an incomplete record is the last of the open file. *)
HalfIsLast ==
  half => /\ file # 0 /\ Len(content[file]) > 0 /\ records > 0
          /\ content[file][Len(content[file])] = records

(* Until it is reopened by a wrong name the open file is the log. *)
OpenIsLog == (~strayed /\ file # 0) => file = dir[0]

OneName == \A m, n \in Name : m # n /\ dir[m] = dir[n] => dir[m] = 0

(* While the options stay, the numbers of old files stay within            *)
(* rotations, and a file that is moved finds the next name free, but for   *)
(* the oldest one.                                                         *)
Kept == IF configured.limit = 0 THEN 0 ELSE configured.rotations
Numbers ==
  ~strayed /\ sets = 0 =>
    /\ rotations \in {0, Kept}
    /\ \A n \in Name : n > Kept => dir[n] = 0
    /\ \A w \in Session :
         pc[w] = "rename" => i < Kept /\ (i + 1 = Kept \/ dir[i + 1] = 0)

(* What can be read of the files. *)
Readable ==
  /\ ~strayed => ReadInOrder
  /\ ~strayed /\ sets = 0 => NothingMissing

(* SyncedUnlessRotated of the file with the name of the log. *)
LogSynced ==
  (strategy = "SYNCHRONOUS" /\ ~strayed /\ dir[0] # 0) =>
    \A k \in synced[dir[0]] + 1..Len(content[dir[0]]) :
      content[dir[0]][k] \notin answered

Inv == /\ TypeOK /\ Shapes /\ Inside /\ Parts /\ HalfIsLast /\ OpenIsLog
       /\ OneName /\ Numbers /\ RecordsInOneFile /\ Readable /\ LogSynced

(***************************************************************************)
(* Places.                                                                 *)
(***************************************************************************)

LEMMA PlaceFacts ==
  \A p : p \in Place <=> /\ p = <<p[1], p[2]>> /\ p[1] \in Name
                         /\ p[2] \in 1..Len(Read(p[1]))
BY DEF Place

LEMMA BehindFacts ==
  \A p, q : q \in Behind(p) <=>
              /\ q \in Place
              /\ q[1] < p[1] \/ (q[1] = p[1] /\ p[2] < q[2])
BY DEF Behind

LEMMA PlacesFinite ==
  ASSUME \A n \in Name : Len(Read(n)) \in Nat
  PROVE  IsFiniteSet(Place)
<1> DEFINE part == [n \in Name |-> {n} \X (1..Len(Read(n)))]
           T == {part[n] : n \in Name}
<1>1. IsFiniteSet(Name)
  BY FilesAssumption, FS_Interval DEF Name
<1>2. part \in Surjection(Name, T)
  BY DEF Surjection
<1>3. IsFiniteSet(T)
  <2> HIDE DEF part, T
  <2> QED
    BY <1>1, <1>2, FS_Surjection
<1>4. \A S \in T : IsFiniteSet(S)
  <2> SUFFICES ASSUME NEW n \in Name
               PROVE  IsFiniteSet({n} \X (1..Len(Read(n))))
    OBVIOUS
  <2>1. IsFiniteSet({n})
    BY FS_Singleton
  <2>2. IsFiniteSet(1..Len(Read(n)))
    BY FS_Interval
  <2> QED
    BY <2>1, <2>2, FS_Product
<1>5. Place = UNION T
  BY DEF Place
<1> HIDE DEF T
<1> QED
  BY <1>3, <1>4, <1>5, FS_UNION

LEMMA BehindFinite ==
  ASSUME \A n \in Name : Len(Read(n)) \in Nat, NEW p
  PROVE  IsFiniteSet(Behind(p)) /\ Cardinality(Behind(p)) \in Nat
<1>1. Behind(p) \in SUBSET Place
  BY DEF Behind
<1>2. IsFiniteSet(Behind(p))
  BY <1>1, PlacesFinite, FS_Subset
<1> QED
  BY <1>2, FS_CardinalityType

(* The facts about places, of the next state. *)
LEMMA PlaceFactsNext ==
  /\ \A p : p \in Place' <=> /\ p = <<p[1], p[2]>> /\ p[1] \in Name
                             /\ p[2] \in 1..Len(Read(p[1])')
  /\ \A p, q : q \in Behind(p)' <=>
                 /\ q \in Place'
                 /\ q[1] < p[1] \/ (q[1] = p[1] /\ p[2] < q[2])
BY DEF Place, Behind

LEMMA BehindFiniteNext ==
  (\A n \in Name : Len(Read(n)') \in Nat) =>
    \A p : IsFiniteSet(Behind(p)') /\ Cardinality(Behind(p)') \in Nat
<1>1. (\A n \in Name : Len(Read(n)) \in Nat) =>
        \A q : IsFiniteSet(Behind(q)) /\ Cardinality(Behind(q)) \in Nat
  BY BehindFinite
<1>2. ((\A n \in Name : Len(Read(n)) \in Nat) =>
        \A q : IsFiniteSet(Behind(q)) /\ Cardinality(Behind(q)) \in Nat)'
  BY <1>1, PTL
<1> QED
  BY <1>2

(***************************************************************************)
(* What can be read.                                                       *)
(***************************************************************************)

(* Nothing changes: for example an empty file gets a name. *)
LEMMA ReadSame ==
  ASSUME \A n \in Name : Read(n)' = Read(n),
         written' = written, strayed => strayed', sets' = 0 => sets = 0,
         Readable
  PROVE  Readable'
<1>1. Place' = Place
  BY DEF Place
<1>2. \A p : Behind(p)' = Behind(p)
  BY <1>1 DEF Behind
<1>3. \A p \in Place : At(p)' = At(p)
  BY PlaceFacts DEF At
<1>4. \A p : Behind(p) \subseteq Place
  BY DEF Behind
<1>5. ReadInOrder => ReadInOrder'
  BY <1>1, <1>2, <1>3, <1>4 DEF ReadInOrder
<1>6. NothingMissing => NothingMissing'
  BY <1>1, <1>2, <1>3 DEF NothingMissing
<1> QED
  BY <1>5, <1>6 DEF Readable

(* A part is added at the end of the log.  It is later than all there is   *)
(* and becomes the last in the files and in what was written.              *)
LEMMA ReadWrite ==
  ASSUME NEW part \in Int,
         \A n \in Name : Read(n) \in Seq(Int),
         \A n \in Name : Read(n)' = IF n = 0 THEN Append(Read(0), part)
                                    ELSE Read(n),
         \A p \in Place : Later(At(p), part),
         written \in Seq(Int), written' = Append(written, part),
         strayed' = strayed, sets' = sets, Readable
  PROVE  Readable'
<1>a. PICK new : new = <<0, Len(Read(0)) + 1>>
  OBVIOUS
<1>0. 0 \in Name /\ Name \subseteq Nat
  BY FilesAssumption DEF Name
<1>1. Len(Read(0)) \in Nat /\ new[1] = 0 /\ new[2] = Len(Read(0)) + 1
  BY <1>a, <1>0
<1>2. /\ Len(Append(Read(0), part)) = Len(Read(0)) + 1
      /\ \A k \in 1..Len(Read(0)) : Append(Read(0), part)[k] = Read(0)[k]
      /\ Append(Read(0), part)[Len(Read(0)) + 1] = part
  BY <1>0
<1>3. \A n \in Name : Len(Read(n)) \in Nat /\ Len(Read(n)') \in Nat
  BY <1>0, <1>2
<1>4. \A p : p \in Place' <=> p \in Place \/ p = new
  <2> SUFFICES ASSUME NEW p
               PROVE  p \in Place' <=> p \in Place \/ p = new
    OBVIOUS
  <2>1. p = new <=> p = <<p[1], p[2]>> /\ p[1] = 0 /\ p[2] = Len(Read(0)) + 1
    BY <1>a, <1>1
  <2> QED
    BY <1>0, <1>1, <1>2, <2>1, PlaceFacts, PlaceFactsNext
<1>5. \A p \in Place : At(p)' = At(p)
  <2> SUFFICES ASSUME NEW p \in Place PROVE Read(p[1])'[p[2]] = Read(p[1])[p[2]]
    BY DEF At
  <2>1. p[1] \in Name /\ p[2] \in 1..Len(Read(p[1]))
    BY PlaceFacts
  <2>2. CASE p[1] = 0
    <3>1. Read(p[1])' = Append(Read(0), part)
      BY <1>0, <2>2
    <3> QED
      BY <1>2, <2>1, <2>2, <3>1
  <2>3. CASE p[1] # 0
    <3>1. Read(p[1])' = Read(p[1])
      BY <2>1, <2>3
    <3> QED
      BY <3>1
  <2> QED
    BY <2>2, <2>3
<1>6. At(new)' = part
  BY <1>0, <1>1, <1>2 DEF At
<1>7. new \notin Place
  BY <1>1, PlaceFacts
<1>8. \A p \in Place : p[1] \in Nat /\ p[2] \in Nat
                       /\ (p[1] = 0 => p[2] < new[2])
  BY <1>0, <1>1, <1>3, PlaceFacts
<1>9. Behind(new)' = {}
  <2> SUFFICES ASSUME NEW q \in Behind(new)' PROVE FALSE
    OBVIOUS
  <2>1. q \in Place' /\ (q[1] < new[1] \/ (q[1] = new[1] /\ new[2] < q[2]))
    BY PlaceFactsNext
  <2>2. q # new
    BY <1>1, <2>1
  <2> QED
    BY <1>1, <1>4, <1>8, <2>1, <2>2
<1>10. \A p \in Place : Behind(p)' = Behind(p) \cup {new}
  BY <1>1, <1>4, <1>8, BehindFacts, PlaceFactsNext
<1>11. ReadInOrder => ReadInOrder'
  <2> SUFFICES ASSUME ReadInOrder, NEW p \in Place', NEW q \in Behind(p)'
               PROVE  Later(At(p)', At(q)')
    BY DEF ReadInOrder
  <2>1. p \in Place
    BY <1>4, <1>9
  <2>2. CASE q = new
    BY <1>5, <1>6, <2>1, <2>2
  <2>3. CASE q # new
    <3>1. q \in Behind(p)
      BY <1>10, <2>1, <2>3
    <3>2. q \in Place
      BY <3>1, BehindFacts
    <3> QED
      BY <1>5, <2>1, <3>1, <3>2 DEF ReadInOrder
  <2> QED
    BY <2>2, <2>3
<1>12. NothingMissing => NothingMissing'
  <2> SUFFICES ASSUME NothingMissing, NEW p \in Place'
               PROVE  \E n \in 1..Len(written') :
                        /\ written'[n] = At(p)'
                        /\ n + Cardinality(Behind(p)') = Len(written')
    BY DEF NothingMissing
  <2>0. /\ Len(written) \in Nat /\ Len(written') = Len(written) + 1
        /\ written'[Len(written) + 1] = part
        /\ \A n \in 1..Len(written) : written'[n] = written[n]
    OBVIOUS
  <2>1. CASE p = new
    <3>1. Cardinality(Behind(p)') = 0
      BY <1>9, <2>1, FS_EmptySet
    <3> QED
      BY <1>6, <2>0, <2>1, <3>1
  <2>2. CASE p # new
    <3>1. p \in Place
      BY <1>4, <2>2
    <3>2. PICK n \in 1..Len(written) :
            /\ written[n] = At(p)
            /\ n + Cardinality(Behind(p)) = Len(written)
      BY <3>1 DEF NothingMissing
    <3>3. new \notin Behind(p)
      BY <1>7, BehindFacts
    <3>4. IsFiniteSet(Behind(p)) /\ Cardinality(Behind(p)) \in Nat
      BY <1>3, BehindFinite
    <3>5. Cardinality(Behind(p)') = Cardinality(Behind(p)) + 1
      BY <1>10, <3>1, <3>3, <3>4, FS_AddElement
    <3>6. /\ n \in 1..Len(written') /\ written'[n] = At(p)'
          /\ n + Cardinality(Behind(p)') = Len(written')
      <4>1. n \in 1..Len(written')
        BY <2>0, <3>2
      <4>2. written'[n] = At(p)'
        BY <1>5, <2>0, <3>1, <3>2
      <4>3. n + Cardinality(Behind(p)') = Len(written')
        <5>1. n + (Cardinality(Behind(p)) + 1) = Len(written) + 1
          BY <2>0, <3>2, <3>4
        <5> QED
          BY <2>0, <3>5, <5>1
      <4> QED
        BY <4>1, <4>2, <4>3
    <3> QED
      BY <3>6
  <2> QED
    BY <2>1, <2>2
<1> QED
  BY <1>11, <1>12 DEF Readable

(* A file moves up by one name, to one that is free or the last in use.    *)
(* The places move with it and keep their order.                           *)
LEMMA ReadRename ==
  ASSUME NEW old \in Name, old + 1 \in Name,
         \A n \in Name : Read(n) \in Seq(Int),
         \A n \in Name : Read(n)' = IF n = old THEN <<>>
                                    ELSE IF n = old + 1 THEN Read(old)
                                    ELSE Read(n),
         ~strayed /\ sets = 0 =>
           \/ Read(old + 1) = <<>>
           \/ \A n \in Name : n > old + 1 => Read(n) = <<>>,
         written' = written, strayed' = strayed, sets' = sets, Readable
  PROVE  Readable'
<1> DEFINE from(p) == IF p[1] = old + 1 THEN <<old, p[2]>> ELSE p
<1>0. Name \subseteq Nat /\ Len(<<>>) = 0
  BY FilesAssumption DEF Name
<1>1. \A n \in Name : Len(Read(n)) \in Nat /\ Len(Read(n)') \in Nat
  BY <1>0
<1>2. \A p \in Place : /\ p = <<p[1], p[2]>> /\ p[1] \in Name /\ p[1] \in Nat
                       /\ p[2] \in Nat /\ p[2] \in 1..Len(Read(p[1]))
  BY <1>0, <1>1, PlaceFacts
<1>3. \A p \in Place' : /\ p = <<p[1], p[2]>> /\ p[1] \in Name /\ p[1] \in Nat
                        /\ p[2] \in Nat /\ p[2] \in 1..Len(Read(p[1])')
                        /\ p[1] # old
  BY <1>0, <1>1, PlaceFactsNext
<1>4. \A p \in Place' : /\ from(p) \in Place /\ At(from(p)) = At(p)'
                        /\ from(p)[1] # old + 1 /\ from(p)[2] = p[2]
                        /\ from(p)[1] = IF p[1] = old + 1 THEN old ELSE p[1]
  <2> SUFFICES ASSUME NEW p \in Place'
               PROVE  /\ from(p) \in Place /\ At(from(p)) = At(p)'
                      /\ from(p)[1] # old + 1 /\ from(p)[2] = p[2]
                      /\ from(p)[1] = IF p[1] = old + 1 THEN old ELSE p[1]
    OBVIOUS
  <2>1. CASE p[1] = old + 1
    <3>1. from(p) = <<old, p[2]>> /\ from(p)[1] = old /\ from(p)[2] = p[2]
      BY <2>1
    <3>2. Read(p[1])' = Read(old)
      BY <1>0, <2>1
    <3> HIDE DEF from
    <3>3. from(p) \in Place
      BY <1>3, <3>1, <3>2, PlaceFacts
    <3> QED
      BY <1>0, <2>1, <3>1, <3>2, <3>3 DEF At
  <2>2. CASE p[1] # old + 1
    <3>1. from(p) = p
      BY <2>2
    <3>2. Read(p[1])' = Read(p[1])
      BY <1>3, <2>2
    <3> HIDE DEF from
    <3>3. p \in Place
      BY <1>3, <3>2, PlaceFacts
    <3> QED
      BY <2>2, <3>1, <3>2, <3>3 DEF At
  <2> QED
    BY <2>1, <2>2
<1>5. \A p, q \in Place' : /\ from(p) = from(q) => p = q
                           /\ q \in Behind(p)' <=> from(q) \in Behind(from(p))
  <2> SUFFICES ASSUME NEW p \in Place', NEW q \in Place'
               PROVE  /\ from(p) = from(q) => p = q
                      /\ q \in Behind(p)' <=> from(q) \in Behind(from(p))
    OBVIOUS
  <2> HIDE DEF from
  <2>0. /\ old \in Nat /\ p[1] \in Nat /\ q[1] \in Nat /\ p[1] # old /\ q[1] # old
        /\ p = <<p[1], p[2]>> /\ q = <<q[1], q[2]>>
        /\ from(p)[1] = IF p[1] = old + 1 THEN old ELSE p[1]
        /\ from(q)[1] = IF q[1] = old + 1 THEN old ELSE q[1]
        /\ from(p)[2] = p[2] /\ from(q)[2] = q[2]
    BY <1>0, <1>3, <1>4
  <2>1. from(p) = from(q) => p = q
    <3> SUFFICES ASSUME from(p) = from(q) PROVE p[1] = q[1] /\ p[2] = q[2]
      BY <2>0
    <3>1. p[1] = q[1]
      <4>1. from(p)[1] = from(q)[1]
        OBVIOUS
      <4> QED
        BY <2>0, <4>1
    <3> QED
      BY <2>0, <3>1
  <2>2. q \in Behind(p)' <=> q[1] < p[1] \/ (q[1] = p[1] /\ p[2] < q[2])
    BY PlaceFactsNext
  <2>3. from(q) \in Behind(from(p)) <=>
          \/ from(q)[1] < from(p)[1]
          \/ from(q)[1] = from(p)[1] /\ from(p)[2] < from(q)[2]
    BY <1>4, BehindFacts
  <2>4. q[1] < p[1] <=> from(q)[1] < from(p)[1]
    BY <2>0
  <2>5. q[1] = p[1] <=> from(q)[1] = from(p)[1]
    BY <2>0
  <2> QED
    BY <1>4, <2>1, <2>2, <2>3, <2>4, <2>5
<1>6. ReadInOrder => ReadInOrder'
  <2> SUFFICES ASSUME ReadInOrder, NEW p \in Place', NEW q \in Behind(p)'
               PROVE  Later(At(p)', At(q)')
    BY DEF ReadInOrder
  <2>1. q \in Place'
    BY PlaceFactsNext
  <2> HIDE DEF from
  <2> QED
    BY <1>4, <1>5, <2>1 DEF ReadInOrder
<1>7. NothingMissing /\ ~strayed /\ sets = 0 => NothingMissing'
  <2> SUFFICES ASSUME NothingMissing, ~strayed, sets = 0, NEW p \in Place'
               PROVE  \E n \in 1..Len(written') :
                        /\ written'[n] = At(p)'
                        /\ n + Cardinality(Behind(p)') = Len(written')
    BY DEF NothingMissing
  <2> DEFINE S == Behind(p)'
             T == Behind(from(p))
             f == [q \in S |-> from(q)]
  <2>1. S \subseteq Place' /\ T \subseteq Place
    BY PlaceFactsNext, BehindFacts
  <2>2. f \in [S -> T]
    BY <1>5, <2>1
  <2>3. \A q, r \in S : f[q] = f[r] => q = r
    BY <1>5, <2>1
  <2>4. \A r \in T : \E q \in S : f[q] = r
    <3> SUFFICES ASSUME NEW r \in T PROVE \E q \in S : from(q) = r
      OBVIOUS
    <3>1. r \in Place /\ r[1] <= from(p)[1]
      <4> HIDE DEF from
      <4>1. r \in Place /\ (r[1] < from(p)[1] \/ r[1] = from(p)[1])
        BY BehindFacts
      <4>2. r[1] \in Nat /\ from(p)[1] \in Nat
        BY <1>2, <1>4, <4>1
      <4> QED
        BY <4>1, <4>2
    <3>2. r[1] # old + 1
      <4> SUFFICES ASSUME r[1] = old + 1 PROVE FALSE
        OBVIOUS
      <4>1. Len(Read(old + 1)) # 0 /\ Read(old + 1) # <<>>
        BY <1>0, <1>1, <1>2, <3>1
      <4>2. Read(from(p)[1]) # <<>> /\ from(p)[1] \in Name
        BY <1>0, <1>2, <1>4
      <4> HIDE DEF from
      <4>3. from(p)[1] \in Nat /\ old \in Nat
        BY <1>0, <4>2
      <4>4. ~(from(p)[1] > old + 1)
        BY <4>1, <4>2
      <4>5. from(p)[1] # old + 1
        BY <1>4
      <4> QED
        BY <3>1, <4>3, <4>4, <4>5
    <3>3. PICK q : q = IF r[1] = old THEN <<old + 1, r[2]>> ELSE r
      OBVIOUS
    <3>4. q \in Place' /\ from(q) = r
      <4>1. CASE r[1] = old
        <5>1. q = <<old + 1, r[2]>> /\ q[1] = old + 1 /\ q[2] = r[2]
          BY <3>3, <4>1
        <5>2. Read(q[1])' = Read(old)
          BY <1>0, <5>1
        <5>3. q \in Place'
          BY <1>2, <3>1, <4>1, <5>1, <5>2, PlaceFactsNext
        <5>4. r = <<old, r[2]>>
          BY <1>2, <3>1, <4>1
        <5> QED
          BY <5>1, <5>3, <5>4
      <4>2. CASE r[1] # old
        <5>1. q = r /\ Read(q[1])' = Read(q[1])
          BY <1>2, <3>1, <3>2, <3>3, <4>2
        <5>2. q \in Place'
          BY <1>2, <3>1, <5>1, PlaceFactsNext
        <5> QED
          BY <3>2, <5>1, <5>2
      <4> QED
        BY <4>1, <4>2
    <3> HIDE DEF from
    <3> QED
      BY <1>5, <3>4
  <2>5. f \in Bijection(S, T)
    <3> HIDE DEF f, S, T, from
    <3> QED
      BY <2>2, <2>3, <2>4 DEF Bijection, Injection, IsInjective, Surjection
  <2>6. IsFiniteSet(S)
    BY <1>1, BehindFiniteNext
  <2>7. Cardinality(T) = Cardinality(S)
    <3> HIDE DEF f, S, T, from
    <3> QED
      BY <2>5, <2>6, FS_Bijection DEF ExistsBijection
  <2> HIDE DEF f, from
  <2>8. PICK n \in 1..Len(written) :
          /\ written[n] = At(from(p))
          /\ n + Cardinality(T) = Len(written)
    BY <1>4 DEF NothingMissing
  <2> QED
    BY <1>4, <2>7, <2>8
<1> QED
  BY <1>6, <1>7 DEF Readable

(***************************************************************************)
(* The steps.                                                              *)
(***************************************************************************)

LEMMA NameFacts == 0 \in Name /\ Name \subseteq Nat /\ MaxRotations \in Nat
BY FilesAssumption DEF Name

LEMMA ReadTypes ==
  ASSUME TypeOK, Shapes, NEW n \in Name
  PROVE  Read(n) \in Seq(Int) /\ Len(Read(n)) \in Nat
<1>1. content \in Seq(Seq(Int)) /\ dir[n] \in 0..Len(content)
  BY DEF TypeOK, Shapes
<1>2. dir[n] # 0 => content[dir[n]] \in Seq(Int)
  BY <1>1
<1>3. <<>> \in Seq(Int)
  OBVIOUS
<1>4. Read(n) \in Seq(Int)
  BY <1>2, <1>3 DEF Read
<1> QED
  BY <1>4

(* A place is one of a file. *)
LEMMA PlaceInFile ==
  ASSUME TypeOK, Shapes, NEW p \in Place
  PROVE  /\ dir[p[1]] \in 1..Len(content)
         /\ p[2] \in 1..Len(content[dir[p[1]]])
         /\ At(p) = content[dir[p[1]]][p[2]]
<1>1. p[1] \in Name /\ p[2] \in 1..Len(Read(p[1]))
  BY PlaceFacts
<1>2. dir[p[1]] # 0
  <2> SUFFICES ASSUME dir[p[1]] = 0 PROVE FALSE
    OBVIOUS
  <2>1. Len(Read(p[1])) = 0
    BY DEF Read
  <2> QED
    BY <1>1, <2>1
<1>3. dir[p[1]] \in 1..Len(content)
  BY <1>1, <1>2 DEF TypeOK, Shapes
<1> QED
  BY <1>1, <1>2, <1>3 DEF Read, At

(* Files and what was written stay. *)
LEMMA ReadUnchanged ==
  ASSUME Inv, UNCHANGED <<dir, content, written>>,
         strayed => strayed', sets' = 0 => sets = 0
  PROVE  Readable'
<1>1. \A n \in Name : Read(n)' = Read(n)
  BY DEF Read
<1> QED
  BY <1>1, ReadSame DEF Inv

(* A file is opened, by the name of the log or by another one. *)
LEMMA OpenFacts ==
  ASSUME TypeOK, Shapes, NEW name \in Name, Open(name)
  PROVE  /\ content' \in Seq(Seq(Int)) /\ synced' \in Seq(Nat)
         /\ Len(content') \in Nat /\ Len(content) <= Len(content')
         /\ Len(synced') = Len(content')
         /\ dir' \in [Name -> 0..Len(content')]
         /\ file' \in 1..Len(content') /\ dir'[name] = file'
         /\ \A n \in Name : n # name => dir'[n] = dir[n]
         /\ \A f \in 1..Len(content') :
              IF f \in 1..Len(content)
              THEN content'[f] = content[f] /\ synced'[f] = synced[f]
              ELSE content'[f] = <<>> /\ synced'[f] = 0
         /\ IF dir[name] = 0 THEN file' \notin 0..Len(content)
            ELSE file' = dir[name]
<1>1. /\ content \in Seq(Seq(Int)) /\ synced \in Seq(Nat)
      /\ Len(content) \in Nat /\ Len(synced) = Len(content)
      /\ dir \in [Name -> 0..Len(content)]
  BY DEF TypeOK, Shapes
<1>2. CASE dir[name] # 0
  <2>1. /\ file' = dir[name] /\ content' = content
        /\ dir' = dir /\ synced' = synced
    BY <1>2 DEF Open, opened_content
  <2> QED
    BY <1>1, <1>2, <2>1
<1>3. CASE dir[name] = 0
  <2>1. /\ file' = Len(content) + 1
        /\ dir' = [dir EXCEPT ![name] = Len(content) + 1]
        /\ content' = Append(content, <<>>)
        /\ synced' = Append(synced, 0)
    BY <1>3 DEF Open
  <2>2. <<>> \in Seq(Int) /\ 0 \in Nat
    OBVIOUS
  <2>3. /\ content' \in Seq(Seq(Int)) /\ Len(content') = Len(content) + 1
        /\ \A f \in 1..Len(content) : content'[f] = content[f]
        /\ content'[Len(content) + 1] = <<>>
    BY <1>1, <2>1, <2>2
  <2>4. /\ synced' \in Seq(Nat) /\ Len(synced') = Len(content) + 1
        /\ \A f \in 1..Len(content) : synced'[f] = synced[f]
        /\ synced'[Len(content) + 1] = 0
    BY <1>1, <2>1, <2>2
  <2>5. /\ dir' \in [Name -> 0..(Len(content) + 1)]
        /\ dir'[name] = Len(content) + 1
        /\ \A n \in Name : n # name => dir'[n] = dir[n]
    BY <1>1, <2>1
  <2>6. \A f \in 1..(Len(content) + 1) :
          f \in 1..Len(content) \/ f = Len(content) + 1
    BY <1>1
  <2>7. Len(content) + 1 \in 1..(Len(content) + 1)
        /\ Len(content) + 1 \notin 0..Len(content)
        /\ Len(content) + 1 \notin 1..Len(content)
        /\ Len(content) <= Len(content) + 1 /\ Len(content) + 1 \in Nat
    BY <1>1
  <2> HIDE <1>1
  <2>8. \A f \in 1..(Len(content) + 1) :
          IF f \in 1..Len(content)
          THEN content'[f] = content[f] /\ synced'[f] = synced[f]
          ELSE content'[f] = <<>> /\ synced'[f] = 0
    BY <2>3, <2>4, <2>6
  <2> QED
    BY <1>3, <2>1, <2>3, <2>4, <2>5, <2>7, <2>8
<1> QED
  BY <1>2, <1>3

LEMMA OpenInv ==
  ASSUME Inv, NEW name \in Name, Open(name), ~half, ~half',
         UNCHANGED <<strategy, written, records, sets>>,
         strategy = "SYNCHRONOUS" => answered' = answered,
         strayed' = (strayed \/ name # 0)
  PROVE  /\ Parts' /\ HalfIsLast' /\ OpenIsLog' /\ OneName'
         /\ RecordsInOneFile' /\ Readable' /\ LogSynced'
<1>1. TypeOK /\ Shapes
  BY DEF Inv
<1>2. /\ Len(content') \in Nat /\ Len(content) \in Nat
      /\ Len(content) <= Len(content')
      /\ dir \in [Name -> 0..Len(content)]
      /\ dir' \in [Name -> 0..Len(content')]
      /\ file' \in 1..Len(content') /\ dir'[name] = file'
      /\ \A n \in Name : n # name => dir'[n] = dir[n]
      /\ \A f \in 1..Len(content') :
           IF f \in 1..Len(content)
           THEN content'[f] = content[f] /\ synced'[f] = synced[f]
           ELSE content'[f] = <<>> /\ synced'[f] = 0
      /\ IF dir[name] = 0 THEN file' \notin 0..Len(content)
         ELSE file' = dir[name]
  <2>1. Len(content) \in Nat /\ dir \in [Name -> 0..Len(content)]
    BY <1>1 DEF TypeOK, Shapes
  <2> QED
    BY <1>1, <2>1, OpenFacts
<1>3. Len(<<>>) = 0 /\ 1..0 = {}
  OBVIOUS
<1>4. Parts' /\ RecordsInOneFile'
  <2>1. \A f \in 1..Len(content') : \A k \in 1..Len(content'[f]) :
          /\ f \in 1..Len(content) /\ k \in 1..Len(content[f])
          /\ content'[f] = content[f]
    BY <1>2, <1>3
  <2>2. Parts'
    BY <2>1 DEF Inv, Parts
  <2>3. RecordsInOneFile'
    BY <2>1 DEF Inv, RecordsInOneFile
  <2> QED
    BY <2>2, <2>3
<1>5. HalfIsLast'
  BY DEF HalfIsLast
<1>6. OpenIsLog'
  BY <1>2 DEF OpenIsLog
<1>7. OneName'
  BY <1>2 DEF Inv, OneName
<1>8. \A n \in Name : Read(n)' = Read(n)
  <2> SUFFICES ASSUME NEW n \in Name PROVE Read(n)' = Read(n)
    OBVIOUS
  <2>1. CASE dir'[n] = dir[n]
    BY <1>2, <2>1 DEF Read
  <2>2. CASE dir'[n] # dir[n]
    <3>1. n = name /\ dir[n] = 0 /\ dir'[n] \in 1..Len(content')
          /\ dir'[n] \notin 1..Len(content)
      BY <1>2, <2>2
    <3> QED
      BY <1>2, <3>1 DEF Read
  <2> QED
    BY <2>1, <2>2
<1>9. Readable'
  BY <1>8, ReadSame DEF Inv
<1>10. LogSynced'
  <2> SUFFICES ASSUME strategy = "SYNCHRONOUS", ~strayed, name = 0
               PROVE  \A k \in synced'[dir'[0]] + 1..Len(content'[dir'[0]]) :
                        content'[dir'[0]][k] \notin answered
    BY DEF LogSynced
  <2>1. CASE dir[0] = 0
    <3>1. Len(content'[dir'[0]]) = 0 /\ synced'[dir'[0]] = 0
      BY <1>2, <1>3, <2>1
    <3> QED
      BY <3>1
  <2>2. CASE dir[0] # 0
    <3>1. dir'[0] = dir[0] /\ dir[0] \in 1..Len(content)
      BY <1>2, <2>2
    <3>2. /\ content'[dir[0]] = content[dir[0]]
          /\ synced'[dir[0]] = synced[dir[0]]
      BY <1>2, <3>1
    <3> QED
      BY <2>2, <3>1, <3>2 DEF Inv, LogSynced
  <2> QED
    BY <2>1, <2>2
<1> QED
  BY <1>4, <1>5, <1>6, <1>7, <1>9, <1>10

LEMMA KeptType ==
  ASSUME Shapes
  PROVE  Kept \in Name /\ Kept \in Nat
<1>1. configured.rotations \in RotationsAtStart
  BY DEF Shapes
<1>2. configured.rotations \in Name
  BY <1>1, FilesAssumption DEF Name
<1> QED
  BY <1>2, NameFacts DEF Kept

(* A file moves to the next name. *)
LEMMA RenameInv ==
  ASSUME Inv, NEW old \in Name, old + 1 \in Name, dir[old] # 0,
         Rename(old, old + 1),
         UNCHANGED <<strategy, content, synced, written, strayed, sets>>,
         strategy = "SYNCHRONOUS" => answered' = answered,
         (old # 0 /\ file' = file) \/ file' = 0,
         ~strayed /\ sets = 0 =>
           \/ dir[old + 1] = 0
           \/ \A n \in Name : n > old + 1 => dir[n] = 0
  PROVE  /\ dir' \in [Name -> 0..Len(content)]
         /\ dir'[old] = 0
         /\ \A n \in Name : n \notin {old, old + 1} => dir'[n] = dir[n]
         /\ OpenIsLog' /\ OneName' /\ Readable' /\ LogSynced'
<1>0. TypeOK /\ Shapes
  BY DEF Inv
<1>1. /\ dir \in [Name -> 0..Len(content)] /\ Len(content) \in Nat
      /\ dir' = [dir EXCEPT ![old + 1] = dir[old], ![old] = 0]
  BY <1>0 DEF TypeOK, Shapes, Rename
<1>2. 0 \in Name /\ old \in Nat /\ old # old + 1 /\ old + 1 # 0
  BY NameFacts
<1>3. /\ dir' \in [Name -> 0..Len(content)]
      /\ dir'[old] = 0 /\ dir'[old + 1] = dir[old]
      /\ \A n \in Name : n \notin {old, old + 1} => dir'[n] = dir[n]
  BY <1>1, <1>2
<1>4. OpenIsLog'
  BY <1>2, <1>3 DEF Inv, OpenIsLog
<1>5. OneName'
  <2> SUFFICES ASSUME NEW m \in Name, NEW n \in Name, m # n,
                      dir'[m] = dir'[n], dir'[m] # 0
               PROVE  FALSE
    BY DEF OneName
  <2> QED
    BY <1>2, <1>3 DEF Inv, OneName
<1>6. \A n \in Name : Read(n)' = IF n = old THEN <<>>
                                 ELSE IF n = old + 1 THEN Read(old)
                                 ELSE Read(n)
  BY <1>2, <1>3 DEF Read
<1>7. ~strayed /\ sets = 0 =>
        \/ Read(old + 1) = <<>>
        \/ \A n \in Name : n > old + 1 => Read(n) = <<>>
  BY DEF Read
<1>8. \A n \in Name : Read(n) \in Seq(Int)
  BY <1>0, ReadTypes
<1>9. Readable'
  BY <1>6, <1>7, <1>8, ReadRename DEF Inv
<1>10. LogSynced'
  <2>1. dir'[0] = 0 \/ dir'[0] = dir[0]
    BY <1>2, <1>3
  <2> QED
    BY <2>1 DEF Inv, LogSynced
<1> QED
  BY <1>3, <1>4, <1>5, <1>9, <1>10

(* The thread leaves the logger. *)
LEMMA LeaveFacts ==
  ASSUME NEW w \in Session, NEW no \in 1..records, Leave(w, no),
         pc \in [Session -> {"idle", "rename", "open", "sync"}],
         answered \subseteq 1..records
  PROVE  /\ lock' = NoOne
         /\ pc' \in [Session -> {"idle", "rename", "open", "sync"}]
         /\ pc'[w] \in {"idle", "sync"}
         /\ \A v \in Session : v # w => pc'[v] = pc[v]
         /\ answered' \subseteq 1..records
         /\ strategy = "SYNCHRONOUS" => answered' = answered
BY DEF Leave, sync_on_write

LEMMA InsideFacts ==
  ASSUME Inv, NEW w \in Session, pc[w] \in {"rename", "open"}
  PROVE  /\ lock = w /\ lock # NoOne /\ ~half /\ own[w] \in 1..records
         /\ \A v \in Session : v # w => pc[v] \notin {"rename", "open"}
<1>1. lock = w /\ own[w] > 0
  BY DEF Inv, Inside
<1>2. lock # NoOne
  BY <1>1, FilesAssumption
<1>3. own[w] \in 0..records /\ records \in Nat
  BY FilesAssumption DEF Inv, Shapes, TypeOK
<1> QED
  BY <1>1, <1>2, <1>3 DEF Inv, Inside

LEMMA RenameOlderInv ==
  ASSUME Inv, NEW w \in Session, RenameOlder(w)
  PROVE  Inv'
<1>1. /\ pc[w] = "rename" /\ i > 0
      /\ path' = IF in_path THEN i ELSE path
      /\ UNCHANGED <<strategy, configured, content, synced, file, options,
                     records, half, own, written, strayed, counts>>
  BY DEF RenameOlder
<1>2. UNCHANGED <<rotations, size_limit, reopens, sets, crashes>>
  BY <1>1 DEF options, counts
<1>3. /\ lock = w /\ ~half /\ own[w] \in 1..records
      /\ \A v \in Session : v # w => pc[v] \notin {"rename", "open"}
  BY <1>1, InsideFacts
<1>4. i \in Name /\ i \in Nat /\ i < MaxRotations /\ i + 1 \in Name
      /\ i - 1 \in Name /\ path' \in Name /\ i - 1 < MaxRotations
      /\ (i - 1) + 1 = i
  <2>1. i \in Name /\ path \in Name /\ i < MaxRotations
    BY <1>1 DEF Inv, TypeOK, Inside
  <2>2. i \in 0..MaxRotations /\ MaxRotations \in Nat
    BY <2>1, NameFacts DEF Name
  <2>3. i + 1 \in 0..MaxRotations /\ i - 1 \in 0..MaxRotations
    BY <1>1, <2>1, <2>2
  <2>4. path' \in Name
    BY <1>1, <2>1
  <2> QED
    BY <2>1, <2>2, <2>3, <2>4 DEF Name
<1>5. CASE /\ IF dir[i] # 0 THEN Rename(i, i + 1) ELSE UNCHANGED dir
           /\ i' = i - 1
           /\ UNCHANGED <<lock, pc, answered>>
  <2>1. /\ dir' \in [Name -> 0..Len(content)] /\ dir'[i] = 0
        /\ \A n \in Name : n \notin {i, i + 1} => dir'[n] = dir[n]
        /\ OpenIsLog' /\ OneName' /\ Readable' /\ LogSynced'
    <3>1. CASE dir[i] # 0
      <4>1. ~strayed /\ sets = 0 =>
              \/ dir[i + 1] = 0
              \/ \A n \in Name : n > i + 1 => dir[n] = 0
        BY <1>1 DEF Inv, Numbers
      <4> QED
        BY <1>1, <1>2, <1>4, <1>5, <3>1, <4>1, RenameInv
    <3>2. CASE dir[i] = 0
      <4>1. UNCHANGED dir
        BY <1>5, <3>2
      <4>2. Readable'
        BY <1>1, <1>2, <4>1, ReadUnchanged
      <4>3. dir \in [Name -> 0..Len(content)]
        BY DEF Inv, TypeOK
      <4> QED
        BY <1>1, <1>5, <3>2, <4>1, <4>2, <4>3
           DEF Inv, OpenIsLog, OneName, LogSynced
    <3> QED
      BY <3>1, <3>2
  <2>2. Numbers'
    <3> SUFFICES ASSUME ~strayed, sets = 0
                 PROVE  /\ rotations' \in {0, Kept'}
                        /\ \A n \in Name : n > Kept' => dir'[n] = 0
                        /\ \A v \in Session : pc'[v] = "rename" =>
                             /\ i' < Kept'
                             /\ i' + 1 = Kept' \/ dir'[i' + 1] = 0
      BY <1>1, <1>2 DEF Numbers
    <3>1. /\ Kept' = Kept /\ rotations \in {0, Kept} /\ i < Kept
          /\ \A n \in Name : n > Kept => dir[n] = 0
      BY <1>1 DEF Inv, Numbers, Kept
    <3>2. Kept \in Nat
      BY KeptType DEF Inv
    <3>3. \A n \in Name : n > Kept => n \notin {i, i + 1}
      BY <1>4, <3>1, <3>2, NameFacts
    <3>4. i' + 1 = i /\ i' < Kept
      BY <1>4, <1>5, <3>1, <3>2
    <3> QED
      BY <1>2, <2>1, <3>1, <3>3, <3>4
  <2>3. TypeOK'
    BY <1>1, <1>2, <1>4, <1>5, <2>1 DEF Inv, TypeOK
  <2>4. Shapes' /\ Inside' /\ Parts' /\ HalfIsLast' /\ RecordsInOneFile'
    BY <1>1, <1>2, <1>3, <1>4, <1>5
       DEF Inv, Shapes, Inside, Parts, HalfIsLast, RecordsInOneFile
  <2> QED
    BY <2>1, <2>2, <2>3, <2>4 DEF Inv
<1>6. CASE Leave(w, own[w]) /\ UNCHANGED <<dir, i>>
  <2>1. /\ lock' = NoOne
        /\ pc' \in [Session -> {"idle", "rename", "open", "sync"}]
        /\ pc'[w] \in {"idle", "sync"}
        /\ \A v \in Session : v # w => pc'[v] = pc[v]
        /\ answered' \subseteq 1..records
        /\ strategy = "SYNCHRONOUS" => answered' = answered
    BY <1>3, <1>6, LeaveFacts DEF Inv, TypeOK, Shapes
  <2>2. \A v \in Session : pc'[v] \notin {"rename", "open"}
    BY <1>3, <2>1
  <2>3. records \in 0..MaxRecords /\ MaxRecords \in Nat
    BY FilesAssumption DEF Inv, TypeOK
  <2>4. answered' \subseteq 1..MaxRecords
    BY <2>1, <2>3
  <2>5. TypeOK'
    BY <1>1, <1>2, <1>4, <1>6, <2>1, <2>4 DEF Inv, TypeOK
  <2>6. Shapes' /\ Parts' /\ HalfIsLast' /\ RecordsInOneFile'
    BY <1>1, <1>2, <2>1
       DEF Inv, Shapes, Parts, HalfIsLast, RecordsInOneFile
  <2>7. Inside'
    BY <1>1, <1>3, <1>6, <2>1, <2>2 DEF Inv, Inside
  <2>8. Numbers'
    BY <1>1, <1>2, <1>6, <2>2 DEF Inv, Numbers, Kept
  <2>9. OpenIsLog' /\ OneName' /\ LogSynced'
    BY <1>1, <1>6, <2>1 DEF Inv, OpenIsLog, OneName, LogSynced
  <2>10. Readable'
    BY <1>1, <1>2, <1>6, ReadUnchanged
  <2> QED
    BY <2>5, <2>6, <2>7, <2>8, <2>9, <2>10 DEF Inv
<1> QED
  BY <1>5, <1>6 DEF RenameOlder

LEMMA RenameLogInv ==
  ASSUME Inv, NEW w \in Session, RenameLog(w)
  PROVE  Inv'
<1>1. /\ pc[w] = "rename" /\ i = 0 /\ file' = 0 /\ path' = 1
      /\ pc' = [pc EXCEPT ![w] = "open"]
      /\ UNCHANGED <<strategy, configured, content, synced, options, lock,
                     loop, records, half, own, history, counts>>
  BY DEF RenameLog
<1>2. UNCHANGED <<rotations, size_limit, i, in_path, written, answered,
                  strayed, reopens, sets, crashes>>
  BY <1>1 DEF options, loop, history, counts
<1>3. /\ lock = w /\ ~half /\ own[w] \in 1..records
      /\ \A v \in Session : v # w => pc[v] \notin {"rename", "open"}
  BY <1>1, InsideFacts
<1>4. 0 < MaxRotations /\ 0 \in Name /\ 0 + 1 \in Name /\ 1 \in Name
  <2>1. 0 < MaxRotations
    BY <1>1 DEF Inv, Inside
  <2> QED
    BY <2>1, NameFacts DEF Name
<1>5. /\ dir' \in [Name -> 0..Len(content)]
      /\ \A n \in Name : n \notin {0, 1} => dir'[n] = dir[n]
      /\ OpenIsLog' /\ OneName' /\ Readable' /\ LogSynced'
  <2>1. CASE dir[0] # 0 /\ Rename(0, 1)
    <3>1. ~strayed /\ sets = 0 =>
            \/ dir[0 + 1] = 0
            \/ \A n \in Name : n > 0 + 1 => dir[n] = 0
      BY <1>1 DEF Inv, Numbers
    <3>2. Rename(0, 0 + 1)
      BY <2>1
    <3>3. /\ dir' \in [Name -> 0..Len(content)]
          /\ \A n \in Name : n \notin {0, 0 + 1} => dir'[n] = dir[n]
          /\ OpenIsLog' /\ OneName' /\ Readable' /\ LogSynced'
      BY <1>1, <1>2, <1>4, <2>1, <3>1, <3>2, RenameInv
    <3> QED
      BY <3>3
  <2>2. CASE UNCHANGED dir
    <3>1. Readable'
      BY <1>1, <1>2, <2>2, ReadUnchanged
    <3>2. dir \in [Name -> 0..Len(content)]
      BY DEF Inv, TypeOK
    <3> QED
      BY <1>1, <1>2, <2>2, <3>1, <3>2
         DEF Inv, OpenIsLog, OneName, LogSynced
  <2> QED
    BY <2>1, <2>2 DEF RenameLog
<1>6. \A v \in Session : pc'[v] # "rename"
                         /\ (v # w => pc'[v] = pc[v]) /\ pc'[w] = "open"
  BY <1>1, <1>3 DEF Inv, TypeOK
<1>7. TypeOK'
  <2>1. pc' \in [Session -> {"idle", "rename", "open", "sync"}]
    BY <1>1 DEF Inv, TypeOK
  <2>2. file' \in 0..Len(content)
    BY <1>1 DEF Inv, TypeOK, Shapes
  <2> QED
    BY <1>1, <1>2, <1>4, <1>5, <2>1, <2>2 DEF Inv, TypeOK
<1>8. Shapes' /\ Parts' /\ HalfIsLast' /\ RecordsInOneFile'
  BY <1>1, <1>2, <1>3
     DEF Inv, Shapes, Parts, HalfIsLast, RecordsInOneFile
<1>9. Inside'
  BY <1>1, <1>3, <1>6 DEF Inv, Inside
<1>10. Numbers'
  <2> SUFFICES ASSUME ~strayed, sets = 0
               PROVE  /\ rotations' \in {0, Kept'}
                      /\ \A n \in Name : n > Kept' => dir'[n] = 0
    BY <1>2, <1>6 DEF Numbers
  <2>1. /\ Kept' = Kept /\ rotations \in {0, Kept} /\ 0 < Kept
        /\ \A n \in Name : n > Kept => dir[n] = 0
    BY <1>1 DEF Inv, Numbers, Kept
  <2>2. \A n \in Name : n > Kept => n \notin {0, 1}
    BY <2>1, KeptType, NameFacts DEF Inv
  <2> QED
    BY <1>2, <1>5, <2>1, <2>2
<1> QED
  BY <1>5, <1>7, <1>8, <1>9, <1>10 DEF Inv

(* What an opening does to the rest of the invariant, whoever leaves.      *)
LEMMA OpenedInv ==
  ASSUME Inv, NEW name \in Name, Open(name), ~half,
         UNCHANGED <<strategy, configured, records, half, own, written, sets>>,
         strayed' = (strayed \/ name # 0),
         path' \in Name, i' \in Name, rotations' \in Name, size_limit' \in Nat,
         lock' = NoOne,
         pc' \in [Session -> {"idle", "rename", "open", "sync"}],
         \A v \in Session : /\ pc'[v] \notin {"rename", "open"}
                            /\ pc'[v] # "idle" => own[v] > 0,
         answered' \subseteq 1..records,
         strategy = "SYNCHRONOUS" => answered' = answered,
         ~strayed /\ sets = 0 => rotations' \in {0, Kept}
  PROVE  Inv'
<1>0. TypeOK /\ Shapes
  BY DEF Inv
<1>1. /\ Parts' /\ HalfIsLast' /\ OpenIsLog' /\ OneName'
      /\ RecordsInOneFile' /\ Readable' /\ LogSynced'
  BY OpenInv
<1>2. /\ content' \in Seq(Seq(Int)) /\ synced' \in Seq(Nat)
      /\ Len(content') \in Nat /\ Len(synced') = Len(content')
      /\ dir' \in [Name -> 0..Len(content')]
      /\ file' \in 1..Len(content')
      /\ \A n \in Name : n # name => dir'[n] = dir[n]
  BY <1>0, OpenFacts
<1>3. records \in 0..MaxRecords /\ MaxRecords \in Nat /\ half \in BOOLEAN
  BY FilesAssumption DEF Inv, TypeOK
<1>4. answered' \subseteq 1..MaxRecords
  BY <1>3
<1>5. file' \in 0..Len(content')
  BY <1>2
<1>6. TypeOK'
  BY <1>2, <1>3, <1>4, <1>5 DEF TypeOK
<1>7. Shapes'
  <2>1. strayed' \in BOOLEAN
    OBVIOUS
  <2> QED
    BY <1>2, <2>1 DEF Inv, Shapes
<1>8. Inside'
  BY DEF Inside
<1>9. Numbers'
  <2> SUFFICES ASSUME ~strayed, sets = 0, name = 0
               PROVE  /\ rotations' \in {0, Kept'}
                      /\ \A n \in Name : n > Kept' => dir'[n] = 0
    BY DEF Numbers
  <2>1. /\ Kept' = Kept /\ \A n \in Name : n > Kept => dir[n] = 0
    BY DEF Inv, Numbers, Kept
  <2>2. \A n \in Name : n > Kept => n # 0
    BY <1>0, KeptType, NameFacts
  <2> QED
    BY <1>2, <2>1, <2>2
<1> QED
  BY <1>1, <1>6, <1>7, <1>8, <1>9 DEF Inv

(* Steps that neither write, rename nor open. *)
LEMMA QuietInv ==
  ASSUME Inv, UNCHANGED <<strategy, configured, dir, content, written,
                          records, own, strayed>>,
         TypeOK', Inside',
         synced' \in Seq(Nat), answered' \subseteq 1..records,
         sets' \in Nat, sets' = 0 => sets = 0,
         half' => half /\ file' = file, file' \in {0, file},
         \/ UNCHANGED <<synced, answered>> \/ strategy # "SYNCHRONOUS"
         \/ file # 0 /\ synced' = [synced EXCEPT ![file] = Len(content[file])],
         sets' = 0 => rotations' = rotations,
         i' = i,
         \A v \in Session : pc'[v] = "rename" => pc[v] = "rename"
  PROVE  Inv'
<1>1. Readable'
  BY ReadUnchanged
<1>2. Shapes' /\ Parts' /\ HalfIsLast' /\ OpenIsLog' /\ OneName'
      /\ RecordsInOneFile'
  BY DEF Inv, Shapes, Parts, HalfIsLast, OpenIsLog, OneName, RecordsInOneFile
<1>3. Numbers'
  BY DEF Inv, Numbers, Kept
<1>4. LogSynced'
  <2> SUFFICES ASSUME strategy = "SYNCHRONOUS", ~strayed, dir[0] # 0,
                      NEW k \in synced'[dir[0]] + 1..Len(content[dir[0]])
               PROVE  content[dir[0]][k] \notin answered'
    BY DEF LogSynced
  <2>1. CASE UNCHANGED <<synced, answered>>
    BY <2>1 DEF Inv, LogSynced
  <2>2. CASE file # 0 /\ synced' = [synced EXCEPT ![file] = Len(content[file])]
    <3>1. file = dir[0] /\ file \in 1..Len(content) /\ Len(synced) = Len(content)
      BY <2>2 DEF Inv, OpenIsLog, TypeOK, Shapes
    <3>2. synced \in Seq(Nat) /\ DOMAIN synced = 1..Len(content)
      BY <3>1 DEF Inv, Shapes
    <3>3. synced'[dir[0]] = Len(content[dir[0]])
      BY <2>2, <3>1, <3>2
    <3>4. content[dir[0]] \in Seq(Int)
      BY <3>1 DEF Inv, Shapes
    <3> QED
      BY <3>3, <3>4
  <2> QED
    BY <2>1, <2>2
<1> QED
  BY <1>1, <1>2, <1>3, <1>4 DEF Inv

(* An opening that fails, whoever leaves. *)
LEMMA OpenFailsInv ==
  ASSUME Inv, OpenFails, ~half,
         UNCHANGED <<strategy, configured, path, options, loop, records, half,
                     own, written, strayed, sets>>,
         lock' = NoOne,
         pc' \in [Session -> {"idle", "rename", "open", "sync"}],
         \A v \in Session : /\ pc'[v] \notin {"rename", "open"}
                            /\ pc'[v] # "idle" => own[v] > 0,
         answered' \subseteq 1..records,
         strategy = "SYNCHRONOUS" => answered' = answered
  PROVE  Inv'
<1>1. /\ file' = 0 /\ UNCHANGED <<dir, content, synced>>
      /\ UNCHANGED <<rotations, size_limit, i>>
  BY DEF OpenFails, files, options, loop
<1>2. /\ records \in 0..MaxRecords /\ MaxRecords \in Nat /\ sets \in Nat
      /\ Len(content) \in Nat /\ synced \in Seq(Nat)
  BY FilesAssumption DEF Inv, TypeOK, Shapes
<1>3. answered' \subseteq 1..MaxRecords /\ 0 \in 0..Len(content)
  BY <1>2
<1>4. TypeOK'
  BY <1>1, <1>3 DEF Inv, TypeOK
<1>5. Inside'
  BY DEF Inside
<1> QED
  BY <1>1, <1>2, <1>4, <1>5, QuietInv

LEMMA OpenLogInv ==
  ASSUME Inv, NEW w \in Session, OpenLog(w) \/ CloseFails(w)
  PROVE  Inv'
<1>1. /\ pc[w] \in {"rename", "open"} /\ Leave(w, own[w])
      /\ Open(0) \/ OpenFails
      /\ UNCHANGED <<strategy, configured, path, options, loop, records,
                     half, own, written, strayed, counts>>
  BY DEF OpenLog, CloseFails
<1>2. UNCHANGED <<rotations, size_limit, i, sets>>
  BY <1>1 DEF options, loop, counts
<1>3. /\ lock = w /\ ~half /\ own[w] \in 1..records
      /\ \A v \in Session : v # w => pc[v] \notin {"rename", "open"}
  BY <1>1, InsideFacts
<1>4. /\ lock' = NoOne
      /\ pc' \in [Session -> {"idle", "rename", "open", "sync"}]
      /\ pc'[w] \in {"idle", "sync"}
      /\ \A v \in Session : v # w => pc'[v] = pc[v]
      /\ answered' \subseteq 1..records
      /\ strategy = "SYNCHRONOUS" => answered' = answered
  BY <1>1, <1>3, LeaveFacts DEF Inv, TypeOK, Shapes
<1>5. \A v \in Session : /\ pc'[v] \notin {"rename", "open"}
                         /\ pc'[v] # "idle" => own[v] > 0
  BY <1>3, <1>4 DEF Inv, Inside
<1>6. /\ path' \in Name /\ i' \in Name /\ rotations' \in Name
      /\ size_limit' \in Nat /\ strayed' = (strayed \/ 0 # 0)
  BY <1>1, <1>2 DEF Inv, TypeOK, Shapes
<1>7. ~strayed /\ sets = 0 => rotations' \in {0, Kept}
  BY <1>2 DEF Inv, Numbers
<1>8. CASE Open(0)
  BY <1>1, <1>2, <1>3, <1>4, <1>5, <1>6, <1>7, <1>8, NameFacts, OpenedInv
<1>9. CASE OpenFails
  BY <1>1, <1>2, <1>3, <1>4, <1>5, <1>9, OpenFailsInv
<1> QED
  BY <1>1, <1>8, <1>9

LEMMA LoggerReopenInv ==
  ASSUME Inv, logger_reopen
  PROVE  Inv'
<1>1. /\ lock = NoOne /\ ~half
      /\ \/ Open(path) /\ strayed' = (strayed \/ path # 0)
         \/ OpenFails /\ UNCHANGED strayed
      /\ UNCHANGED <<strategy, configured, path, options, lock, pc, loop,
                     records, half, own, written, answered, sets>>
  BY DEF logger_reopen
<1>2. UNCHANGED <<rotations, size_limit, i>>
  BY <1>1 DEF options, loop
<1>3. \A v \in Session : /\ pc'[v] \notin {"rename", "open"}
                         /\ pc'[v] # "idle" => own[v] > 0
  BY <1>1, FilesAssumption DEF Inv, Inside
<1>4. /\ path \in Name /\ path' \in Name /\ i' \in Name /\ rotations' \in Name
      /\ size_limit' \in Nat /\ answered' \subseteq 1..records
      /\ pc' \in [Session -> {"idle", "rename", "open", "sync"}]
  BY <1>1, <1>2 DEF Inv, TypeOK, Shapes
<1>5. ~strayed /\ sets = 0 => rotations' \in {0, Kept}
  BY <1>2 DEF Inv, Numbers
<1>6. CASE Open(path) /\ strayed' = (strayed \/ path # 0)
  BY <1>1, <1>2, <1>3, <1>4, <1>5, <1>6, OpenedInv
<1>7. CASE OpenFails /\ UNCHANGED strayed
  BY <1>1, <1>2, <1>3, <1>4, <1>7, OpenFailsInv
<1> QED
  BY <1>1, <1>6, <1>7

LEMMA LoggerOpenInv ==
  ASSUME Inv, logger_open
  PROVE  Inv'
<1>1. /\ file = 0 /\ lock = NoOne /\ Open(0) /\ path' = 0
      /\ rotations' = Kept /\ size_limit' = configured.limit
      /\ UNCHANGED <<strategy, configured, lock, pc, loop, records, half,
                     own, history, counts>>
  BY DEF logger_open, Kept
<1>2. UNCHANGED <<i, written, answered, strayed, sets>>
  BY <1>1 DEF loop, history, counts
<1>3. ~half
  BY <1>1 DEF Inv, HalfIsLast
<1>4. \A v \in Session : /\ pc'[v] \notin {"rename", "open"}
                         /\ pc'[v] # "idle" => own[v] > 0
  BY <1>1, FilesAssumption DEF Inv, Inside
<1>5. /\ path' \in Name /\ i' \in Name /\ rotations' \in Name
      /\ answered' \subseteq 1..records
      /\ pc' \in [Session -> {"idle", "rename", "open", "sync"}]
      /\ strayed' = (strayed \/ 0 # 0)
  BY <1>1, <1>2, KeptType, NameFacts DEF Inv, TypeOK, Shapes
<1>6. size_limit' \in Nat
  BY <1>1, FilesAssumption DEF Inv, Shapes
<1> QED
  BY <1>1, <1>2, <1>3, <1>4, <1>5, <1>6, NameFacts, OpenedInv

LEMMA LoggerSyncInv ==
  ASSUME Inv, NEW w \in Session, logger_sync(w)
  PROVE  Inv'
<1>1. /\ pc[w] = "sync"
      /\ synced' = IF file = 0 THEN synced
                   ELSE [synced EXCEPT ![file] = Len(content[file])]
      /\ pc' = [pc EXCEPT ![w] = "idle"]
      /\ answered' = IF file = 0 THEN answered ELSE answered \cup {own[w]}
      /\ UNCHANGED <<strategy, configured, dir, content, file, path,
                     rotations, size_limit, lock, i, records, half, own,
                     written, strayed, sets>>
  BY DEF logger_sync, handle, options, loop, counts
<1>2. /\ pc' \in [Session -> {"idle", "rename", "open", "sync"}]
      /\ pc'[w] = "idle" /\ \A v \in Session : v # w => pc'[v] = pc[v]
  BY <1>1 DEF Inv, TypeOK
<1>3. own[w] \in 1..records /\ records \in 0..MaxRecords /\ MaxRecords \in Nat
  <2>1. own[w] \in 0..records /\ own[w] > 0
    BY <1>1 DEF Inv, Shapes, Inside
  <2>2. records \in 0..MaxRecords /\ MaxRecords \in Nat
    BY FilesAssumption DEF Inv, TypeOK
  <2> QED
    BY <2>1, <2>2
<1>4. answered' \subseteq 1..records /\ answered' \subseteq 1..MaxRecords
  <2>1. answered' \subseteq 1..records
    BY <1>1, <1>3 DEF Inv, Shapes
  <2> QED
    BY <1>3, <2>1
<1>5. synced' \in Seq(Nat) /\ Len(synced') = Len(content)
  <2>1. synced \in Seq(Nat) /\ Len(synced) = Len(content)
    BY DEF Inv, TypeOK, Shapes
  <2>2. file # 0 => Len(content[file]) \in Nat /\ file \in 1..Len(synced)
    <3>1. content \in Seq(Seq(Int)) /\ file \in 0..Len(content)
      BY DEF Inv, TypeOK, Shapes
    <3> QED
      BY <2>1, <3>1
  <2> QED
    BY <1>1, <2>1, <2>2, ExceptSeq
<1>6. TypeOK'
  BY <1>1, <1>2, <1>4, <1>5 DEF Inv, TypeOK
<1>7. Inside'
  BY <1>1, <1>2 DEF Inv, Inside
<1>8. sets \in Nat
  BY DEF Inv, Shapes
<1> QED
  BY <1>1, <1>2, <1>4, <1>5, <1>6, <1>7, <1>8, QuietInv

LEMMA SetOptionInv ==
  ASSUME Inv, audit_handler_file_set_option
  PROVE  Inv'
<1>1. /\ sets' = sets + 1
      /\ UNCHANGED <<strategy, configured, dir, content, synced, file, path,
                     lock, pc, i, in_path, records, half, own, written,
                     answered, strayed>>
  BY DEF audit_handler_file_set_option, files, handle, loop, history
<1>2. rotations' \in Name /\ size_limit' \in Nat
  <2>1. \E val \in Name :
          \/ rotations' = val /\ UNCHANGED size_limit
          \/ size_limit' = val /\ UNCHANGED rotations
    BY DEF audit_handler_file_set_option
  <2> QED
    BY <2>1, NameFacts DEF Inv, TypeOK
<1>3. sets' \in Nat /\ sets' # 0
  BY <1>1 DEF Inv, Shapes
<1>4. TypeOK'
  BY <1>1, <1>2 DEF Inv, TypeOK
<1>5. Inside' /\ synced' \in Seq(Nat) /\ answered' \subseteq 1..records
  BY <1>1 DEF Inv, Inside, Shapes
<1> QED
  BY <1>1, <1>3, <1>4, <1>5, QuietInv

LEMMA CloseInv ==
  ASSUME Inv, logger_close \/ Kill
  PROVE  Inv'
<1>1. /\ file' = 0
      /\ UNCHANGED <<strategy, configured, dir, content, synced, path,
                     rotations, size_limit, i, in_path, records, own, written,
                     answered, strayed, sets>>
  BY DEF logger_close, Kill, files, options, loop, history
<1>2. /\ half' = FALSE /\ lock' = NoOne
      /\ pc' \in [Session -> {"idle", "rename", "open", "sync"}]
      /\ \A v \in Session : pc'[v] = "idle"
  <2>1. CASE logger_close
    BY <2>1 DEF logger_close, Inv, TypeOK
  <2>2. CASE Kill
    BY <2>2 DEF Kill
  <2> QED
    BY <2>1, <2>2
<1>3. 0 \in 0..Len(content)
  BY DEF Inv, Shapes
<1>4. TypeOK'
  BY <1>1, <1>2, <1>3 DEF Inv, TypeOK
<1>5. Inside'
  BY <1>2 DEF Inside
<1>6. synced' \in Seq(Nat) /\ answered' \subseteq 1..records /\ sets' \in Nat
  BY <1>1 DEF Inv, Shapes
<1> QED
  BY <1>1, <1>2, <1>4, <1>5, <1>6, QuietInv

LEMMA StutterInv ==
  ASSUME Inv, UNCHANGED vars
  PROVE  Inv'
<1>1. UNCHANGED <<strategy, configured, dir, content, synced, file, path,
                  rotations, size_limit, lock, pc, i, in_path, records, half,
                  own, written, answered, strayed, sets>>
  BY DEF vars, files, handle, options, loop, history, counts
<1>2. TypeOK'
  BY <1>1 DEF Inv, TypeOK
<1>3. Inside' /\ synced' \in Seq(Nat) /\ answered' \subseteq 1..records
      /\ sets' \in Nat
  BY <1>1 DEF Inv, Inside, Shapes
<1> QED
  BY <1>1, <1>2, <1>3, QuietInv

(* A write: the part becomes the last of the log, which is then rotated or *)
(* not.                                                                    *)
LEMMA LoggerWriteInv ==
  ASSUME Inv, NEW w \in Session, logger_write(w)
  PROVE  Inv'
<1>0. records \in Int /\ records + 1 \in Int /\ -records \in Int
  BY DEF Inv, TypeOK
<1>1. PICK complete \in BOOLEAN, no \in Int, part \in Int :
        /\ no = IF half THEN records ELSE records + 1
        /\ part = IF half THEN -records ELSE no
        /\ half => complete
        /\ content' = [content EXCEPT ![file] = Append(content[file], part)]
        /\ written' = Append(written, part)
        /\ records' = no
        /\ half' = ~complete
        /\ own' = [own EXCEPT ![w] = no]
        /\ \/ /\ complete /\ rotations > 0
              /\ lock' = w /\ i' = rotations - 1
              /\ pc' = [pc EXCEPT ![w] = "rename"]
              /\ answered' = answered
           \/ Leave(w, no) /\ i' = i
  BY <1>0 DEF logger_write, loop, needs_rotation
<1>2. /\ pc[w] = "idle" /\ lock = NoOne /\ file # 0
      /\ half \/ records < MaxRecords
      /\ UNCHANGED <<strategy, configured, dir, synced, file, path, rotations,
                     size_limit, strayed, sets>>
  BY DEF logger_write, handle, options, counts
<1>3. /\ TypeOK /\ Shapes
      /\ records \in 0..MaxRecords /\ MaxRecords \in Nat
      /\ half \in BOOLEAN /\ half => records > 0
  BY FilesAssumption DEF Inv, TypeOK, HalfIsLast
<1>4. /\ no \in 1..MaxRecords /\ part \in Int /\ part # 0
      /\ -no <= part /\ part <= no /\ records <= no /\ no \in Nat
      /\ part \notin 1..records
      /\ part < 0 => half /\ part = -records
      /\ half' => ~half /\ part = no
      /\ half' => -no < -records
      /\ half' \in BOOLEAN
  <2>0. records \in Nat /\ half' \in BOOLEAN /\ (half' => ~half)
    <3>1. records \in Nat
      BY <1>3
    <3>2. half' \in BOOLEAN
      BY <1>1, Zenon
    <3>3. half' => ~half
      BY <1>1, Zenon
    <3> QED
      BY <3>1, <3>2, <3>3
  <2>1. CASE half
    <3>1. no = records /\ part = -records /\ records > 0 /\ ~half'
      BY <1>1, <1>3, <2>0, <2>1
    <3> QED
      BY <1>3, <2>0, <2>1, <3>1
  <2>2. CASE ~half
    <3>1. no = records + 1 /\ part = no /\ records < MaxRecords
      BY <1>1, <1>2, <2>2
    <3> QED
      BY <1>3, <2>0, <2>2, <3>1
  <2> QED
    BY <2>1, <2>2
<1>5. /\ content \in Seq(Seq(Int)) /\ file \in 1..Len(content)
      /\ content[file] \in Seq(Int)
      /\ dir \in [Name -> 0..Len(content)]
  <2>1. /\ content \in Seq(Seq(Int)) /\ file \in 0..Len(content)
        /\ dir \in [Name -> 0..Len(content)]
    BY <1>3 DEF TypeOK, Shapes
  <2>2. file \in 1..Len(content)
    BY <1>2, <2>1
  <2> QED
    BY <2>1, <2>2
<1>6. /\ Append(content[file], part) \in Seq(Int)
      /\ Len(content[file]) \in Nat
      /\ Len(Append(content[file], part)) = Len(content[file]) + 1
      /\ \A k \in 1..Len(content[file]) :
           Append(content[file], part)[k] = content[file][k]
      /\ Append(content[file], part)[Len(content[file]) + 1] = part
  BY <1>4, <1>5
<1>7. /\ content' \in Seq(Seq(Int)) /\ Len(content') = Len(content)
      /\ \A f \in 1..Len(content) :
           content'[f] = IF f = file THEN Append(content[file], part)
                         ELSE content[f]
  BY <1>1, <1>5, <1>6, ExceptSeq
<1>8. \A f \in 1..Len(content') : \A k \in 1..Len(content'[f]) :
        /\ f \in 1..Len(content)
        /\ \/ k \in 1..Len(content[f]) /\ content'[f][k] = content[f][k]
           \/ /\ f = file /\ k = Len(content[file]) + 1
              /\ content'[f][k] = part
  <2> SUFFICES ASSUME NEW f \in 1..Len(content'),
                      NEW k \in 1..Len(content'[f])
               PROVE  \/ /\ k \in 1..Len(content[f])
                         /\ content'[f][k] = content[f][k]
                      \/ /\ f = file /\ k = Len(content[file]) + 1
                         /\ content'[f][k] = part
    BY <1>7
  <2>1. CASE f = file
    <3>1. k \in 1..(Len(content[file]) + 1)
      BY <1>6, <1>7, <2>1
    <3>2. k \in 1..Len(content[file]) \/ k = Len(content[file]) + 1
      BY <1>6, <3>1
    <3> QED
      BY <1>6, <1>7, <2>1, <3>2
  <2>2. CASE f # file
    BY <1>7, <2>2
  <2> QED
    BY <2>1, <2>2
<1>9. Parts'
  <2> SUFFICES ASSUME NEW f \in 1..Len(content'),
                      NEW k \in 1..Len(content'[f])
               PROVE  /\ content'[f][k] # 0
                      /\ -no <= content'[f][k] /\ content'[f][k] <= no
                      /\ half' => -no < content'[f][k]
    BY <1>1 DEF Parts
  <2>1. CASE f \in 1..Len(content) /\ k \in 1..Len(content[f])
             /\ content'[f][k] = content[f][k]
    <3>1. /\ content[f][k] # 0 /\ -records <= content[f][k]
          /\ content[f][k] <= records /\ content[f][k] \in Int
      BY <1>5, <2>1 DEF Inv, Parts
    <3>2. PICK x \in Int : x = content[f][k]
      BY <3>1
    <3>3. x # 0 /\ -no <= x /\ x <= no /\ (half' => -no < x)
      BY <1>3, <1>4, <3>1, <3>2
    <3> QED
      BY <2>1, <3>2, <3>3
  <2>2. CASE content'[f][k] = part
    BY <1>4, <2>2
  <2> QED
    BY <1>8, <2>1, <2>2
<1>10. HalfIsLast'
  <2> SUFFICES ASSUME half'
               PROVE  /\ file # 0 /\ Len(content'[file]) > 0 /\ no > 0
                      /\ content'[file][Len(content'[file])] = no
    BY <1>1, <1>2 DEF HalfIsLast
  <2>1. content'[file] = Append(content[file], part) /\ part = no
    BY <1>4, <1>5, <1>7
  <2>2. Len(content'[file]) = Len(content[file]) + 1
    BY <1>6, <2>1
  <2>3. content'[file][Len(content'[file])] = no
    BY <1>6, <2>1, <2>2
  <2> QED
    BY <1>2, <1>4, <1>6, <2>2, <2>3
<1>11. RecordsInOneFile'
  <2> SUFFICES ASSUME NEW f \in 1..Len(content'),
                      NEW k \in 1..Len(content'[f]), content'[f][k] < 0
               PROVE  k > 1 /\ content'[f][k-1] = -content'[f][k]
    BY DEF RecordsInOneFile
  <2>1. CASE f \in 1..Len(content) /\ k \in 1..Len(content[f])
             /\ content'[f][k] = content[f][k]
    <3>1. k > 1 /\ content[f][k-1] = -content[f][k]
      BY <2>1 DEF Inv, RecordsInOneFile
    <3>2. k - 1 \in 1..Len(content[f])
      <4>1. Len(content[f]) \in Nat
        BY <1>5, <2>1
      <4> QED
        BY <2>1, <3>1, <4>1
    <3>3. content'[f][k-1] = content[f][k-1]
      BY <1>6, <1>7, <2>1, <3>2
    <3> QED
      BY <2>1, <3>1, <3>3
  <2>2. CASE /\ f = file /\ k = Len(content[file]) + 1
             /\ content'[f][k] = part
    <3>1. half /\ part = -records
      BY <1>4, <2>2
    <3>2. /\ Len(content[file]) > 0
          /\ content[file][Len(content[file])] = records
      BY <3>1 DEF Inv, HalfIsLast
    <3>3. k > 1 /\ k - 1 = Len(content[file]) /\ k - 1 \in 1..Len(content[file])
      BY <1>6, <2>2, <3>2
    <3>4. content'[f][k-1] = records
      BY <1>5, <1>6, <1>7, <2>2, <3>2, <3>3
    <3> QED
      BY <1>3, <2>2, <3>1, <3>3, <3>4
  <2> QED
    BY <1>8, <2>1, <2>2
<1>12. OpenIsLog' /\ OneName'
  BY <1>2 DEF Inv, OpenIsLog, OneName
<1>13. ASSUME strayed
       PROVE  Readable'
  BY <1>2, <1>13 DEF Readable
<1>14. ASSUME ~strayed
       PROVE  Readable'
  <2>1. file = dir[0] /\ 0 \in Name
    BY <1>2, <1>14, NameFacts DEF Inv, OpenIsLog
  <2>2. \A n \in Name : Read(n)' = IF n = 0 THEN Append(Read(0), part)
                                   ELSE Read(n)
    <3> SUFFICES ASSUME NEW n \in Name
                 PROVE  Read(n)' = IF n = 0 THEN Append(Read(0), part)
                                   ELSE Read(n)
      OBVIOUS
    <3>1. CASE n = 0
      BY <1>2, <1>5, <1>7, <2>1, <3>1 DEF Read
    <3>2. CASE n # 0
      <4>1. dir[n] # file
        BY <1>2, <2>1, <3>2 DEF Inv, OneName
      <4>2. dir[n] # 0 => content'[dir[n]] = content[dir[n]]
        BY <1>5, <1>7, <4>1
      <4> QED
        BY <1>2, <3>2, <4>2 DEF Read
    <3> QED
      BY <3>1, <3>2
  <2>3. \A p \in Place : Later(At(p), part)
    <3> SUFFICES ASSUME NEW p \in Place PROVE Later(At(p), part)
      OBVIOUS
    <3>1. PICK x : x = At(p)
      OBVIOUS
    <3>2. /\ x \in Int /\ -records <= x /\ x <= records
          /\ half => -records < x
      <4>1. /\ dir[p[1]] \in 1..Len(content)
            /\ p[2] \in 1..Len(content[dir[p[1]]])
            /\ At(p) = content[dir[p[1]]][p[2]]
        BY <1>3, PlaceInFile
      <4>2. At(p) \in Int
        <5>1. content[dir[p[1]]] \in Seq(Int)
          BY <1>5, <4>1
        <5> QED
          BY <4>1, <5>1
      <4> QED
        BY <3>1, <4>1, <4>2 DEF Inv, Parts
    <3>3. Later(x, part)
      <4>1. CASE half
        <5>1. part = -records /\ -records < x
          BY <1>1, <3>2, <4>1
        <5> QED
          BY <1>3, <3>2, <4>1, <5>1 DEF Later
      <4>2. CASE ~half
        <5>1. part = records + 1
          BY <1>1, <4>2
        <5> QED
          BY <1>3, <3>2, <5>1 DEF Later
      <4> QED
        BY <4>1, <4>2
    <3> QED
      BY <3>1, <3>3
  <2>4. \A n \in Name : Read(n) \in Seq(Int)
    BY <1>3, ReadTypes
  <2>5. written \in Seq(Int) /\ Readable
    BY DEF Inv, Shapes
  <2> QED
    BY <1>1, <1>2, <1>4, <2>2, <2>3, <2>4, <2>5, ReadWrite
<1>15. /\ pc' \in [Session -> {"idle", "rename", "open", "sync"}]
       /\ \A v \in Session : v # w => pc'[v] = pc[v]
       /\ answered' \subseteq 1..no
       /\ strategy = "SYNCHRONOUS" => answered' = answered
       /\ \/ /\ lock' = NoOne /\ i' = i /\ pc'[w] \in {"idle", "sync"}
          \/ /\ lock' = w /\ ~half' /\ rotations > 0 /\ i' = rotations - 1
             /\ pc'[w] = "rename"
  <2>1. /\ pc \in [Session -> {"idle", "rename", "open", "sync"}]
        /\ answered \subseteq 1..records
    BY <1>3 DEF TypeOK, Shapes
  <2>2. answered \cup {no} \subseteq 1..no
    BY <1>3, <1>4, <2>1
  <2> QED
    BY <1>1, <2>1, <2>2 DEF Leave, sync_on_write
<1>16. TypeOK'
  <2>1. answered' \subseteq 1..MaxRecords /\ no \in 0..MaxRecords
    BY <1>3, <1>4, <1>15
  <2>2. i' \in Name
    <3>1. i \in Name /\ rotations \in Name
      BY <1>3 DEF TypeOK
    <3>2. rotations > 0 => rotations - 1 \in Name
      BY <3>1, NameFacts DEF Name
    <3> QED
      BY <1>15, <3>1, <3>2
  <2> QED
    BY <1>1, <1>2, <1>3, <1>4, <1>7, <1>15, <2>1, <2>2 DEF TypeOK
<1>17. Shapes'
  <2>1. written' \in Seq(Int)
    BY <1>1, <1>3, <1>4 DEF Shapes
  <2>2. own' \in [Session -> 0..no]
    <3>1. own \in [Session -> 0..records] /\ 0..records \subseteq 0..no
          /\ no \in 0..no
      BY <1>3, <1>4 DEF Shapes
    <3> QED
      BY <1>1, <3>1
  <2> QED
    BY <1>1, <1>2, <1>3, <1>7, <1>15, <2>1, <2>2 DEF Shapes
<1>18. \A v \in Session : pc[v] \notin {"rename", "open"}
  BY <1>2, FilesAssumption DEF Inv, Inside
<1>19. Inside'
  <2>1. own'[w] > 0 /\ \A v \in Session : v # w => own'[v] = own[v]
    BY <1>1, <1>3, <1>4 DEF Shapes
  <2>2. rotations > 0 => rotations - 1 < MaxRotations
    BY <1>3, NameFacts DEF TypeOK, Name
  <2> QED
    BY <1>15, <1>18, <2>1, <2>2 DEF Inv, Inside
<1>20. Numbers'
  <2> SUFFICES ASSUME ~strayed, sets = 0
               PROVE  /\ rotations' \in {0, Kept'}
                      /\ \A n \in Name : n > Kept' => dir'[n] = 0
                      /\ \A v \in Session : pc'[v] = "rename" =>
                           /\ i' < Kept'
                           /\ i' + 1 = Kept' \/ dir'[i' + 1] = 0
    BY <1>2 DEF Numbers
  <2>1. /\ Kept' = Kept /\ rotations \in {0, Kept}
        /\ \A n \in Name : n > Kept => dir[n] = 0
    BY <1>2 DEF Inv, Numbers, Kept
  <2>2. Kept \in Nat
    BY <1>3, KeptType
  <2>3. \A v \in Session : pc'[v] = "rename" => v = w
    BY <1>15, <1>18
  <2>4. pc'[w] = "rename" => i' = Kept - 1
    BY <1>15, <2>1
  <2> QED
    BY <1>2, <2>1, <2>2, <2>3, <2>4
<1>21. LogSynced'
  <2> SUFFICES ASSUME strategy = "SYNCHRONOUS", ~strayed, dir[0] # 0,
                      NEW k \in synced[file] + 1..Len(content'[file])
               PROVE  content'[file][k] \notin answered
    BY <1>2, <1>15 DEF Inv, OpenIsLog, LogSynced
  <2>1. file = dir[0]
    BY <1>2 DEF Inv, OpenIsLog
  <2>2. synced[file] \in Nat
    <3>1. synced \in Seq(Nat) /\ file \in 1..Len(synced)
      BY <1>3, <1>5 DEF TypeOK, Shapes
    <3> QED
      BY <3>1
  <2>3. k \in synced[file] + 1..Len(content[file]) + 1
    BY <1>5, <1>6, <1>7
  <2>4. CASE k = Len(content[file]) + 1
    <3>1. content'[file][k] = part
      BY <1>5, <1>6, <1>7, <2>4
    <3> QED
      BY <1>3, <1>4, <3>1 DEF Shapes
  <2>5. CASE k # Len(content[file]) + 1
    <3>1. k \in synced[file] + 1..Len(content[file])
          /\ k \in 1..Len(content[file])
      BY <1>6, <2>2, <2>3, <2>5
    <3>2. content'[file][k] = content[file][k]
      BY <1>5, <1>6, <1>7, <3>1
    <3> QED
      BY <2>1, <3>1, <3>2 DEF Inv, LogSynced
  <2> QED
    BY <2>4, <2>5
<1> QED
  BY <1>9, <1>10, <1>11, <1>12, <1>13, <1>14, <1>16, <1>17, <1>19, <1>20,
     <1>21 DEF Inv

(***************************************************************************)
(* The theorems.                                                           *)
(***************************************************************************)

LEMMA InitInv == Init => Inv
<1> SUFFICES ASSUME Init PROVE Inv
  OBVIOUS
<1>1. /\ <<>> \in Seq(Seq(Int)) /\ <<>> \in Seq(Nat) /\ <<>> \in Seq(Int)
      /\ Len(<<>>) = 0
  OBVIOUS
<1>2. TypeOK
  <2>1. 0 \in Name /\ 0 \in 0..0 /\ 0 \in 0..MaxRecords /\ 0 \in Nat
    BY FilesAssumption, NameFacts
  <2> QED
    BY <1>1, <2>1 DEF Init, TypeOK
<1>3. Shapes
  <2>1. 0 \in 0..0 /\ 0 \in Nat
    OBVIOUS
  <2> QED
    BY <1>1, <2>1 DEF Init, Shapes
<1>4. Inside /\ HalfIsLast /\ OpenIsLog /\ OneName /\ LogSynced
  BY NameFacts DEF Init, Inside, HalfIsLast, OpenIsLog, OneName, LogSynced
<1>5. Parts /\ RecordsInOneFile
  <2>1. 1..Len(content) = {}
    BY <1>1 DEF Init
  <2> QED
    BY <2>1 DEF Parts, RecordsInOneFile
<1>6. Numbers
  BY DEF Init, Numbers
<1>7. Readable
  <2>1. \A n \in Name : Read(n) = <<>>
    BY DEF Init, Read
  <2>2. Place = {}
    BY <1>1, <2>1, PlaceFacts
  <2> QED
    BY <2>2 DEF Readable, ReadInOrder, NothingMissing
<1> QED
  BY <1>2, <1>3, <1>4, <1>5, <1>6, <1>7 DEF Inv

LEMMA NextInv ==
  ASSUME Inv, [Next]_vars
  PROVE  Inv'
<1>1. ASSUME NEW w \in Session,
             \/ logger_write(w) \/ logger_sync(w)
             \/ RenameOlder(w) \/ RenameLog(w) \/ CloseFails(w)
             \/ OpenLog(w)
      PROVE  Inv'
  BY <1>1, LoggerWriteInv, LoggerSyncInv, RenameOlderInv, RenameLogInv,
     OpenLogInv
<1>2. CASE logger_reopen \/ logger_open
  BY <1>2, LoggerReopenInv, LoggerOpenInv
<1>3. CASE audit_handler_file_set_option
  BY <1>3, SetOptionInv
<1>4. CASE Kill \/ logger_close
  BY <1>4, CloseInv
<1>5. CASE UNCHANGED vars
  BY <1>5, StutterInv
<1> QED
  BY <1>1, <1>2, <1>3, <1>4, <1>5 DEF Next

(* Every reachable state satisfies the inductive invariant. *)
THEOREM FilesInvariant == Spec => []Inv
<1>1. Init => Inv
  BY InitInv
<1>2. Inv /\ [Next]_vars => Inv'
  BY NextInv
<1> QED
  BY <1>1, <1>2, PTL DEF Spec

(* The variables of the logger keep their types: a rotation uses only      *)
(* names of files, and no option makes it start without one to rotate to.  *)
THEOREM FilesTypeOK == Spec => []TypeOK
<1>1. Inv => TypeOK
  BY DEF Inv
<1> QED
  BY <1>1, FilesInvariant, PTL

(* The files hold the newest records, each once, whole in one file and in  *)
(* the order of logger_write, at every step of do_rotate, when one of its  *)
(* calls fails, and when the server is killed anywhere and restarted.      *)
THEOREM FilesKeepTheNewest == Spec => []NewestKept
<1>1. Inv => NewestKept
  BY DEF Inv, Readable, NewestKept
<1> QED
  BY <1>1, FilesInvariant, PTL

(* With SYNCHRONOUS a record in the current log whose write and sync have  *)
(* succeeded is on disk, though logger_sync does not have the mutex.       *)
THEOREM FilesSynced == Spec => []SyncedUnlessRotated
<1>1. Inv => SyncedUnlessRotated
  BY DEF Inv, OpenIsLog, LogSynced, SyncedUnlessRotated
<1> QED
  BY <1>1, FilesInvariant, PTL

============================================================================
