---------------------------- MODULE RWLockProofs ----------------------------
(***************************************************************************)
(* Proofs about RWLock for any number of threads of either priority.       *)
(* IndInv is the inductive invariant.  LockInv says where a thread is, who *)
(* has the lock and what lock_word and the two fields that name the writer *)
(* say of it.  WakeInv says that nobody who has tried in vain is forgotten *)
(* (Woken): somebody else has the lock, is about to set the event, or is a *)
(* thread of higher priority that will itself come by and unlock.          *)
(*                                                                         *)
(* The module goes from what one step does to LockInv, over the counters,  *)
(* the cells and the flags, to Woken, and ends with the theorems.          *)
(***************************************************************************)
EXTENDS RWLock, FiniteSetTheorems, TLAPS

Readers == {t \in Thread : held[t] = -1}
Writers == {t \in Thread : held[t] > 0 \/ next_writer(t)}
again(t) == IF held[t] < 2 THEN 0 ELSE X_LOCK_DECR + held[t] - 2

(* The types that do not depend on what the numbers count. *)
BaseType ==
  /\ lock_word \in Int
  /\ recursive \in BOOLEAN /\ writer_thread \in Thread
  /\ waiters \in BOOLEAN /\ high_priority_wait_ex_waiter \in BOOLEAN
  /\ high_priority_s_waiters \in Int /\ high_priority_x_waiters \in Int
  /\ is_set \in [Event -> BOOLEAN]
  /\ cell \in [Thread -> Event \cup {NoEvent}]
  /\ changed \in [Thread -> BOOLEAN]
  /\ pc \in [Thread -> Label] /\ mode \in [Thread -> {"S", "X", "N"}]
  /\ held \in [Thread -> -1..MaxDepth]
  /\ waiting \subseteq Thread
  /\ requests \in 0..MaxRequests /\ monitored \in 0..MaxMonitor

Asking == {"check", "try", "relock", "reserve", "announce", "check_again",
           "try_again", "sleep", "woken"}
Releasing == {"x_unlock", "x_waiters", "s_waiters", "waiters", "reset",
              "set_event", "set_wait_ex", "set_high_s", "set_high_x"}

(* What a thread asks for and has, by where it is. *)
Placed(t) ==
  /\ next_writer(t) => held[t] = 0 /\ mode[t] # "S"
  /\ pc[t] \in Asking =>
       /\ mode[t] = "S" => held[t] = 0
       /\ held[t] \in 0..MaxDepth - 1
  /\ pc[t] = "relock" => mode[t] # "S"
  /\ pc[t] = "flag" => high(t)
  /\ pc[t] = "check_again" => mode[t] = "S"
  /\ pc[t] = "sleep" => held[t] = 0
  /\ pc[t] = "got" => IF mode[t] = "S" THEN held[t] = -1 ELSE held[t] > 0
  /\ pc[t] = "x_unlock" => held[t] > 0
  /\ mode[t] = "N" => pc[t] \notin (Asking \ {"try", "relock"}) \cup {"got"}

(* Who has announced itself, by where it is. *)
Announced(t) ==
  /\ pc[t] \in {"idle", "check", "try", "reserve", "announce"} \cup Releasing
       => t \notin waiting
  /\ pc[t] \in {"check_again", "try_again", "sleep", "woken", "got"}
       => t \in waiting
  /\ t \in waiting => mode[t] # "N"

Local == \A t \in Thread : Placed(t) /\ Announced(t)

(* A writer is the only one. *)
OneWriter ==
  /\ \A t, u \in Writers : t = u
  /\ \A t \in Thread : held[t] > 0 => Readers = {}

(* lock_word counts. *)
Word ==
  /\ \A t \in Writers : lock_word = -Cardinality(Readers) - again(t)
  /\ Writers = {} => lock_word = X_LOCK_DECR - Cardinality(Readers)
  /\ \A t \in Thread :
       pc[t] = "x_locked" \/ (next_writer(t) /\ mode[t] = "N")
         => lock_word = 0

(* The two fields that say whose lock it is. *)
Owner ==
  /\ WriterKnown
  /\ \A t \in Thread :
       /\ pc[t] = "set_recursive" => writer_thread = t
       /\ next_writer(t) /\ pc[t] \notin {"set_writer", "set_recursive"}
            => writer_thread = t /\ recursive
       /\ held[t] > 0 => /\ writer_thread = t
                         /\ recursive \/ (pc[t] = "x_unlock" /\ held[t] = 1)
       /\ pc[t] = "x_unlock" /\ held[t] = 1 => ~recursive

LockInv == BaseType /\ Local /\ OneWriter /\ Word /\ Owner

(* The counters of waiters with high priority. *)
HighS == {t \in waiting : event_of(t) = "high_s"}
HighX == {t \in waiting : event_of(t) = "high_x"}
Counters == /\ high_priority_s_waiters = Cardinality(HighS)
            /\ high_priority_x_waiters = Cardinality(HighX)

(* A thread that has tried in vain since it announced itself. *)
Failed(t) == t \in waiting /\ pc[t] \in {"relock", "sleep"}

(* An event that is set has been noticed by the cells that wait for it. *)
Cells ==
  \A t \in Thread :
    /\ cell[t] # NoEvent /\ is_set[cell[t]] => changed[t]
    /\ \/ pc[t] \in {"announce", "check_again", "try_again", "sleep"}
       \/ Failed(t)
       => cell[t] = event_of(t)
    /\ pc[t] \in {"readers_again", "sleep_ex"} => cell[t] = "wait_ex"

At(S) == \E u \in Thread : pc[u] \in S

(* The next writer sleeps while there are readers, or is to be woken. *)
NextWriterWoken ==
  \A t \in Thread :
    pc[t] = "sleep_ex" => changed[t] \/ readers_in \/ At({"set_wait_ex"})

(* The waiter flag is set, or its last reset is followed by the event. *)
FlagKept ==
  \A t \in Thread :
    /\ t \in waiting /\ ~high(t) /\ ~changed[t]
    /\ pc[t] \in {"check_again", "try_again", "relock", "sleep"}
    => waiters \/ At({"set_event"})

(* A thread of high priority that will try (again) to get the lock. *)
Tries(v, m) ==
  /\ high(v) /\ mode[v] = m
  /\ \/ pc[v] \in Asking \ {"sleep"}
     \/ pc[v] = "sleep" /\ changed[v]

(* Writers of high priority are about to be woken, and there are some. *)
WakesX == At({"set_high_x"}) /\ HighX # {}
WakesS == At({"set_high_s"}) /\ HighS # {}

(* Who can be counted on to wake a writer of high priority, *)
LiveX == Writers # {} \/ At({"x_waiters", "set_high_x"})
(* a reader of high priority, *)
LiveS == \/ Writers # {} \/ At({"x_waiters", "s_waiters", "set_high_s"})
         \/ WakesX \/ \E v \in Thread : Tries(v, "X")
(* and everybody else. *)
LiveL == \/ Writers # {} \/ Readers # {}
         \/ At({"x_waiters", "s_waiters", "waiters", "reset", "set_event"})
         \/ WakesX \/ WakesS
         \/ \E v \in Thread : Tries(v, "X") \/ Tries(v, "S")

Woken ==
  \A t \in Thread :
    Failed(t) /\ ~changed[t] =>
      /\ event_of(t) = "high_x" => LiveX
      /\ event_of(t) = "high_s" => LiveS
      /\ event_of(t) = "event" => LiveL

(* The flag of a next writer with high priority. *)
FlagWaits ==
  high_priority_wait_ex_waiter =>
    \E t \in Thread : high(t) /\ next_writer(t)

WakeInv == Counters /\ Cells /\ NextWriterWoken /\ FlagKept /\ Woken
           /\ FlagWaits

IndInv == LockInv /\ WakeInv

(* A step that is not the error monitor's. *)
ThreadStep(t) == Request(t) \/ Step(t) \/ Unlock(t)

(* SetEvent, for one event. *)
Sets(t, e) ==
  /\ \/ e = "event" /\ pc[t] = "set_event"
     \/ e = "wait_ex" /\ pc[t] = "set_wait_ex"
     \/ e = "high_s" /\ pc[t] = "set_high_s"
     \/ e = "high_x" /\ pc[t] = "set_high_x"
  /\ os_event_set(e) /\ Goto(t, "idle")
  /\ UNCHANGED <<lock_word, owner, announced, mode, held, waiting, counts>>

(* What a step of t leaves to the others: they are where they were, *)
Frame(t) ==
  \A u \in Thread \ {t} :
    /\ pc'[u] = pc[u] /\ mode'[u] = mode[u]
    /\ changed[u] => changed'[u]
(* somebody has the lock, or looks for waiters, *)
LockKept(t) ==
  /\ Writers # {} => Writers' # {} \/ pc'[t] = "x_waiters"
  /\ Readers # {} => \/ Readers' # {} \/ Writers' # {}
                     \/ pc'[t] = "waiters"
(* t still tries, has it now or has tried in vain, *)
TriesKept(t) ==
  /\ Tries(t, "X") => \/ Tries(t, "X")' \/ Writers' # {}
                      \/ /\ Failed(t) /\ ~changed[t]
                         /\ event_of(t) = "high_x" /\ HighX' # {}
  /\ Tries(t, "S") => Tries(t, "S")' \/ Readers' # {} \/ Writers' # {}
(* and who is not announced any more tries, or has it. *)
HighKept(t) ==
  /\ HighX # {} => HighX' # {} \/ Tries(t, "X")' \/ Writers' # {}
  /\ HighS # {} => \/ HighS' # {} \/ Tries(t, "S")'
                   \/ Readers' # {} \/ Writers' # {}
(* Only the last try makes a thread fail. *)
FailedKept(t) ==
  \A u \in Thread :
    Failed(u)' /\ ~changed'[u] =>
      \/ Failed(u) /\ ~changed[u] /\ event_of(u)' = event_of(u)
      \/ u = t /\ pc[t] \in {"check_again", "try_again"}

USE RWLockAssumption

(* What lock_word says, by LockInv. *)
LEMMA WordFacts ==
  ASSUME LockInv
  PROVE  /\ IsFiniteSet(Readers) /\ Cardinality(Readers) \in Nat
         /\ Cardinality(Readers) < X_LOCK_DECR
         /\ Cardinality(Readers) = 0 <=> Readers = {}
         /\ lock_word > 0 <=> Writers = {}
         /\ lock_word = X_LOCK_DECR => Readers = {}
         /\ \A t \in Writers :
              held[t] < 2 /\ lock_word >= 0 => Readers = {} /\ lock_word = 0
         /\ \A t \in Thread : held[t] > 0 => lock_word = -again(t)
         /\ X_LOCK_DECR > 1
<1>1. Readers \subseteq Thread
  BY DEF Readers
<1>2. /\ IsFiniteSet(Readers) /\ Cardinality(Readers) \in Nat
      /\ Cardinality(Thread) \in Nat
      /\ Cardinality(Readers) <= Cardinality(Thread)
  BY <1>1, FS_Subset, FS_CardinalityType
<1>3. Cardinality(Readers) = 0 <=> Readers = {}
  BY <1>2, FS_EmptySet
<1>4. Cardinality(Thread) > 0
  <2>1. Thread # {}
    BY DEF LockInv, BaseType
  <2> QED BY <2>1, <1>2, FS_EmptySet
<1>5. \A t \in Thread : again(t) \in Nat
  BY <1>2, <1>4 DEF again, LockInv, BaseType
<1>6. Writers # {} => lock_word <= 0
  BY <1>2, <1>5 DEF LockInv, Word, Writers
<1>7. Writers = {} => lock_word > 0
  BY <1>2 DEF LockInv, Word
<1>8. lock_word > 0 <=> Writers = {}
  BY <1>6, <1>7 DEF LockInv, BaseType
<1>9. lock_word = X_LOCK_DECR => Readers = {}
  BY <1>2, <1>3, <1>8, <1>4 DEF LockInv, Word
<1>10. ASSUME NEW t \in Writers, held[t] < 2, lock_word >= 0
       PROVE  Readers = {} /\ lock_word = 0
  BY <1>10, <1>2, <1>3 DEF LockInv, Word, again
<1>11. ASSUME NEW t \in Thread, held[t] > 0
       PROVE  lock_word = -again(t)
  BY <1>11, <1>2, <1>3, <1>5 DEF LockInv, Word, OneWriter, Writers
<1> QED BY <1>2, <1>3, <1>4, <1>8, <1>9, <1>10, <1>11

(* A reader comes in, *)
LEMMA ReaderIn ==
  ASSUME LockInv, NEW t \in Thread, held[t] = 0,
         held' = [held EXCEPT ![t] = -1]
  PROVE  Cardinality(Readers') = Cardinality(Readers) + 1
<1>1. Readers' = Readers \cup {t} /\ t \notin Readers
  BY DEF Readers, LockInv, BaseType
<1> QED BY <1>1, WordFacts, FS_AddElement

(* and leaves. *)
LEMMA ReaderOut ==
  ASSUME LockInv, NEW t \in Thread, held[t] = -1,
         held' = [held EXCEPT ![t] = 0]
  PROVE  Cardinality(Readers') = Cardinality(Readers) - 1
<1>1. Readers' = Readers \ {t} /\ t \in Readers
  BY DEF Readers, LockInv, BaseType
<1> QED BY <1>1, WordFacts, FS_RemoveElement

(* The types, when a thread withdraws. *)
LEMMA BaseWithdraw ==
  ASSUME LockInv, NEW t \in Thread, Withdraw(t)
  PROVE  BaseType'
<1>1. /\ withdrawn(t, "high_s") \in Int
      /\ withdrawn(t, "high_x") \in Int
  BY DEF withdrawn
<1>2. /\ high_priority_s_waiters' \in Int
      /\ high_priority_x_waiters' \in Int
      /\ waiting' \subseteq Thread
  BY <1>1 DEF Withdraw, LockInv, BaseType
<1>3. /\ is_set' \in [Event -> BOOLEAN]
      /\ cell' \in [Thread -> Event \cup {NoEvent}]
      /\ changed' \in [Thread -> BOOLEAN]
  BY DEF Withdraw, LockInv, BaseType, free_cell, events
<1>4. pc' \in [Thread -> Label]
  BY DEF Withdraw, LockInv, BaseType, Goto, Label
<1> QED BY <1>2, <1>3, <1>4 DEF Withdraw, LockInv, BaseType, owner, counts

(* A step of a thread keeps the types. *)
LEMMA BaseStep ==
  ASSUME LockInv, NEW t \in Thread, ThreadStep(t)
  PROVE  BaseType'
<1> USE DEF LockInv, BaseType, Local, Placed, Asking, Event, NoEvent, Label,
   set_label, owner, announced, events, counts
<1>1. CASE Request(t)
  BY <1>1 DEF Request, Goto
<1>2. CASE Check(t)
  BY <1>2 DEF Check, Goto, higher_prio_waiters_exist
<1>3. CASE Try(t)
  BY <1>3 DEF Try, Goto, s_lock_low, x_lock_low, x_lock_nowait, can_decr
<1>4. CASE Relock(t)
  BY <1>4 DEF Relock, Goto, done, relocked_word
<1>5. CASE Reserve(t)
  BY <1>5 DEF Reserve, Goto, reserve_cell, event_of
<1>6. CASE Announce(t)
  BY <1>6 DEF Announce, Goto, event_of
<1>7. CASE CheckAgain(t)
  BY <1>7 DEF CheckAgain, Goto, higher_prio_waiters_exist
<1>8. CASE TryAgain(t)
  BY <1>8 DEF TryAgain, Goto, s_lock_low, x_lock_low, can_decr
<1>9. CASE Sleep(t)
  BY <1>9 DEF Sleep, Goto, free_cell
<1>10. CASE Withdraw(t)
  BY <1>10, BaseWithdraw
<1>11. CASE set_writer_id(t)
  BY <1>11 DEF set_writer_id, Goto
<1>12. CASE FlagWaitEx(t)
  BY <1>12 DEF FlagWaitEx, Goto
<1>13. CASE x_lock_wait(t)
  <2>1. CASE UNCHANGED events
    BY <1>13, <2>1 DEF x_lock_wait, Goto, Label, events, owner, announced,
       counts, LockInv, BaseType
  <2>2. CASE free_cell(t)
    BY <1>13, <2>2 DEF x_lock_wait, Goto, Label, free_cell, owner, announced,
       counts, LockInv, BaseType
  <2>3. CASE reserve_cell(t, "wait_ex")
    BY <1>13, <2>3 DEF x_lock_wait, Goto, Label, reserve_cell, Event, owner,
       announced, counts, LockInv, BaseType
  <2> QED BY <1>13, <2>1, <2>2, <2>3 DEF x_lock_wait
<1>14. CASE XLocked(t)
  BY <1>14 DEF XLocked, Goto, done
<1>15. CASE x_unlock(t)
  BY <1>15 DEF x_unlock, Goto, x_lock_incr
<1>16. CASE FindWaiters(t)
  BY <1>16 DEF FindWaiters, Goto
<1>17. CASE ResetFlag(t)
  BY <1>17 DEF ResetFlag, Goto
<1>18. CASE SetEvent(t)
  BY <1>18 DEF SetEvent, Goto, os_event_set
<1>19. CASE s_unlock(t)
  BY <1>19 DEF s_unlock, Goto, s_wakes
<1>20. CASE x_prepare_unlock(t)
  BY <1>20 DEF x_prepare_unlock, Goto
<1> QED BY <1>1, <1>2, <1>3, <1>4, <1>5, <1>6, <1>7, <1>8, <1>9, <1>10, <1>11,
   <1>12, <1>13, <1>14, <1>15, <1>16, <1>17, <1>18, <1>19, <1>20 DEF
   ThreadStep, Step, Unlock

(* Where a thread is still tells what it has and asks for. *)
LEMMA LocalStep ==
  ASSUME LockInv, NEW t \in Thread, ThreadStep(t)
  PROVE  Local'
<1> USE DEF LockInv, BaseType, Local, Placed, Announced, Asking, Releasing,
   Label, next_writer, set_label, Event, Owner, WriterKnown, owner, announced,
   events, counts
<1>1. CASE Request(t)
  BY <1>1 DEF Request, Goto
<1>2. CASE Check(t)
  BY <1>2 DEF Check, Goto, higher_prio_waiters_exist
<1>3. CASE Try(t)
  BY <1>3, WordFacts DEF Try, Goto, s_lock_low, x_lock_low, x_lock_nowait,
     can_decr, Writers
<1>4. CASE Relock(t)
  BY <1>4 DEF Relock, Goto, done, relocked_word
<1>5. CASE Reserve(t)
  BY <1>5 DEF Reserve, Goto, reserve_cell, event_of
<1>6. CASE Announce(t)
  BY <1>6 DEF Announce, Goto, event_of
<1>7. CASE CheckAgain(t)
  BY <1>7 DEF CheckAgain, Goto, higher_prio_waiters_exist
<1>8. CASE TryAgain(t)
  BY <1>8, WordFacts DEF TryAgain, Goto, s_lock_low, x_lock_low, can_decr,
     Writers
<1>9. CASE Sleep(t)
  BY <1>9 DEF Sleep, Goto, free_cell
<1>10. CASE Withdraw(t)
  BY <1>10 DEF Withdraw, Goto, free_cell, withdrawn, event_of
<1>11. CASE set_writer_id(t)
  BY <1>11 DEF set_writer_id, Goto
<1>12. CASE FlagWaitEx(t)
  BY <1>12 DEF FlagWaitEx, Goto
<1>13. CASE x_lock_wait(t)
  BY <1>13 DEF x_lock_wait, Goto, reserve_cell, free_cell, readers_in
<1>14. CASE XLocked(t)
  BY <1>14 DEF XLocked, Goto, done
<1>15. CASE x_unlock(t)
  BY <1>15 DEF x_unlock, Goto, x_lock_incr
<1>16. CASE FindWaiters(t)
  BY <1>16 DEF FindWaiters, Goto
<1>17. CASE ResetFlag(t)
  BY <1>17 DEF ResetFlag, Goto
<1>18. CASE SetEvent(t)
  BY <1>18 DEF SetEvent, Goto, os_event_set
<1>19. CASE s_unlock(t)
  BY <1>19 DEF s_unlock, Goto, s_wakes
<1>20. CASE x_prepare_unlock(t)
  BY <1>20 DEF x_prepare_unlock, Goto
<1> QED BY <1>1, <1>2, <1>3, <1>4, <1>5, <1>6, <1>7, <1>8, <1>9, <1>10, <1>11,
   <1>12, <1>13, <1>14, <1>15, <1>16, <1>17, <1>18, <1>19, <1>20 DEF
   ThreadStep, Step, Unlock

(* The two fields that name the writer stay right. *)
LEMMA OwnerStep ==
  ASSUME LockInv, NEW t \in Thread, ThreadStep(t)
  PROVE  Owner'
<1> USE DEF LockInv, BaseType, Local, Placed, Owner, WriterKnown, OneWriter,
   Word, again, Readers, Writers, next_writer, Asking, set_label, Event,
   owner, announced, events, counts
<1>1. CASE Request(t)
  BY <1>1, WordFacts DEF Request, Goto
<1>2. CASE Check(t)
  BY <1>2, WordFacts DEF Check, Goto, higher_prio_waiters_exist
<1>3. CASE Try(t)
  BY <1>3, WordFacts DEF Try, Goto, s_lock_low, x_lock_low, x_lock_nowait,
     can_decr
<1>4. CASE Relock(t)
  BY <1>4, WordFacts DEF Relock, Goto, done, relocked_word
<1>5. CASE Reserve(t)
  BY <1>5, WordFacts DEF Reserve, Goto, reserve_cell, event_of
<1>6. CASE Announce(t)
  BY <1>6, WordFacts DEF Announce, Goto, event_of
<1>7. CASE CheckAgain(t)
  BY <1>7, WordFacts DEF CheckAgain, Goto, higher_prio_waiters_exist
<1>8. CASE TryAgain(t)
  BY <1>8, WordFacts DEF TryAgain, Goto, s_lock_low, x_lock_low, can_decr
<1>9. CASE Sleep(t)
  BY <1>9, WordFacts DEF Sleep, Goto, free_cell
<1>10. CASE Withdraw(t)
  BY <1>10, WordFacts DEF Withdraw, Goto, free_cell, withdrawn, event_of
<1>11. CASE set_writer_id(t)
  BY <1>11, WordFacts DEF set_writer_id, Goto
<1>12. CASE FlagWaitEx(t)
  BY <1>12, WordFacts DEF FlagWaitEx, Goto
<1>13. CASE x_lock_wait(t)
  BY <1>13, WordFacts DEF x_lock_wait, Goto, reserve_cell, free_cell,
     readers_in
<1>14. CASE XLocked(t)
  BY <1>14, WordFacts DEF XLocked, Goto, done
<1>15. CASE x_unlock(t)
  BY <1>15, WordFacts DEF x_unlock, Goto, x_lock_incr
<1>16. CASE FindWaiters(t)
  BY <1>16, WordFacts DEF FindWaiters, Goto
<1>17. CASE ResetFlag(t)
  BY <1>17, WordFacts DEF ResetFlag, Goto
<1>18. CASE SetEvent(t)
  BY <1>18, WordFacts DEF SetEvent, Goto, os_event_set
<1>19. CASE s_unlock(t)
  BY <1>19, WordFacts DEF s_unlock, Goto, s_wakes
<1>20. CASE x_prepare_unlock(t)
  <2>1. lock_word = 0 <=> held[t] = 1
    BY <1>20, WordFacts DEF x_prepare_unlock, again, LockInv, BaseType
  <2>2. t \in Writers /\ held[t] > 0
    BY <1>20 DEF Writers, x_prepare_unlock
  <2>3. writer_thread = t /\ recursive
    BY <1>20, <2>2 DEF x_prepare_unlock, LockInv, Owner
  <2>4. \A u \in Thread : u # t => ~(held[u] > 0) /\ ~next_writer(u)
    BY <2>2 DEF LockInv, OneWriter, Writers
  <2>5. /\ pc'[t] = "x_unlock"
        /\ \A u \in Thread : u # t => pc'[u] = pc[u]
    BY <1>20 DEF x_prepare_unlock, Goto, LockInv, BaseType
  <2>6. /\ writer_thread' = writer_thread /\ held' = held
        /\ recursive' <=> held[t] # 1
    BY <1>20, <2>1, <2>3 DEF x_prepare_unlock
  <2> QED
    BY <2>2, <2>3, <2>4, <2>5, <2>6
    DEF Owner, WriterKnown, next_writer, LockInv, BaseType
<1> QED BY <1>1, <1>2, <1>3, <1>4, <1>5, <1>6, <1>7, <1>8, <1>9, <1>10, <1>11,
   <1>12, <1>13, <1>14, <1>15, <1>16, <1>17, <1>18, <1>19, <1>20 DEF
   ThreadStep, Step, Unlock

(* rw_lock_s_lock_low with success: one reader more, and no writer. *)
LEMMA LockS ==
  ASSUME LockInv, NEW t \in Thread, can_decr, held[t] = 0,
         lock_word' = lock_word - 1, held' = [held EXCEPT ![t] = -1],
         pc' \in [Thread -> Label], mode' = mode,
         \A u \in Thread : next_writer(u)' <=> next_writer(u),
         \A u \in Thread : pc'[u] = "x_locked" => pc[u] = "x_locked"
  PROVE  OneWriter' /\ Word'
<1>1. Writers = {}
  BY WordFacts DEF can_decr
<1>2. Writers' = {} /\ \A u \in Thread : ~(held'[u] > 0)
  BY <1>1 DEF Writers, LockInv, BaseType
<1>3. Cardinality(Readers)' = Cardinality(Readers) + 1
  BY ReaderIn
<1>4. OneWriter'
  BY <1>2 DEF OneWriter
<1>5. \A u \in Thread : ~next_writer(u) /\ pc[u] # "x_locked"
  BY <1>1 DEF Writers, next_writer
<1>6. Word'
  BY <1>1, <1>2, <1>3, <1>5, WordFacts DEF Word, LockInv
<1> QED BY <1>4, <1>6

(* rw_lock_x_lock_low with success: t is the next writer, for nowait only  *)
(* when there are no readers.                                              *)
LEMMA LockX ==
  ASSUME LockInv, NEW t \in Thread, can_decr, held[t] = 0,
         lock_word' = lock_word - X_LOCK_DECR, held' = held,
         pc' = [pc EXCEPT ![t] = "set_writer"], mode' = mode,
         mode[t] = "N" => Readers = {}
  PROVE  OneWriter' /\ Word'
<1>1. Writers = {}
  BY WordFacts DEF can_decr
<1>2. Writers' = {t} /\ \A u \in Thread : ~(held'[u] > 0)
  BY <1>1 DEF Writers, LockInv, BaseType, next_writer
<1>3. Readers' = Readers
  BY DEF Readers
<1>4. OneWriter'
  BY <1>2 DEF OneWriter
<1>5. lock_word' = -Cardinality(Readers) /\ again(t)' = 0
  BY <1>1, WordFacts DEF Word, LockInv, again
<1>6. \A u \in Thread : pc'[u] # "x_locked" /\ (next_writer(u)' => u = t)
  BY <1>1 DEF Writers, next_writer, LockInv, BaseType
<1>7. Word'
  BY <1>2, <1>3, <1>5, <1>6, WordFacts DEF Word
<1> QED BY <1>4, <1>7

(* Nobody gets the lock and nobody leaves it. *)
LEMMA LockSame ==
  ASSUME LockInv, lock_word' = lock_word, held' = held,
         \A u \in Thread :
           /\ next_writer(u)' <=> next_writer(u)
           /\ next_writer(u) => mode'[u] = mode[u]
           /\ pc'[u] = "x_locked" => pc[u] = "x_locked" \/ lock_word = 0
  PROVE  OneWriter' /\ Word'
<1>1. /\ Writers' = Writers /\ Readers' = Readers
      /\ \A u \in Thread : again(u)' = again(u)
  BY DEF Writers, Readers, again
<1>2. OneWriter'
  BY <1>1 DEF OneWriter, LockInv
<1>3. Word'
  BY <1>1 DEF Word, LockInv, Writers
<1> QED BY <1>2, <1>3

(* The first try and the one after the announcement. *)
LEMMA LockTry ==
  ASSUME LockInv, NEW t \in Thread, Try(t) \/ TryAgain(t)
  PROVE  OneWriter' /\ Word'
<1>1. /\ pc[t] \in {"try", "try_again"} /\ mode' = mode
      /\ pc \in [Thread -> Label] /\ held[t] >= 0 /\ held[t] \in Int
      /\ mode[t] = "S" => held[t] = 0
  BY DEF Try, TryAgain, LockInv, BaseType, Local, Placed, Asking
<1>2. lock_word > 0 => held[t] = 0
  BY <1>1, WordFacts DEF Writers
<1>3. CASE s_lock_low(t, "idle", "reserve") \/ s_lock_low(t, "got", "sleep")
  <2>1. CASE can_decr
    BY <1>1, <1>3, <2>1, LockS DEF s_lock_low, Goto, next_writer, Label
  <2>2. CASE ~can_decr
    BY <1>1, <1>3, <2>2, LockSame DEF s_lock_low, Goto, next_writer
  <2> QED BY <2>1, <2>2
<1>4. CASE x_lock_low(t)
  <2>1. CASE can_decr
    BY <1>1, <1>2, <1>4, <2>1, LockX DEF x_lock_low, Goto, can_decr
  <2>2. CASE ~can_decr
    BY <1>1, <1>4, <2>2, LockSame DEF x_lock_low, Goto, next_writer
  <2> QED BY <2>1, <2>2
<1>5. CASE x_lock_nowait(t)
  <2>1. CASE lock_word = X_LOCK_DECR
    <3>1. can_decr /\ Readers = {} /\ lock_word' = lock_word - X_LOCK_DECR
      BY <1>5, <2>1, WordFacts DEF x_lock_nowait, can_decr
    <3> QED
      BY <1>1, <1>2, <1>5, <2>1, <3>1, LockX
      DEF x_lock_nowait, Goto, can_decr
  <2>2. CASE lock_word # X_LOCK_DECR
    BY <1>1, <1>5, <2>2, LockSame DEF x_lock_nowait, Goto, next_writer
  <2> QED BY <2>1, <2>2
<1> QED BY <1>3, <1>4, <1>5 DEF Try, TryAgain

(* A writer t that is alone, in terms of the next state. *)
LEMMA WordOfWriter ==
  ASSUME LockInv, NEW t \in Thread, Readers' = {},
         held' \in [Thread -> Int],
         \A u \in Thread : ~next_writer(u)' /\ pc'[u] # "x_locked",
         \/ Writers' = {t} /\ lock_word' = -again(t)'
         \/ Writers' = {} /\ lock_word' = X_LOCK_DECR
  PROVE  OneWriter' /\ Word'
<1>1. Cardinality(Readers)' = 0
  BY FS_EmptySet
<1>2. OneWriter'
  BY DEF OneWriter
<1>3. ASSUME Writers' = {t}, lock_word' = -again(t)' PROVE Word'
  <2>1. again(t)' \in Int
    BY DEF again
  <2>2. lock_word' = -0 - again(t)'
    BY <1>3, <2>1
  <2> QED BY <1>1, <1>3, <2>2 DEF Word
<1>4. ASSUME Writers' = {}, lock_word' = X_LOCK_DECR PROVE Word'
  BY <1>1, <1>4 DEF Word
<1> QED BY <1>2, <1>3, <1>4

(* A writer takes its lock again, or a thread finds that it is not its     *)
(* own.                                                                    *)
LEMMA LockRelock ==
  ASSUME LockInv, NEW t \in Thread, Relock(t)
  PROVE  OneWriter' /\ Word'
<1>1. /\ pc[t] = "relock" /\ mode' = mode /\ pc \in [Thread -> Label]
      /\ held \in [Thread -> -1..MaxDepth]
      /\ pc' = [pc EXCEPT ![t] = pc'[t]]
      /\ pc'[t] \in {"got", "idle", "sleep", "reserve"}
  BY DEF Relock, LockInv, BaseType, Goto, done
<1>2. \A u \in Thread : next_writer(u)' <=> next_writer(u)
  BY <1>1 DEF next_writer
<1>3. CASE recursive /\ writer_thread = t
  <2>1. held[t] > 0 /\ t \in Writers /\ Readers = {}
    BY <1>1, <1>3
    DEF LockInv, Owner, WriterKnown, next_writer, Writers, OneWriter
  <2>2. /\ held' = [held EXCEPT ![t] = held[t] + 1]
        /\ lock_word' = relocked_word
    BY <1>3 DEF Relock
  <2>3. Writers' = Writers /\ Readers' = Readers
    BY <1>1, <1>2, <2>1, <2>2 DEF Writers, Readers
  <2>4. lock_word' = -again(t)'
    BY <1>1, <2>1, <2>2, WordFacts DEF relocked_word, again
  <2>5. Writers = {t}
    BY <2>1 DEF OneWriter, LockInv
  <2>6. \A u \in Thread : ~next_writer(u)' /\ pc'[u] # "x_locked"
    BY <1>1, <1>2, <2>5 DEF next_writer, Writers
  <2>7. held' \in [Thread -> Int]
    BY <1>1, <2>2
  <2> QED BY <2>1, <2>3, <2>4, <2>5, <2>6, <2>7, WordOfWriter
<1>4. CASE ~(recursive /\ writer_thread = t)
  BY <1>1, <1>2, <1>4, LockSame DEF Relock
<1> QED BY <1>3, <1>4

(* The next writer finds no readers left and becomes the writer. *)
LEMMA LockXLocked ==
  ASSUME LockInv, NEW t \in Thread, XLocked(t)
  PROVE  OneWriter' /\ Word'
<1>1. /\ pc[t] = "x_locked" /\ mode' = mode /\ pc \in [Thread -> Label]
      /\ held \in [Thread -> -1..MaxDepth]
      /\ pc' = [pc EXCEPT ![t] = pc'[t]] /\ pc'[t] \in {"got", "idle"}
      /\ held' = [held EXCEPT ![t] = 1]
      /\ lock_word' = lock_word /\ lock_word = 0
      /\ held[t] = 0 /\ t \in Writers
  BY DEF XLocked, LockInv, BaseType, Goto, done, Local, Placed, next_writer,
     Word, Writers
<1>2. Readers = {} /\ Readers' = {} /\ Writers' = Writers
  BY <1>1, WordFacts DEF Readers, Writers, next_writer
<1>3. Writers = {t}
  BY <1>1 DEF OneWriter, LockInv
<1>4. again(t)' = 0 /\ held' \in [Thread -> Int]
  BY <1>1 DEF again
<1>5. \A u \in Thread : ~next_writer(u)' /\ pc'[u] # "x_locked"
  BY <1>1, <1>3 DEF next_writer, Writers
<1> QED BY <1>1, <1>2, <1>3, <1>4, <1>5, WordOfWriter

(* One x-lock less: with the last one the lock is free, and its owner goes *)
(* on to look for waiters.                                                 *)
LEMMA XUnlockFacts ==
  ASSUME LockInv, NEW t \in Thread, x_unlock(t)
  PROVE  /\ Readers' = {} /\ held' \in [Thread -> Int]
         /\ \A u \in Thread : ~next_writer(u)' /\ pc'[u] # "x_locked"
         /\ \/ Writers' = {t} /\ lock_word' = -again(t)'
            \/ /\ Writers' = {} /\ lock_word' = X_LOCK_DECR
               /\ pc'[t] = "x_waiters"
<1>1. /\ pc[t] = "x_unlock" /\ mode' = mode /\ pc \in [Thread -> Label]
      /\ held \in [Thread -> -1..MaxDepth]
      /\ pc' = [pc EXCEPT ![t] = pc'[t]] /\ pc'[t] \in {"x_waiters", "idle"}
      /\ held' = [held EXCEPT ![t] = held[t] - 1]
      /\ lock_word' = lock_word + x_lock_incr
      /\ lock_word' = X_LOCK_DECR => pc'[t] = "x_waiters"
      /\ held[t] > 0 /\ t \in Writers /\ Readers = {}
      /\ lock_word = -again(t)
  BY WordFacts DEF x_unlock, LockInv, BaseType, Goto, Local, Placed, Writers,
     OneWriter
<1>2. Readers' = {} /\ held' \in [Thread -> Int]
  BY <1>1 DEF Readers
<1>3. \A u \in Writers : u = t
  BY <1>1 DEF OneWriter, LockInv
<1>4. \A u \in Thread : ~next_writer(u)' /\ pc'[u] # "x_locked"
  BY <1>1, <1>3 DEF next_writer, Writers
<1>5. Writers' = IF held[t] = 1 THEN {} ELSE {t}
  BY <1>1, <1>3, <1>4 DEF Writers
<1>6. lock_word' = IF held[t] = 1 THEN X_LOCK_DECR ELSE -again(t)'
  BY <1>1, WordFacts DEF x_lock_incr, again
<1> QED BY <1>1, <1>2, <1>4, <1>5, <1>6

(* A reader leaves; there is no writer yet. *)
LEMMA LockSUnlock ==
  ASSUME LockInv, NEW t \in Thread, s_unlock(t)
  PROVE  OneWriter' /\ Word'
<1>1. /\ pc[t] = "idle" /\ mode' = mode /\ pc \in [Thread -> Label]
      /\ held \in [Thread -> -1..MaxDepth]
      /\ pc' = [pc EXCEPT ![t] = pc'[t]]
      /\ pc'[t] \in {"set_wait_ex", "waiters", "idle"}
      /\ held' = [held EXCEPT ![t] = 0] /\ lock_word' = lock_word + 1
      /\ held[t] = -1
  BY DEF s_unlock, LockInv, BaseType, Goto, s_wakes
<1>2. Cardinality(Readers)' = Cardinality(Readers) - 1 /\ t \in Readers
  BY <1>1, ReaderOut DEF Readers
<1>3. \A u \in Thread : next_writer(u)' <=> next_writer(u)
  BY <1>1 DEF next_writer
<1>4. \A u \in Thread : ~(held[u] > 0)
  BY <1>2 DEF LockInv, OneWriter
<1>5. Writers' = Writers /\ \A u \in Thread : ~(held'[u] > 0)
  BY <1>1, <1>3, <1>4 DEF Writers
<1>6. OneWriter'
  BY <1>5 DEF OneWriter, LockInv
<1>7. \A u \in Thread : again(u) = 0 /\ again(u)' = 0
  BY <1>1, <1>4, <1>5 DEF again, LockInv, BaseType
<1>8. \A u \in Thread :
        ~(pc[u] = "x_locked" \/ (next_writer(u) /\ mode[u] = "N"))
  <2> SUFFICES ASSUME NEW u \in Thread,
                 pc[u] = "x_locked" \/ (next_writer(u) /\ mode[u] = "N")
               PROVE FALSE
    OBVIOUS
  <2>1. u \in Writers /\ lock_word = 0 /\ held[u] < 2
    BY <1>4 DEF Writers, next_writer, LockInv, Word, BaseType
  <2> QED BY <2>1, <1>2, WordFacts DEF LockInv, BaseType
<1>9. Word'
  BY <1>1, <1>2, <1>3, <1>5, <1>7, <1>8, WordFacts
  DEF Word, LockInv, BaseType, Writers
<1> QED BY <1>6, <1>9

(* A step of a thread keeps one writer and what lock_word counts. *)
LEMMA LockStep ==
  ASSUME LockInv, NEW t \in Thread, ThreadStep(t)
  PROVE  OneWriter' /\ Word'
<1> USE DEF next_writer, LockInv, BaseType, Local, Placed, set_label, Event,
   Asking, owner, announced, events, counts
<1>1. CASE Request(t)
  BY <1>1, LockSame DEF Request, Goto
<1>2. CASE Check(t)
  BY <1>2, LockSame DEF Check, Goto, higher_prio_waiters_exist
<1>3. CASE Try(t)
  BY <1>3, LockTry
<1>4. CASE Relock(t)
  BY <1>4, LockRelock
<1>5. CASE Reserve(t)
  BY <1>5, LockSame DEF Reserve, Goto, reserve_cell, event_of
<1>6. CASE Announce(t)
  BY <1>6, LockSame DEF Announce, Goto, event_of
<1>7. CASE CheckAgain(t)
  BY <1>7, LockSame DEF CheckAgain, Goto, higher_prio_waiters_exist
<1>8. CASE TryAgain(t)
  BY <1>8, LockTry
<1>9. CASE Sleep(t)
  BY <1>9, LockSame DEF Sleep, Goto, free_cell
<1>10. CASE Withdraw(t)
  BY <1>10, LockSame DEF Withdraw, Goto, free_cell, withdrawn, event_of
<1>11. CASE set_writer_id(t)
  BY <1>11, LockSame DEF set_writer_id, Goto, Word
<1>12. CASE FlagWaitEx(t)
  BY <1>12, LockSame DEF FlagWaitEx, Goto
<1>13. CASE x_lock_wait(t)
  BY <1>13, LockSame, WordFacts DEF x_lock_wait, Goto, reserve_cell,
     free_cell, readers_in, Writers
<1>14. CASE XLocked(t)
  BY <1>14, LockXLocked
<1>15. CASE x_unlock(t)
  BY <1>15, XUnlockFacts, WordOfWriter
<1>16. CASE FindWaiters(t)
  BY <1>16, LockSame DEF FindWaiters, Goto
<1>17. CASE ResetFlag(t)
  BY <1>17, LockSame DEF ResetFlag, Goto
<1>18. CASE SetEvent(t)
  BY <1>18, LockSame DEF SetEvent, Goto, os_event_set
<1>19. CASE s_unlock(t)
  BY <1>19, LockSUnlock
<1>20. CASE x_prepare_unlock(t)
  BY <1>20, LockSame DEF x_prepare_unlock, Goto
<1> QED BY <1>1, <1>2, <1>3, <1>4, <1>5, <1>6, <1>7, <1>8, <1>9, <1>10, <1>11,
   <1>12, <1>13, <1>14, <1>15, <1>16, <1>17, <1>18, <1>19, <1>20 DEF
   ThreadStep, Step, Unlock

(* Which event is set, by where the thread is. *)
LEMMA SetEventSets ==
  ASSUME NEW t \in Thread, SetEvent(t)
  PROVE  \E e \in Event : Sets(t, e)
BY DEF SetEvent, Sets, Event, set_label

(* os_event_set, cell by cell. *)
LEMMA SetFacts ==
  ASSUME LockInv, NEW e \in Event, os_event_set(e)
  PROVE  /\ cell' = cell
         /\ \A f \in Event : is_set'[f] <=> is_set[f] \/ f = e
         /\ \A u \in Thread : changed'[u] <=>
              changed[u] \/ (cell[u] = e /\ ~is_set[e])
BY DEF os_event_set, LockInv, BaseType

(* The announced threads of high priority are finitely many. *)
LEMMA HighFinite ==
  ASSUME IndInv
  PROVE  /\ HighS \subseteq HighPriority /\ HighX \subseteq HighPriority
         /\ IsFiniteSet(HighS) /\ IsFiniteSet(HighX)
         /\ Cardinality(HighS) \in 0..Cardinality(HighPriority)
         /\ Cardinality(HighX) \in 0..Cardinality(HighPriority)
         /\ high_priority_s_waiters > 0 <=> HighS # {}
         /\ high_priority_x_waiters > 0 <=> HighX # {}
<1>1. HighS \subseteq HighPriority /\ HighX \subseteq HighPriority
  BY DEF HighS, HighX, event_of, high
<1>2. IsFiniteSet(HighPriority)
  BY FS_Subset
<1>3. /\ IsFiniteSet(HighS) /\ Cardinality(HighS) \in Nat
      /\ IsFiniteSet(HighX) /\ Cardinality(HighX) \in Nat
      /\ Cardinality(HighPriority) \in Nat
      /\ Cardinality(HighS) <= Cardinality(HighPriority)
      /\ Cardinality(HighX) <= Cardinality(HighPriority)
  BY <1>1, <1>2, FS_Subset, FS_CardinalityType
<1>4. /\ Cardinality(HighS) = 0 <=> HighS = {}
      /\ Cardinality(HighX) = 0 <=> HighX = {}
  BY <1>3, FS_EmptySet
<1> QED BY <1>1, <1>3, <1>4 DEF IndInv, WakeInv, Counters

(* A thread of high priority is counted when it announces itself, *)
LEMMA CountersAnnounce ==
  ASSUME IndInv, NEW t \in Thread, Announce(t)
  PROVE  Counters'
<1>0. /\ IsFiniteSet(HighS) /\ IsFiniteSet(HighX)
      /\ Cardinality(HighS) \in Nat /\ Cardinality(HighX) \in Nat
  BY HighFinite
<1>1. t \notin waiting /\ waiting' = waiting \cup {t} /\ mode' = mode
  BY DEF Announce, IndInv, LockInv, Local, Announced, Releasing
<1>2. /\ HighS' = IF event_of(t) = "high_s" THEN HighS \cup {t} ELSE HighS
      /\ HighX' = IF event_of(t) = "high_x" THEN HighX \cup {t} ELSE HighX
      /\ t \notin HighS /\ t \notin HighX
  BY <1>1 DEF HighS, HighX, event_of
<1>3. /\ Cardinality(HighS') = Cardinality(HighS)
                               + (IF event_of(t) = "high_s" THEN 1 ELSE 0)
      /\ Cardinality(HighX') = Cardinality(HighX)
                               + (IF event_of(t) = "high_x" THEN 1 ELSE 0)
  <2>1. t \notin HighS => Cardinality(HighS \cup {t}) = Cardinality(HighS) + 1
    BY <1>0, FS_AddElement
  <2>2. t \notin HighX => Cardinality(HighX \cup {t}) = Cardinality(HighX) + 1
    BY <1>0, FS_AddElement
  <2> QED BY <1>0, <1>2, <2>1, <2>2
<1> QED BY <1>3 DEF Announce, IndInv, WakeInv, Counters

(* and not any more when it withdraws. *)
LEMMA CountersWithdraw ==
  ASSUME IndInv, NEW t \in Thread, Withdraw(t)
  PROVE  Counters'
<1>0. /\ IsFiniteSet(HighS) /\ IsFiniteSet(HighX)
      /\ Cardinality(HighS) \in Nat /\ Cardinality(HighX) \in Nat
  BY HighFinite
<1>1. t \in waiting /\ waiting' = waiting \ {t} /\ mode' = mode
  BY DEF Withdraw, IndInv, LockInv, Local, Announced
<1>2. /\ HighS' = HighS \ {t} /\ (t \in HighS <=> event_of(t) = "high_s")
      /\ HighX' = HighX \ {t} /\ (t \in HighX <=> event_of(t) = "high_x")
  BY <1>1 DEF HighS, HighX, event_of
<1>3. /\ Cardinality(HighS') =
           Cardinality(HighS) - withdrawn(t, "high_s")
      /\ Cardinality(HighX') =
           Cardinality(HighX) - withdrawn(t, "high_x")
  <2>1. t \in HighS => Cardinality(HighS \ {t}) = Cardinality(HighS) - 1
    BY <1>0, FS_RemoveElement
  <2>2. t \in HighX => Cardinality(HighX \ {t}) = Cardinality(HighX) - 1
    BY <1>0, FS_RemoveElement
  <2>3. /\ t \notin HighS => HighS \ {t} = HighS
        /\ t \notin HighX => HighX \ {t} = HighX
    OBVIOUS
  <2> QED BY <1>0, <1>2, <2>1, <2>2, <2>3 DEF withdrawn
<1> QED BY <1>3 DEF Withdraw, IndInv, WakeInv, Counters

(* The counters of waiters with high priority stay right. *)
LEMMA CountersStep ==
  ASSUME IndInv, NEW t \in Thread, ThreadStep(t)
  PROVE  Counters'
<1> USE DEF IndInv, WakeInv, Counters, HighS, HighX, event_of, LockInv,
   BaseType, Local, Announced, owner, announced, events, counts
<1>1. CASE Request(t)
  <2>1. /\ t \notin waiting /\ waiting' = waiting
        /\ \A u \in Thread : u # t => mode'[u] = mode[u]
    BY <1>1 DEF Request, IndInv, LockInv, BaseType, Local, Announced
  <2>2. \A u \in waiting : event_of(u)' = event_of(u)
    BY <2>1 DEF event_of, IndInv, LockInv, BaseType
  <2>3. HighS' = HighS /\ HighX' = HighX
    BY <2>1, <2>2 DEF HighS, HighX
  <2> QED
    BY <1>1, <2>3 DEF Request, announced, IndInv, WakeInv, Counters
<1>2. CASE Check(t)
  BY <1>2 DEF Check, Goto, higher_prio_waiters_exist
<1>3. CASE Try(t)
  BY <1>3 DEF Try, Goto, s_lock_low, x_lock_low, x_lock_nowait, can_decr
<1>4. CASE Relock(t)
  BY <1>4 DEF Relock, Goto, done, relocked_word
<1>5. CASE Reserve(t)
  BY <1>5 DEF Reserve, Goto, reserve_cell, event_of
<1>6. CASE Announce(t)
  BY <1>6, CountersAnnounce
<1>7. CASE CheckAgain(t)
  BY <1>7 DEF CheckAgain, Goto, higher_prio_waiters_exist
<1>8. CASE TryAgain(t)
  BY <1>8 DEF TryAgain, Goto, s_lock_low, x_lock_low, can_decr
<1>9. CASE Sleep(t)
  BY <1>9 DEF Sleep, Goto, free_cell
<1>10. CASE Withdraw(t)
  BY <1>10, CountersWithdraw
<1>11. CASE set_writer_id(t)
  BY <1>11 DEF set_writer_id, Goto
<1>12. CASE FlagWaitEx(t)
  BY <1>12 DEF FlagWaitEx, Goto
<1>13. CASE x_lock_wait(t)
  BY <1>13 DEF x_lock_wait, Goto, reserve_cell, free_cell, readers_in
<1>14. CASE XLocked(t)
  BY <1>14 DEF XLocked, Goto, done
<1>15. CASE x_unlock(t)
  BY <1>15 DEF x_unlock, Goto, x_lock_incr
<1>16. CASE FindWaiters(t)
  BY <1>16 DEF FindWaiters, Goto
<1>17. CASE ResetFlag(t)
  BY <1>17 DEF ResetFlag, Goto
<1>18. CASE SetEvent(t)
  BY <1>18 DEF SetEvent, Goto, os_event_set
<1>19. CASE s_unlock(t)
  BY <1>19 DEF s_unlock, Goto, s_wakes
<1>20. CASE x_prepare_unlock(t)
  BY <1>20 DEF x_prepare_unlock, Goto
<1> QED BY <1>1, <1>2, <1>3, <1>4, <1>5, <1>6, <1>7, <1>8, <1>9, <1>10, <1>11,
   <1>12, <1>13, <1>14, <1>15, <1>16, <1>17, <1>18, <1>19, <1>20 DEF
   ThreadStep, Step, Unlock

(* A cell still names the event its thread is to wait for, and has       *)
(* noticed that it was set.                                                *)
LEMMA CellsStep ==
  ASSUME IndInv, NEW t \in Thread, ThreadStep(t)
  PROVE  Cells'
<1> USE DEF IndInv, WakeInv, Cells, Failed, event_of, LockInv, BaseType,
   Local, Placed, Announced, Asking, Releasing, Event, NoEvent, Label,
   set_label, next_writer, owner, announced, events, counts
<1>1. CASE Request(t)
  BY <1>1 DEF Request, Goto
<1>2. CASE Check(t)
  BY <1>2 DEF Check, Goto, higher_prio_waiters_exist
<1>3. CASE Try(t)
  BY <1>3 DEF Try, Goto, s_lock_low, x_lock_low, x_lock_nowait, can_decr
<1>4. CASE Relock(t)
  BY <1>4 DEF Relock, Goto, done, relocked_word
<1>5. CASE Reserve(t)
  BY <1>5 DEF Reserve, Goto, reserve_cell, event_of
<1>6. CASE Announce(t)
  BY <1>6 DEF Announce, Goto, event_of
<1>7. CASE CheckAgain(t)
  BY <1>7 DEF CheckAgain, Goto, higher_prio_waiters_exist
<1>8. CASE TryAgain(t)
  BY <1>8 DEF TryAgain, Goto, s_lock_low, x_lock_low, can_decr
<1>9. CASE Sleep(t)
  BY <1>9 DEF Sleep, Goto, free_cell
<1>10. CASE Withdraw(t)
  BY <1>10 DEF Withdraw, Goto, free_cell, withdrawn, event_of
<1>11. CASE set_writer_id(t)
  BY <1>11 DEF set_writer_id, Goto
<1>12. CASE FlagWaitEx(t)
  BY <1>12 DEF FlagWaitEx, Goto
<1>13. CASE x_lock_wait(t)
  BY <1>13 DEF x_lock_wait, Goto, reserve_cell, free_cell, readers_in
<1>14. CASE XLocked(t)
  BY <1>14 DEF XLocked, Goto, done
<1>15. CASE x_unlock(t)
  BY <1>15 DEF x_unlock, Goto, x_lock_incr
<1>16. CASE FindWaiters(t)
  BY <1>16 DEF FindWaiters, Goto
<1>17. CASE ResetFlag(t)
  BY <1>17 DEF ResetFlag, Goto
<1>18. CASE SetEvent(t)
  <2>1. PICK e \in Event : Sets(t, e)
    BY <1>18, SetEventSets
  <2>2. /\ cell' = cell
        /\ \A f \in Event : is_set'[f] <=> is_set[f] \/ f = e
        /\ \A u \in Thread : changed'[u] <=>
             changed[u] \/ (cell[u] = e /\ ~is_set[e])
    BY <2>1, SetFacts DEF Sets, IndInv
  <2>3. pc' = [pc EXCEPT ![t] = "idle"]
    BY <2>1 DEF Sets, Goto
  <2> QED BY <2>1, <2>2, <2>3 DEF Sets
<1>19. CASE s_unlock(t)
  BY <1>19 DEF s_unlock, Goto, s_wakes
<1>20. CASE x_prepare_unlock(t)
  BY <1>20 DEF x_prepare_unlock, Goto
<1> QED BY <1>1, <1>2, <1>3, <1>4, <1>5, <1>6, <1>7, <1>8, <1>9, <1>10, <1>11,
   <1>12, <1>13, <1>14, <1>15, <1>16, <1>17, <1>18, <1>19, <1>20 DEF
   ThreadStep, Step, Unlock

(* The next writer is woken when the last reader has left. *)
LEMMA NextWriterStep ==
  ASSUME IndInv, NEW t \in Thread, ThreadStep(t)
  PROVE  NextWriterWoken'
<1> USE DEF IndInv, WakeInv, NextWriterWoken, Cells, At, readers_in, LockInv,
   BaseType, Local, Placed, OneWriter, Writers, next_writer, Event, set_label,
   Label, owner, announced, events, counts
<1>1. CASE Request(t)
  BY <1>1 DEF Request, Goto
<1>2. CASE Check(t)
  BY <1>2 DEF Check, Goto, higher_prio_waiters_exist
<1>3. CASE Try(t)
  BY <1>3, WordFacts DEF Try, Goto, s_lock_low, x_lock_low, x_lock_nowait,
     can_decr
<1>4. CASE Relock(t)
  BY <1>4, WordFacts DEF Relock, Goto, done, relocked_word
<1>5. CASE Reserve(t)
  BY <1>5 DEF Reserve, Goto, reserve_cell, event_of
<1>6. CASE Announce(t)
  BY <1>6 DEF Announce, Goto, event_of
<1>7. CASE CheckAgain(t)
  BY <1>7 DEF CheckAgain, Goto, higher_prio_waiters_exist
<1>8. CASE TryAgain(t)
  BY <1>8, WordFacts DEF TryAgain, Goto, s_lock_low, x_lock_low, can_decr
<1>9. CASE Sleep(t)
  BY <1>9 DEF Sleep, Goto, free_cell
<1>10. CASE Withdraw(t)
  BY <1>10 DEF Withdraw, Goto, free_cell, withdrawn, event_of
<1>11. CASE set_writer_id(t)
  BY <1>11 DEF set_writer_id, Goto
<1>12. CASE FlagWaitEx(t)
  BY <1>12 DEF FlagWaitEx, Goto
<1>13. CASE x_lock_wait(t)
  BY <1>13 DEF x_lock_wait, Goto, reserve_cell, free_cell, readers_in
<1>14. CASE XLocked(t)
  BY <1>14 DEF XLocked, Goto, done
<1>15. CASE x_unlock(t)
  BY <1>15, WordFacts DEF x_unlock, Goto, x_lock_incr
<1>16. CASE FindWaiters(t)
  BY <1>16 DEF FindWaiters, Goto
<1>17. CASE ResetFlag(t)
  BY <1>17 DEF ResetFlag, Goto
<1>18. CASE SetEvent(t)
  <2>1. PICK e \in Event : Sets(t, e)
    BY <1>18, SetEventSets
  <2>2. /\ cell' = cell
        /\ \A f \in Event : is_set'[f] <=> is_set[f] \/ f = e
        /\ \A u \in Thread : changed'[u] <=>
             changed[u] \/ (cell[u] = e /\ ~is_set[e])
    BY <2>1, SetFacts DEF Sets, IndInv
  <2>3. pc' = [pc EXCEPT ![t] = "idle"]
    BY <2>1 DEF Sets, Goto
  <2>4. ASSUME NEW u \in Thread, pc[u] = "sleep_ex", ~changed'[u]
        PROVE  readers_in \/ \E v \in Thread : v # t /\ pc[v] = "set_wait_ex"
    BY <2>1, <2>2, <2>4
    DEF Sets, IndInv, WakeInv, NextWriterWoken, Cells, At, LockInv, BaseType,
        Event, NoEvent
  <2>5. readers_in' = readers_in
    BY <2>1 DEF Sets, readers_in
  <2> QED
    BY <2>3, <2>4, <2>5
    DEF NextWriterWoken, At, IndInv, LockInv, BaseType
<1>19. CASE s_unlock(t)
  <2>1. lock_word' = lock_word + 1 /\ X_LOCK_DECR > 1 /\ lock_word \in Int
    BY <1>19, WordFacts DEF s_unlock, IndInv, LockInv, BaseType
  <2>2. lock_word' = 0 => pc'[t] = "set_wait_ex"
    BY <1>19, <2>1 DEF s_unlock, s_wakes, Goto, IndInv, LockInv, BaseType
  <2>3. readers_in => readers_in' \/ pc'[t] = "set_wait_ex"
    BY <2>1, <2>2 DEF readers_in
  <2>4. /\ pc' = [pc EXCEPT ![t] = pc'[t]] /\ pc[t] = "idle"
        /\ pc'[t] # "sleep_ex" /\ changed' = changed
        /\ pc \in [Thread -> Label]
    BY <1>19 DEF s_unlock, s_wakes, Goto, events, IndInv, LockInv, BaseType
  <2> QED
    BY <2>3, <2>4 DEF IndInv, WakeInv, NextWriterWoken, At
<1>20. CASE x_prepare_unlock(t)
  BY <1>20 DEF x_prepare_unlock, Goto
<1> QED BY <1>1, <1>2, <1>3, <1>4, <1>5, <1>6, <1>7, <1>8, <1>9, <1>10, <1>11,
   <1>12, <1>13, <1>14, <1>15, <1>16, <1>17, <1>18, <1>19, <1>20 DEF
   ThreadStep, Step, Unlock

(* The flag of a thread that waits is set, or its event is going to be. *)
LEMMA FlagKeptStep ==
  ASSUME IndInv, NEW t \in Thread, ThreadStep(t)
  PROVE  FlagKept'
<1> USE DEF IndInv, WakeInv, FlagKept, Cells, At, event_of, LockInv, BaseType,
   Local, Announced, Releasing, Event, set_label, Label, Failed, owner,
   announced, events, counts
<1>1. CASE Request(t)
  BY <1>1 DEF Request, Goto
<1>2. CASE Check(t)
  BY <1>2 DEF Check, Goto, higher_prio_waiters_exist
<1>3. CASE Try(t)
  BY <1>3 DEF Try, Goto, s_lock_low, x_lock_low, x_lock_nowait, can_decr
<1>4. CASE Relock(t)
  BY <1>4 DEF Relock, Goto, done, relocked_word
<1>5. CASE Reserve(t)
  BY <1>5 DEF Reserve, Goto, reserve_cell, event_of
<1>6. CASE Announce(t)
  BY <1>6 DEF Announce, Goto, event_of
<1>7. CASE CheckAgain(t)
  BY <1>7 DEF CheckAgain, Goto, higher_prio_waiters_exist
<1>8. CASE TryAgain(t)
  BY <1>8 DEF TryAgain, Goto, s_lock_low, x_lock_low, can_decr
<1>9. CASE Sleep(t)
  BY <1>9 DEF Sleep, Goto, free_cell
<1>10. CASE Withdraw(t)
  BY <1>10 DEF Withdraw, Goto, free_cell, withdrawn, event_of
<1>11. CASE set_writer_id(t)
  BY <1>11 DEF set_writer_id, Goto
<1>12. CASE FlagWaitEx(t)
  BY <1>12 DEF FlagWaitEx, Goto
<1>13. CASE x_lock_wait(t)
  BY <1>13 DEF x_lock_wait, Goto, reserve_cell, free_cell, readers_in
<1>14. CASE XLocked(t)
  BY <1>14 DEF XLocked, Goto, done
<1>15. CASE x_unlock(t)
  BY <1>15 DEF x_unlock, Goto, x_lock_incr
<1>16. CASE FindWaiters(t)
  BY <1>16 DEF FindWaiters, Goto
<1>17. CASE ResetFlag(t)
  BY <1>17 DEF ResetFlag, Goto
<1>18. CASE SetEvent(t)
  <2>1. PICK e \in Event : Sets(t, e)
    BY <1>18, SetEventSets
  <2>2. /\ cell' = cell
        /\ \A f \in Event : is_set'[f] <=> is_set[f] \/ f = e
        /\ \A u \in Thread : changed'[u] <=>
             changed[u] \/ (cell[u] = e /\ ~is_set[e])
    BY <2>1, SetFacts DEF Sets, IndInv
  <2>3. pc' = [pc EXCEPT ![t] = "idle"]
    BY <2>1 DEF Sets, Goto
  <2>4. waiting' = waiting /\ waiters' = waiters
    BY <2>1 DEF Sets, announced
  <2>5. ASSUME NEW u \in Thread, u \in waiting, ~high(u), ~changed'[u],
               pc[u] \in {"check_again", "try_again", "relock", "sleep"}
        PROVE  waiters \/ \E v \in Thread : v # t /\ pc[v] = "set_event"
    <3>1. cell[u] = "event" /\ (is_set["event"] => changed[u])
      BY <2>5 DEF IndInv, WakeInv, Cells, event_of, Failed, NoEvent
    <3>2. waiters \/ At({"set_event"})
      BY <2>2, <2>5 DEF IndInv, WakeInv, FlagKept
    <3> QED BY <2>1, <2>2, <2>5, <3>1, <3>2 DEF Sets, At
  <2> QED
    BY <2>3, <2>4, <2>5 DEF FlagKept, At, IndInv, LockInv, BaseType
<1>19. CASE s_unlock(t)
  BY <1>19 DEF s_unlock, Goto, s_wakes
<1>20. CASE x_prepare_unlock(t)
  BY <1>20 DEF x_prepare_unlock, Goto
<1> QED BY <1>1, <1>2, <1>3, <1>4, <1>5, <1>6, <1>7, <1>8, <1>9, <1>10, <1>11,
   <1>12, <1>13, <1>14, <1>15, <1>16, <1>17, <1>18, <1>19, <1>20 DEF
   ThreadStep, Step, Unlock

(* high_priority_wait_ex_waiter is set only with a next writer. *)
LEMMA FlagWaitsStep ==
  ASSUME IndInv, NEW t \in Thread, ThreadStep(t)
  PROVE  FlagWaits'
<1> USE DEF IndInv, WakeInv, FlagWaits, LockInv, BaseType, Local, Placed,
   OneWriter, Writers, Event, set_label, Label, next_writer, owner, announced,
   events, counts
<1>1. CASE Request(t)
  BY <1>1 DEF Request, Goto
<1>2. CASE Check(t)
  BY <1>2 DEF Check, Goto, higher_prio_waiters_exist
<1>3. CASE Try(t)
  BY <1>3 DEF Try, Goto, s_lock_low, x_lock_low, x_lock_nowait, can_decr
<1>4. CASE Relock(t)
  BY <1>4 DEF Relock, Goto, done, relocked_word
<1>5. CASE Reserve(t)
  BY <1>5 DEF Reserve, Goto, reserve_cell, event_of
<1>6. CASE Announce(t)
  BY <1>6 DEF Announce, Goto, event_of
<1>7. CASE CheckAgain(t)
  BY <1>7 DEF CheckAgain, Goto, higher_prio_waiters_exist
<1>8. CASE TryAgain(t)
  BY <1>8 DEF TryAgain, Goto, s_lock_low, x_lock_low, can_decr
<1>9. CASE Sleep(t)
  BY <1>9 DEF Sleep, Goto, free_cell
<1>10. CASE Withdraw(t)
  BY <1>10 DEF Withdraw, Goto, free_cell, withdrawn, event_of
<1>11. CASE set_writer_id(t)
  BY <1>11 DEF set_writer_id, Goto
<1>12. CASE FlagWaitEx(t)
  BY <1>12 DEF FlagWaitEx, Goto
<1>13. CASE x_lock_wait(t)
  BY <1>13 DEF x_lock_wait, Goto, reserve_cell, free_cell, readers_in
<1>14. CASE XLocked(t)
  <2>1. t \in Writers /\ next_writer(t)
    BY <1>14 DEF XLocked, Writers, next_writer
  <2>2. ASSUME high_priority_wait_ex_waiter' PROVE FALSE
    <3>1. high_priority_wait_ex_waiter /\ ~high(t)
      BY <1>14, <2>2 DEF XLocked
    <3>2. PICK u \in Thread : high(u) /\ next_writer(u)
      BY <3>1 DEF IndInv, WakeInv, FlagWaits
    <3> QED BY <2>1, <3>1, <3>2 DEF IndInv, LockInv, OneWriter, Writers
  <2> QED BY <2>2 DEF FlagWaits
<1>15. CASE x_unlock(t)
  BY <1>15 DEF x_unlock, Goto, x_lock_incr
<1>16. CASE FindWaiters(t)
  BY <1>16 DEF FindWaiters, Goto
<1>17. CASE ResetFlag(t)
  BY <1>17 DEF ResetFlag, Goto
<1>18. CASE SetEvent(t)
  BY <1>18 DEF SetEvent, Goto, os_event_set
<1>19. CASE s_unlock(t)
  BY <1>19 DEF s_unlock, Goto, s_wakes
<1>20. CASE x_prepare_unlock(t)
  BY <1>20 DEF x_prepare_unlock, Goto
<1> QED BY <1>1, <1>2, <1>3, <1>4, <1>5, <1>6, <1>7, <1>8, <1>9, <1>10, <1>11,
   <1>12, <1>13, <1>14, <1>15, <1>16, <1>17, <1>18, <1>19, <1>20 DEF
   ThreadStep, Step, Unlock

(* A thread moves nobody else. *)
LEMMA FrameStep ==
  ASSUME IndInv, NEW t \in Thread, ThreadStep(t)
  PROVE  Frame(t)
<1> USE DEF Frame, IndInv, LockInv, BaseType, Event, owner, announced, events,
   counts
<1>1. CASE Request(t)
  BY <1>1 DEF Request, Goto
<1>2. CASE Check(t)
  BY <1>2 DEF Check, Goto, higher_prio_waiters_exist
<1>3. CASE Try(t)
  BY <1>3 DEF Try, Goto, s_lock_low, x_lock_low, x_lock_nowait, can_decr
<1>4. CASE Relock(t)
  BY <1>4 DEF Relock, Goto, done, relocked_word
<1>5. CASE Reserve(t)
  BY <1>5 DEF Reserve, Goto, reserve_cell, event_of
<1>6. CASE Announce(t)
  BY <1>6 DEF Announce, Goto, event_of
<1>7. CASE CheckAgain(t)
  BY <1>7 DEF CheckAgain, Goto, higher_prio_waiters_exist
<1>8. CASE TryAgain(t)
  BY <1>8 DEF TryAgain, Goto, s_lock_low, x_lock_low, can_decr
<1>9. CASE Sleep(t)
  BY <1>9 DEF Sleep, Goto, free_cell
<1>10. CASE Withdraw(t)
  BY <1>10 DEF Withdraw, Goto, free_cell, withdrawn, event_of
<1>11. CASE set_writer_id(t)
  BY <1>11 DEF set_writer_id, Goto
<1>12. CASE FlagWaitEx(t)
  BY <1>12 DEF FlagWaitEx, Goto
<1>13. CASE x_lock_wait(t)
  BY <1>13 DEF x_lock_wait, Goto, reserve_cell, free_cell, readers_in
<1>14. CASE XLocked(t)
  BY <1>14 DEF XLocked, Goto, done
<1>15. CASE x_unlock(t)
  BY <1>15 DEF x_unlock, Goto, x_lock_incr
<1>16. CASE FindWaiters(t)
  BY <1>16 DEF FindWaiters, Goto
<1>17. CASE ResetFlag(t)
  BY <1>17 DEF ResetFlag, Goto
<1>18. CASE SetEvent(t)
  <2>1. PICK e \in Event : Sets(t, e)
    BY <1>18, SetEventSets
  <2>2. /\ cell' = cell
        /\ \A f \in Event : is_set'[f] <=> is_set[f] \/ f = e
        /\ \A u \in Thread : changed'[u] <=>
             changed[u] \/ (cell[u] = e /\ ~is_set[e])
    BY <2>1, SetFacts DEF Sets, IndInv
  <2>3. pc' = [pc EXCEPT ![t] = "idle"]
    BY <2>1 DEF Sets, Goto
  <2> QED BY <2>1, <2>2, <2>3 DEF Sets
<1>19. CASE s_unlock(t)
  BY <1>19 DEF s_unlock, Goto, s_wakes
<1>20. CASE x_prepare_unlock(t)
  BY <1>20 DEF x_prepare_unlock, Goto
<1> QED BY <1>1, <1>2, <1>3, <1>4, <1>5, <1>6, <1>7, <1>8, <1>9, <1>10, <1>11,
   <1>12, <1>13, <1>14, <1>15, <1>16, <1>17, <1>18, <1>19, <1>20 DEF
   ThreadStep, Step, Unlock

(* The writer that leaves looks for waiters. *)
LEMMA LockKeptXUnlock ==
  ASSUME IndInv, NEW t \in Thread, x_unlock(t)
  PROVE  LockKept(t)
BY XUnlockFacts, WordFacts
DEF LockKept, IndInv, x_unlock, LockInv, Local, Placed, OneWriter

(* Who leaves the lock free looks for waiters. *)
LEMMA LockKeptStep ==
  ASSUME IndInv, NEW t \in Thread, ThreadStep(t)
  PROVE  LockKept(t)
<1> USE DEF LockKept, IndInv, LockInv, BaseType, Local, Placed, Readers,
   Writers, next_writer, Event, set_label, Asking, Label, owner, announced,
   events, counts
<1>1. CASE Request(t)
  BY <1>1 DEF Request, Goto
<1>2. CASE Check(t)
  BY <1>2 DEF Check, Goto, higher_prio_waiters_exist
<1>3. CASE Try(t)
  BY <1>3 DEF Try, Goto, s_lock_low, x_lock_low, x_lock_nowait, can_decr
<1>4. CASE Relock(t)
  BY <1>4 DEF Relock, Goto, done, relocked_word
<1>5. CASE Reserve(t)
  BY <1>5 DEF Reserve, Goto, reserve_cell, event_of
<1>6. CASE Announce(t)
  BY <1>6 DEF Announce, Goto, event_of
<1>7. CASE CheckAgain(t)
  BY <1>7 DEF CheckAgain, Goto, higher_prio_waiters_exist
<1>8. CASE TryAgain(t)
  BY <1>8 DEF TryAgain, Goto, s_lock_low, x_lock_low, can_decr
<1>9. CASE Sleep(t)
  BY <1>9 DEF Sleep, Goto, free_cell
<1>10. CASE Withdraw(t)
  BY <1>10 DEF Withdraw, Goto, free_cell, withdrawn, event_of
<1>11. CASE set_writer_id(t)
  BY <1>11 DEF set_writer_id, Goto
<1>12. CASE FlagWaitEx(t)
  BY <1>12 DEF FlagWaitEx, Goto
<1>13. CASE x_lock_wait(t)
  BY <1>13 DEF x_lock_wait, Goto, reserve_cell, free_cell, readers_in
<1>14. CASE XLocked(t)
  BY <1>14 DEF XLocked, Goto, done
<1>15. CASE x_unlock(t)
  BY <1>15, LockKeptXUnlock
<1>16. CASE FindWaiters(t)
  BY <1>16 DEF FindWaiters, Goto
<1>17. CASE ResetFlag(t)
  BY <1>17 DEF ResetFlag, Goto
<1>18. CASE SetEvent(t)
  BY <1>18 DEF SetEvent, LockKept, Readers, Writers, next_writer, Goto,
     IndInv, LockInv, BaseType, Event, set_label
<1>19. CASE s_unlock(t)
  <2>1. /\ lock_word' = lock_word + 1 /\ Readers' = Readers \ {t}
        /\ Writers' = {} => Writers = {}
    BY <1>19
    DEF s_unlock, Goto, s_wakes, Readers, Writers, next_writer, IndInv,
        LockInv, BaseType
  <2>2. CASE Readers' = {} /\ Writers' = {}
    <3>1. Cardinality(Readers)' = 0
      BY <2>2, FS_EmptySet
    <3>2. lock_word' = X_LOCK_DECR - 0
      BY <1>19, <2>2, <3>1, LockSUnlock DEF Word, IndInv
    <3>3. pc'[t] = "waiters"
      BY <1>19, <3>2, WordFacts
      DEF s_unlock, Goto, s_wakes, IndInv, LockInv, BaseType
    <3> QED BY <2>2, <3>3, <2>1 DEF LockKept
  <2> QED BY <2>1, <2>2 DEF LockKept
<1>20. CASE x_prepare_unlock(t)
  BY <1>20 DEF x_prepare_unlock, Goto
<1> QED BY <1>1, <1>2, <1>3, <1>4, <1>5, <1>6, <1>7, <1>8, <1>9, <1>10, <1>11,
   <1>12, <1>13, <1>14, <1>15, <1>16, <1>17, <1>18, <1>19, <1>20 DEF
   ThreadStep, Step, Unlock

(* A thread of high priority that tries goes on, or has got the lock. *)
LEMMA TriesKeptStep ==
  ASSUME IndInv, NEW t \in Thread, ThreadStep(t)
  PROVE  TriesKept(t)
<1> USE DEF TriesKept, Tries, Failed, event_of, HighX, IndInv, LockInv,
   BaseType, Local, Placed, Announced, Asking, Releasing, Readers, Writers,
   next_writer, Owner, WriterKnown, WakeInv, Cells, Event, set_label, owner,
   announced, events, counts
<1>1. CASE Request(t)
  BY <1>1 DEF Request, Goto
<1>2. CASE Check(t)
  BY <1>2 DEF Check, Goto, higher_prio_waiters_exist
<1>3. CASE Try(t)
  BY <1>3, WordFacts DEF Try, Goto, s_lock_low, x_lock_low, x_lock_nowait,
     can_decr
<1>4. CASE Relock(t)
  BY <1>4 DEF Relock, Goto, done, relocked_word
<1>5. CASE Reserve(t)
  BY <1>5 DEF Reserve, Goto, reserve_cell, event_of
<1>6. CASE Announce(t)
  BY <1>6 DEF Announce, Goto, event_of
<1>7. CASE CheckAgain(t)
  BY <1>7 DEF CheckAgain, Goto, higher_prio_waiters_exist
<1>8. CASE TryAgain(t)
  BY <1>8, WordFacts DEF TryAgain, Goto, s_lock_low, x_lock_low, can_decr
<1>9. CASE Sleep(t)
  BY <1>9 DEF Sleep, Goto, free_cell
<1>10. CASE Withdraw(t)
  BY <1>10 DEF Withdraw, Goto, free_cell, withdrawn, event_of
<1>11. CASE set_writer_id(t)
  BY <1>11 DEF set_writer_id, Goto
<1>12. CASE FlagWaitEx(t)
  BY <1>12 DEF FlagWaitEx, Goto
<1>13. CASE x_lock_wait(t)
  BY <1>13 DEF x_lock_wait, Goto, reserve_cell, free_cell, readers_in
<1>14. CASE XLocked(t)
  BY <1>14 DEF XLocked, Goto, done
<1>15. CASE x_unlock(t)
  BY <1>15 DEF x_unlock, Goto, x_lock_incr
<1>16. CASE FindWaiters(t)
  BY <1>16 DEF FindWaiters, Goto
<1>17. CASE ResetFlag(t)
  BY <1>17 DEF ResetFlag, Goto
<1>18. CASE SetEvent(t)
  BY <1>18 DEF SetEvent, Goto, os_event_set
<1>19. CASE s_unlock(t)
  BY <1>19 DEF s_unlock, Goto, s_wakes
<1>20. CASE x_prepare_unlock(t)
  BY <1>20 DEF x_prepare_unlock, Goto
<1> QED BY <1>1, <1>2, <1>3, <1>4, <1>5, <1>6, <1>7, <1>8, <1>9, <1>10, <1>11,
   <1>12, <1>13, <1>14, <1>15, <1>16, <1>17, <1>18, <1>19, <1>20 DEF
   ThreadStep, Step, Unlock

(* An announcement is withdrawn by a thread that tries or has the lock. *)
LEMMA HighKeptStep ==
  ASSUME IndInv, NEW t \in Thread, ThreadStep(t)
  PROVE  HighKept(t)
<1> USE DEF HighKept, Tries, event_of, HighX, HighS, IndInv, LockInv,
   BaseType, Local, Placed, Announced, Asking, Releasing, Readers, Writers,
   next_writer, Event, set_label, owner, announced, events, counts
<1>1. CASE Request(t)
  BY <1>1 DEF Request, Goto
<1>2. CASE Check(t)
  BY <1>2 DEF Check, Goto, higher_prio_waiters_exist
<1>3. CASE Try(t)
  BY <1>3 DEF Try, Goto, s_lock_low, x_lock_low, x_lock_nowait, can_decr
<1>4. CASE Relock(t)
  BY <1>4 DEF Relock, Goto, done, relocked_word
<1>5. CASE Reserve(t)
  BY <1>5 DEF Reserve, Goto, reserve_cell, event_of
<1>6. CASE Announce(t)
  BY <1>6 DEF Announce, Goto, event_of
<1>7. CASE CheckAgain(t)
  BY <1>7 DEF CheckAgain, Goto, higher_prio_waiters_exist
<1>8. CASE TryAgain(t)
  BY <1>8 DEF TryAgain, Goto, s_lock_low, x_lock_low, can_decr
<1>9. CASE Sleep(t)
  BY <1>9 DEF Sleep, Goto, free_cell
<1>10. CASE Withdraw(t)
  BY <1>10 DEF Withdraw, Goto, free_cell, withdrawn, event_of
<1>11. CASE set_writer_id(t)
  BY <1>11 DEF set_writer_id, Goto
<1>12. CASE FlagWaitEx(t)
  BY <1>12 DEF FlagWaitEx, Goto
<1>13. CASE x_lock_wait(t)
  BY <1>13 DEF x_lock_wait, Goto, reserve_cell, free_cell, readers_in
<1>14. CASE XLocked(t)
  BY <1>14 DEF XLocked, Goto, done
<1>15. CASE x_unlock(t)
  BY <1>15 DEF x_unlock, Goto, x_lock_incr
<1>16. CASE FindWaiters(t)
  BY <1>16 DEF FindWaiters, Goto
<1>17. CASE ResetFlag(t)
  BY <1>17 DEF ResetFlag, Goto
<1>18. CASE SetEvent(t)
  BY <1>18 DEF SetEvent, Goto, os_event_set
<1>19. CASE s_unlock(t)
  BY <1>19 DEF s_unlock, Goto, s_wakes
<1>20. CASE x_prepare_unlock(t)
  BY <1>20 DEF x_prepare_unlock, Goto
<1> QED BY <1>1, <1>2, <1>3, <1>4, <1>5, <1>6, <1>7, <1>8, <1>9, <1>10, <1>11,
   <1>12, <1>13, <1>14, <1>15, <1>16, <1>17, <1>18, <1>19, <1>20 DEF
   ThreadStep, Step, Unlock

(* Only its last try makes a thread wait. *)
LEMMA FailedKeptStep ==
  ASSUME IndInv, NEW t \in Thread, ThreadStep(t)
  PROVE  FailedKept(t)
<1> USE DEF FailedKept, Failed, event_of, IndInv, LockInv, BaseType, Local,
   Placed, Announced, Asking, Releasing, Event, set_label, owner, announced,
   events, counts
<1>1. CASE Request(t)
  BY <1>1 DEF Request, Goto
<1>2. CASE Check(t)
  BY <1>2 DEF Check, Goto, higher_prio_waiters_exist
<1>3. CASE Try(t)
  BY <1>3 DEF Try, Goto, s_lock_low, x_lock_low, x_lock_nowait, can_decr
<1>4. CASE Relock(t)
  BY <1>4 DEF Relock, Goto, done, relocked_word
<1>5. CASE Reserve(t)
  BY <1>5 DEF Reserve, Goto, reserve_cell, event_of
<1>6. CASE Announce(t)
  BY <1>6 DEF Announce, Goto, event_of
<1>7. CASE CheckAgain(t)
  BY <1>7 DEF CheckAgain, Goto, higher_prio_waiters_exist
<1>8. CASE TryAgain(t)
  BY <1>8 DEF TryAgain, Goto, s_lock_low, x_lock_low, can_decr
<1>9. CASE Sleep(t)
  BY <1>9 DEF Sleep, Goto, free_cell
<1>10. CASE Withdraw(t)
  BY <1>10 DEF Withdraw, Goto, free_cell, withdrawn, event_of
<1>11. CASE set_writer_id(t)
  BY <1>11 DEF set_writer_id, Goto
<1>12. CASE FlagWaitEx(t)
  BY <1>12 DEF FlagWaitEx, Goto
<1>13. CASE x_lock_wait(t)
  BY <1>13 DEF x_lock_wait, Goto, reserve_cell, free_cell, readers_in
<1>14. CASE XLocked(t)
  BY <1>14 DEF XLocked, Goto, done
<1>15. CASE x_unlock(t)
  BY <1>15 DEF x_unlock, Goto, x_lock_incr
<1>16. CASE FindWaiters(t)
  BY <1>16 DEF FindWaiters, Goto
<1>17. CASE ResetFlag(t)
  BY <1>17 DEF ResetFlag, Goto
<1>18. CASE SetEvent(t)
  <2>1. PICK e \in Event : Sets(t, e)
    BY <1>18, SetEventSets
  <2>2. /\ cell' = cell
        /\ \A f \in Event : is_set'[f] <=> is_set[f] \/ f = e
        /\ \A u \in Thread : changed'[u] <=>
             changed[u] \/ (cell[u] = e /\ ~is_set[e])
    BY <2>1, SetFacts DEF Sets, IndInv
  <2>3. pc' = [pc EXCEPT ![t] = "idle"]
    BY <2>1 DEF Sets, Goto
  <2> QED BY <2>1, <2>2, <2>3 DEF Sets
<1>19. CASE s_unlock(t)
  BY <1>19 DEF s_unlock, Goto, s_wakes
<1>20. CASE x_prepare_unlock(t)
  BY <1>20 DEF x_prepare_unlock, Goto
<1> QED BY <1>1, <1>2, <1>3, <1>4, <1>5, <1>6, <1>7, <1>8, <1>9, <1>10, <1>11,
   <1>12, <1>13, <1>14, <1>15, <1>16, <1>17, <1>18, <1>19, <1>20 DEF
   ThreadStep, Step, Unlock

(* Who can be counted on, if t does not go away from where it counts: for  *)
(* writers of high priority,                                               *)
LEMMA LiveXKept ==
  ASSUME NEW t \in Thread, Frame(t), LockKept(t), LiveX,
         pc[t] \notin {"x_waiters", "set_high_x"}
  PROVE  LiveX'
BY DEF LiveX, Frame, LockKept, At

(* for readers of high priority,                                           *)
LEMMA LiveSKept ==
  ASSUME IndInv, NEW t \in Thread, Frame(t), LockKept(t), TriesKept(t),
         HighKept(t), LiveS,
         pc[t] \notin {"x_waiters", "s_waiters", "set_high_x", "set_high_s"}
  PROVE  LiveS'
<1>1. CASE Writers # {}
  BY <1>1 DEF LiveS, LockKept, At
<1>2. CASE At({"x_waiters", "s_waiters", "set_high_s"})
  BY <1>2 DEF At, Frame, LiveS
<1>3. CASE WakesX
  <2>1. At({"set_high_x"})'
    BY <1>3 DEF WakesX, At, Frame
  <2> QED BY <1>3, <2>1 DEF WakesX, HighKept, LiveS
<1>4. ASSUME NEW v \in Thread, Tries(v, "X") PROVE LiveS'
  <2>1. CASE v # t
    BY <1>4, <2>1 DEF Tries, Frame, LiveS
  <2>2. CASE Tries(t, "X")' \/ Writers' # {}
    BY <2>2 DEF LiveS
  <2>3. CASE /\ Failed(t) /\ ~changed[t]
             /\ event_of(t) = "high_x" /\ HighX' # {}
    <3>1. LiveX
      BY <2>3 DEF IndInv, WakeInv, Woken
    <3> QED BY <2>3, <3>1, LiveXKept DEF LiveX, LiveS, WakesX, At
  <2> QED BY <1>4, <2>1, <2>2, <2>3 DEF TriesKept
<1> QED BY <1>1, <1>2, <1>3, <1>4 DEF LiveS

(* and for everybody else.                                                 *)
LEMMA LiveLKept ==
  ASSUME IndInv, NEW t \in Thread, Frame(t), LockKept(t), TriesKept(t),
         HighKept(t), LiveL, pc[t] = "reset" => pc'[t] = "set_event",
         pc[t] \notin {"x_waiters", "s_waiters", "waiters", "set_event",
                       "set_high_x", "set_high_s"}
  PROVE  LiveL'
<1>1. CASE Writers # {} \/ Readers # {}
  BY <1>1 DEF LiveL, LockKept, At
<1>2. CASE At({"x_waiters", "s_waiters", "waiters", "reset", "set_event"})
  BY <1>2 DEF At, Frame, LiveL
<1>3. CASE WakesX
  <2>1. At({"set_high_x"})'
    BY <1>3 DEF WakesX, At, Frame
  <2> QED BY <1>3, <2>1 DEF WakesX, HighKept, LiveL
<1>4. CASE WakesS
  <2>1. At({"set_high_s"})'
    BY <1>4 DEF WakesS, At, Frame
  <2> QED BY <1>4, <2>1 DEF WakesS, HighKept, LiveL
<1>5. ASSUME NEW v \in Thread, Tries(v, "X") \/ Tries(v, "S") PROVE LiveL'
  <2>1. CASE v # t
    BY <1>5, <2>1 DEF Tries, Frame, LiveL
  <2>2. CASE \/ Tries(t, "X")' \/ Tries(t, "S")'
             \/ Writers' # {} \/ Readers' # {}
    BY <2>2 DEF LiveL
  <2>3. CASE /\ Failed(t) /\ ~changed[t]
             /\ event_of(t) = "high_x" /\ HighX' # {}
    <3>1. LiveX
      BY <2>3 DEF IndInv, WakeInv, Woken
    <3> QED BY <2>3, <3>1, LiveXKept DEF LiveX, LiveL, WakesX, At
  <2> QED BY <1>5, <2>1, <2>2, <2>3 DEF TriesKept
<1> QED BY <1>1, <1>2, <1>3, <1>4, <1>5 DEF LiveL

(* An announced thread of high priority is trying, or has the lock. *)
LEMMA HighTries ==
  ASSUME IndInv
  PROVE  /\ \A v \in HighX :
              v \in Thread /\ (v \in Writers \/ pc[v] \in Asking)
         /\ \A v \in HighS :
              v \in Thread /\ (v \in Readers \/ pc[v] \in Asking)
         /\ \A v \in HighX : high(v) /\ mode[v] = "X"
         /\ \A v \in HighS : high(v) /\ mode[v] = "S"
<1>1. \A v \in waiting :
        v \in Thread /\ mode[v] \in {"S", "X"} /\ pc[v] \in Label
  BY DEF IndInv, LockInv, BaseType, Local, Announced
<1>2. /\ \A v \in HighX : v \in waiting /\ high(v) /\ mode[v] = "X"
      /\ \A v \in HighS : v \in waiting /\ high(v) /\ mode[v] = "S"
  BY <1>1 DEF HighX, HighS, event_of
<1>3. \A v \in waiting : \/ pc[v] \in Asking \/ pc[v] = "got"
                         \/ next_writer(v)
  BY <1>1
  DEF Label, Asking, Releasing, next_writer, IndInv, LockInv, Local, Announced
<1>4. \A v \in waiting :
        /\ pc[v] = "got" => IF mode[v] = "S" THEN held[v] = -1
                            ELSE held[v] > 0
        /\ next_writer(v) => mode[v] # "S"
  BY <1>1 DEF IndInv, LockInv, Local, Placed
<1> QED BY <1>1, <1>2, <1>3, <1>4 DEF Readers, Writers

(* A thread that finds waiters of high priority can count on them. *)
LEMMA HighLive ==
  ASSUME IndInv
  PROVE  /\ HighX # {} => LiveL
         /\ HighS # {} => LiveL
         /\ high_priority_wait_ex_waiter => LiveL
<1>1. ASSUME NEW v \in HighX PROVE LiveL
  <2>1. /\ v \in Thread /\ (v \in Writers \/ pc[v] \in Asking)
        /\ high(v) /\ mode[v] = "X" /\ v \in waiting
    BY HighTries DEF HighX
  <2>2. CASE v \in Writers
    BY <2>2 DEF LiveL
  <2>3. CASE pc[v] \in Asking /\ (pc[v] = "sleep" => changed[v])
    BY <2>1, <2>3 DEF LiveL, Tries
  <2>4. CASE pc[v] = "sleep" /\ ~changed[v]
    <3>1. LiveX
      BY <2>1, <2>4 DEF IndInv, WakeInv, Woken, Failed, HighX
    <3> QED BY <3>1 DEF LiveX, LiveL, WakesX, At
  <2> QED BY <2>1, <2>2, <2>3, <2>4
<1>2. ASSUME NEW v \in HighS PROVE LiveL
  <2>1. /\ v \in Thread /\ (v \in Readers \/ pc[v] \in Asking)
        /\ high(v) /\ mode[v] = "S" /\ v \in waiting
    BY HighTries DEF HighS
  <2>2. CASE v \in Readers
    BY <2>2 DEF LiveL
  <2>3. CASE pc[v] \in Asking /\ (pc[v] = "sleep" => changed[v])
    BY <2>1, <2>3 DEF LiveL, Tries
  <2>4. CASE pc[v] = "sleep" /\ ~changed[v]
    <3>1. LiveS
      BY <2>1, <2>4 DEF IndInv, WakeInv, Woken, Failed, HighS
    <3> QED BY <3>1 DEF LiveS, LiveL, WakesS, At
  <2> QED BY <2>1, <2>2, <2>3, <2>4
<1>3. ASSUME high_priority_wait_ex_waiter PROVE LiveL
  BY <1>3 DEF IndInv, WakeInv, FlagWaits, Writers, LiveL
<1> QED BY <1>1, <1>2, <1>3

(* Whoever frees the lock wakes, in this order, writers of high priority,  *)
(* readers of high priority, and everybody else.                           *)
LEMMA WokenFind ==
  ASSUME IndInv, NEW t \in Thread, FindWaiters(t), Frame(t), LockKept(t),
         TriesKept(t), HighKept(t), FailedKept(t)
  PROVE  Woken'
<1>1. /\ pc \in [Thread -> Label] /\ pc' \in [Thread -> Label]
      /\ HighX' = HighX /\ HighS' = HighS
      /\ waiters' = waiters /\ pc[t] # "reset"
  BY DEF FindWaiters, Goto, HighX, HighS, event_of, announced, IndInv,
     LockInv, BaseType, Label
<1>2. \A u \in Thread :
        Failed(u)' /\ ~changed'[u] =>
          Failed(u) /\ ~changed[u] /\ event_of(u)' = event_of(u)
  BY DEF FailedKept, FindWaiters
<1>3. \A u \in Thread :
        /\ Failed(u) /\ event_of(u) = "high_x" => HighX # {}
        /\ Failed(u) /\ event_of(u) = "high_s" => HighS # {}
  BY DEF Failed, HighX, HighS
<1>4. CASE pc[t] = "x_waiters"
  <2>1. CASE HighX # {}
    <3>1. pc'[t] = "set_high_x"
      BY <1>1, <1>4, <2>1, HighFinite DEF FindWaiters, Goto
    <3> QED BY <1>1, <2>1, <3>1 DEF Woken, LiveX, LiveS, LiveL, WakesX, At
  <2>2. CASE HighX = {}
    <3>1. pc'[t] = "s_waiters"
      BY <1>1, <1>4, <2>2, HighFinite DEF FindWaiters, Goto
    <3> QED BY <1>2, <1>3, <2>2, <3>1 DEF Woken, LiveS, LiveL, At
  <2> QED BY <2>1, <2>2
<1>5. CASE pc[t] = "s_waiters"
  <2>1. LiveX => LiveX'
    BY <1>5, LiveXKept
  <2>2. CASE HighS # {}
    <3>1. pc'[t] = "set_high_s"
      BY <1>1, <1>5, <2>2, HighFinite DEF FindWaiters, Goto
    <3> QED
      BY <1>1, <1>2, <2>1, <2>2, <3>1
      DEF Woken, IndInv, WakeInv, LiveS, LiveL, WakesS, At
  <2>3. CASE HighS = {}
    <3>1. pc'[t] = "waiters"
      BY <1>1, <1>5, <2>3, HighFinite DEF FindWaiters, Goto
    <3> QED
      BY <1>2, <1>3, <2>1, <2>3, <3>1
      DEF Woken, IndInv, WakeInv, LiveL, At
  <2> QED BY <2>2, <2>3
<1>6. CASE pc[t] = "waiters"
  <2>1. /\ LiveX => LiveX'
        /\ LiveS => LiveS'
    BY <1>6, LiveXKept, LiveSKept
  <2>2. CASE waiters
    <3>1. pc'[t] = "reset"
      BY <1>1, <1>6, <2>2 DEF FindWaiters, Goto
    <3> QED
      BY <1>2, <2>1, <3>1 DEF Woken, IndInv, WakeInv, LiveL, At
  <2>3. CASE ~waiters
    <3>1. ASSUME NEW u \in Thread, Failed(u), ~changed[u],
                 event_of(u) = "event"
          PROVE  LiveL'
      <4>1. At({"set_event"})
        BY <2>3, <3>1
        DEF Failed, event_of, IndInv, WakeInv, FlagKept
      <4> QED BY <1>6, <4>1 DEF At, Frame, LiveL
    <3> QED BY <1>2, <2>1, <3>1 DEF Woken, IndInv, WakeInv
  <2> QED BY <2>2, <2>3
<1> QED BY <1>4, <1>5, <1>6 DEF FindWaiters

(* Whoever waits for the event that is set is awake now. *)
LEMMA WokenSet ==
  ASSUME IndInv, NEW t \in Thread, SetEvent(t), Frame(t), LockKept(t),
         TriesKept(t), HighKept(t), FailedKept(t)
  PROVE  Woken'
<1>1. PICK e \in Event : Sets(t, e)
  BY SetEventSets
<1>2. /\ cell' = cell
      /\ \A u \in Thread : changed'[u] <=>
           changed[u] \/ (cell[u] = e /\ ~is_set[e])
  BY <1>1, SetFacts DEF Sets, IndInv
<1>3. /\ pc' = [pc EXCEPT ![t] = "idle"] /\ pc \in [Thread -> Label]
      /\ HighX' = HighX /\ HighS' = HighS /\ mode' = mode
      /\ Writers' = Writers /\ Readers' = Readers
  BY <1>1 DEF Sets, Goto, HighX, HighS, event_of, Writers, Readers,
     next_writer, IndInv, LockInv, BaseType
<1>4. ASSUME NEW u \in Thread, Failed(u)', ~changed'[u]
      PROVE  /\ Failed(u) /\ ~changed[u] /\ event_of(u)' = event_of(u)
             /\ event_of(u) # e
  <2>1. Failed(u) /\ ~changed[u] /\ event_of(u)' = event_of(u)
    BY <1>1, <1>4 DEF FailedKept, Sets
  <2>2. cell[u] = event_of(u) /\ event_of(u) \in Event
    BY <2>1 DEF IndInv, WakeInv, Cells, event_of, Event
  <2>3. is_set[cell[u]] => changed[u]
    BY <2>2 DEF IndInv, WakeInv, Cells, Event, NoEvent
  <2> QED BY <1>2, <1>4, <2>1, <2>2, <2>3
<1>5. CASE e = "event"
  <2>1. /\ LiveX => LiveX'
        /\ LiveS => LiveS'
    BY <1>1, <1>5, LiveXKept, LiveSKept DEF Sets
  <2> QED BY <1>4, <1>5, <2>1 DEF Woken, IndInv, WakeInv
<1>6. CASE e = "wait_ex"
  <2>1. /\ LiveX => LiveX'
        /\ LiveS => LiveS'
        /\ LiveL => LiveL'
    BY <1>1, <1>6, LiveXKept, LiveSKept, LiveLKept DEF Sets
  <2> QED BY <1>4, <2>1 DEF Woken, IndInv, WakeInv
<1>7. ASSUME NEW v \in Thread, e = event_of(v), pc[v] \in Asking,
             high(v), v \in HighX \/ v \in HighS, v # t,
             NEW m \in {"S", "X"}, mode[v] = m
      PROVE  Tries(v, m)'
  <2>1. v \in waiting
    BY <1>7 DEF HighX, HighS
  <2>2. pc[v] = "sleep" => changed'[v]
    <3>1. pc[v] = "sleep" => cell[v] = e
      BY <1>7, <2>1 DEF IndInv, WakeInv, Cells
    <3>2. pc[v] = "sleep" /\ is_set[e] => changed[v]
      BY <3>1 DEF IndInv, WakeInv, Cells, Event, NoEvent
    <3> QED BY <1>2, <3>1, <3>2
  <2> QED BY <1>3, <1>7, <2>2 DEF Tries
<1>8. CASE e = "high_s"
  <2>1. LiveX => LiveX'
    BY <1>1, <1>8, LiveXKept DEF Sets
  <2>2. ASSUME LiveL PROVE LiveL'
    <3>1. CASE HighS # {}
      <4>1. PICK v \in HighS : TRUE
        BY <3>1
      <4>2. v \in Thread /\ (v \in Readers \/ pc[v] \in Asking)
            /\ high(v) /\ mode[v] = "S" /\ event_of(v) = "high_s"
        BY HighTries DEF HighS
      <4>3. CASE v \in Readers
        BY <1>3, <4>3 DEF LiveL
      <4>4. CASE pc[v] \in Asking
        <5>1. v # t
          BY <1>1, <1>8, <4>4 DEF Sets, Asking
        <5> QED BY <1>7, <1>8, <4>2, <4>4, <5>1 DEF LiveL
      <4> QED BY <4>2, <4>3, <4>4
    <3>2. CASE HighS = {}
      BY <1>1, <1>3, <1>8, <2>2, <3>2, HighLive, LiveXKept
      DEF Sets, LiveL, LiveX, WakesX, WakesS, At, Tries, Frame, Asking
    <3> QED BY <3>1, <3>2
  <2> QED BY <1>4, <1>8, <2>1, <2>2 DEF Woken, IndInv, WakeInv
<1>9. CASE e = "high_x"
  <2>1. ASSUME HighX # {} PROVE LiveS' /\ LiveL'
    <3>1. PICK v \in HighX : TRUE
      BY <2>1
    <3>2. v \in Thread /\ (v \in Writers \/ pc[v] \in Asking)
          /\ high(v) /\ mode[v] = "X" /\ event_of(v) = "high_x"
      BY HighTries DEF HighX
    <3>3. CASE v \in Writers
      BY <1>3, <3>3 DEF LiveL, LiveS
    <3>4. CASE pc[v] \in Asking
      <4>1. v # t
        BY <1>1, <1>9, <3>4 DEF Sets, Asking
      <4> QED BY <1>7, <1>9, <3>2, <3>4, <4>1 DEF LiveL, LiveS
    <3> QED BY <3>2, <3>3, <3>4
  <2>2. ASSUME HighX = {} PROVE (LiveS => LiveS') /\ (LiveL => LiveL')
    BY <1>1, <1>3, <1>9, <2>2
    DEF Sets, LiveS, LiveL, WakesX, WakesS, At, Tries, Frame, Asking
  <2> QED BY <1>4, <1>9, <2>1, <2>2 DEF Woken, IndInv, WakeInv
<1> QED BY <1>5, <1>6, <1>8, <1>9 DEF Event

(* Nobody that has failed is left to sleep with nobody to wake it. *)
LEMMA WokenStep ==
  ASSUME IndInv, NEW t \in Thread, ThreadStep(t)
  PROVE  Woken'
<1>1. /\ Frame(t) /\ LockKept(t) /\ TriesKept(t) /\ HighKept(t)
      /\ FailedKept(t)
  BY FrameStep, LockKeptStep, TriesKeptStep, HighKeptStep, FailedKeptStep
<1>2. CASE FindWaiters(t)
  BY <1>1, <1>2, WokenFind
<1>3. CASE SetEvent(t)
  BY <1>1, <1>3, WokenSet
<1>4. CASE ~FindWaiters(t) /\ ~SetEvent(t)
  <2>1. /\ pc[t] = "reset" => pc'[t] = "set_event"
        /\ pc[t] \notin {"x_waiters", "s_waiters", "waiters", "set_event",
                         "set_high_x", "set_high_s"}
    BY <1>4 DEF ThreadStep, Step, Unlock, Request, Check, Try, Relock,
       Reserve, Announce, CheckAgain, TryAgain, Sleep, Withdraw,
       set_writer_id, FlagWaitEx, x_lock_wait, XLocked, x_unlock, ResetFlag,
       s_unlock, x_prepare_unlock, Goto, IndInv, LockInv, BaseType
  <2>2. /\ LiveX => LiveX'
        /\ LiveS => LiveS'
        /\ LiveL => LiveL'
    BY <1>1, <2>1, LiveXKept, LiveSKept, LiveLKept
  <2>3. ASSUME pc[t] = "check_again", Failed(t)'
        PROVE  LiveL' /\ event_of(t)' = "event"
    <3>1. CheckAgain(t)
      BY <2>3 DEF ThreadStep, Step, Unlock, Request, Check, Try, Relock,
         Reserve, Announce, TryAgain, Sleep, Withdraw, set_writer_id,
         FlagWaitEx, x_lock_wait, XLocked, x_unlock, FindWaiters, ResetFlag,
         SetEvent, Event, set_label, s_unlock, x_prepare_unlock
    <3>2. higher_prio_waiters_exist(t)
      BY <2>3, <3>1 DEF CheckAgain, Failed, Goto, IndInv, LockInv, BaseType
    <3>3. LiveL
      BY <3>2, HighLive, HighFinite DEF higher_prio_waiters_exist
    <3> QED BY <2>2, <3>2, <3>3 DEF higher_prio_waiters_exist, event_of
  <2>4. ASSUME pc[t] = "try_again", Failed(t)'
        PROVE  Writers' # {}
    <3>1. TryAgain(t)
      BY <2>4 DEF ThreadStep, Step, Unlock, Request, Check, Try, Relock,
         Reserve, Announce, CheckAgain, Sleep, Withdraw, set_writer_id,
         FlagWaitEx, x_lock_wait, XLocked, x_unlock, FindWaiters, ResetFlag,
         SetEvent, Event, set_label, s_unlock, x_prepare_unlock
    <3>2. ~can_decr /\ pc'[t] # "x_waiters"
      BY <2>4, <3>1 DEF TryAgain, s_lock_low, x_lock_low, Failed, Goto,
         IndInv, LockInv, BaseType
    <3> QED BY <1>1, <3>2, WordFacts DEF LockKept, can_decr, IndInv
  <2> QED
    BY <1>1, <2>2, <2>3, <2>4
    DEF Woken, FailedKept, IndInv, WakeInv, LiveX, LiveS, LiveL
<1> QED BY <1>2, <1>3, <1>4

(* The error monitor only sets events. *)
LEMMA MonitorStep ==
  ASSUME IndInv, Monitor
  PROVE  IndInv'
<1>1. PICK t \in Thread : can_wake_up(t) /\ os_event_set(cell[t])
  BY DEF Monitor
<1>2. cell[t] \in Event
  BY <1>1 DEF can_wake_up, IndInv, LockInv, BaseType, Event, NoEvent
<1>3. /\ cell' = cell
      /\ \A f \in Event : is_set'[f] <=> is_set[f] \/ f = cell[t]
      /\ \A u \in Thread : changed'[u] <=>
           changed[u] \/ (cell[u] = cell[t] /\ ~is_set[cell[t]])
  BY <1>1, <1>2, SetFacts DEF IndInv
<1>4. /\ lock_word' = lock_word /\ owner' = owner /\ announced' = announced
      /\ pc' = pc /\ mode' = mode /\ held' = held /\ waiting' = waiting
      /\ requests' = requests
  BY DEF Monitor
<1>5. /\ recursive' = recursive /\ writer_thread' = writer_thread
      /\ waiters' = waiters
      /\ high_priority_s_waiters' = high_priority_s_waiters
      /\ high_priority_x_waiters' = high_priority_x_waiters
      /\ high_priority_wait_ex_waiter' = high_priority_wait_ex_waiter
  BY <1>4 DEF owner, announced
<1>6. BaseType'
  <2>1. /\ is_set' \in [Event -> BOOLEAN]
        /\ changed' \in [Thread -> BOOLEAN]
        /\ cell' \in [Thread -> Event \cup {NoEvent}]
    BY <1>1 DEF os_event_set, IndInv, LockInv, BaseType
  <2>2. monitored' \in 0..MaxMonitor
    BY DEF Monitor, IndInv, LockInv, BaseType
  <2> QED BY <1>4, <1>5, <2>1, <2>2 DEF IndInv, LockInv, BaseType
<1>7. /\ Readers' = Readers /\ Writers' = Writers
      /\ HighX' = HighX /\ HighS' = HighS
      /\ \A u \in Thread : /\ again(u)' = again(u)
                           /\ event_of(u)' = event_of(u)
                           /\ next_writer(u)' <=> next_writer(u)
                           /\ Failed(u)' <=> Failed(u)
  BY <1>4 DEF Readers, Writers, HighX, HighS, again, event_of, next_writer,
     Failed
<1>8. Local'
  BY <1>4, <1>7 DEF Local, Placed, Announced, IndInv, LockInv
<1>9. OneWriter' /\ Word' /\ Owner'
  <2>1. OneWriter' /\ Word'
    BY <1>4, <1>7, LockSame DEF IndInv, next_writer
  <2>2. Owner'
    BY <1>4, <1>5
    DEF Owner, WriterKnown, next_writer, IndInv, LockInv
  <2> QED BY <2>1, <2>2
<1>10. Counters' /\ FlagWaits'
  BY <1>5, <1>7 DEF Counters, FlagWaits, IndInv, WakeInv
<1>11. Cells'
  BY <1>2, <1>3, <1>4, <1>7
  DEF Cells, IndInv, WakeInv, LockInv, BaseType, Event, NoEvent
<1>12. NextWriterWoken' /\ FlagKept'
  BY <1>3, <1>4, <1>5
  DEF NextWriterWoken, FlagKept, readers_in, At, IndInv, WakeInv
<1>13. \A v \in Thread : /\ Tries(v, "X") => Tries(v, "X")'
                         /\ Tries(v, "S") => Tries(v, "S")'
  BY <1>3, <1>4 DEF Tries
<1>14. /\ LiveX => LiveX'
       /\ LiveS => LiveS'
       /\ LiveL => LiveL'
  BY <1>4, <1>7, <1>13 DEF LiveX, LiveS, LiveL, WakesX, WakesS, At
<1>15. Woken'
  BY <1>3, <1>7, <1>14 DEF Woken, IndInv, WakeInv
<1> QED
  BY <1>6, <1>8, <1>9, <1>10, <1>11, <1>12, <1>15 DEF IndInv, LockInv, WakeInv

(* The invariant holds for a lock that nobody knows yet. *)
LEMMA InitInv ==
  ASSUME Init
  PROVE  IndInv
<1>1. BaseType
  <2>1. /\ is_set \in [Event -> BOOLEAN] /\ pc \in [Thread -> Label]
        /\ cell \in [Thread -> Event \cup {NoEvent}]
        /\ changed \in [Thread -> BOOLEAN]
    BY DEF Init, Label
  <2>2. /\ mode \in [Thread -> {"S", "X", "N"}]
        /\ held \in [Thread -> -1..MaxDepth] /\ waiting \subseteq Thread
        /\ requests \in 0..MaxRequests /\ monitored \in 0..MaxMonitor
    BY DEF Init
  <2>3. /\ recursive \in BOOLEAN /\ writer_thread \in Thread
        /\ waiters \in BOOLEAN /\ high_priority_wait_ex_waiter \in BOOLEAN
    BY DEF Init
  <2>4. /\ lock_word \in Int /\ high_priority_s_waiters \in Int
        /\ high_priority_x_waiters \in Int
    BY DEF Init
  <2> QED BY <2>1, <2>2, <2>3, <2>4 DEF BaseType
<1>2. Local
  BY DEF Init, Local, Placed, Announced, Asking, Releasing, next_writer
<1>3. /\ Readers = {} /\ Writers = {} /\ HighX = {} /\ HighS = {}
      /\ \A t \in Thread : pc[t] = "idle" /\ held[t] = 0 /\ t \notin waiting
  BY DEF Init, Readers, Writers, HighX, HighS, next_writer
<1>4. Cardinality({}) = 0
  BY FS_EmptySet
<1>5. OneWriter /\ Word /\ Owner
  BY <1>3, <1>4
  DEF Init, OneWriter, Word, Owner, WriterKnown, next_writer
<1>6. Counters /\ Cells /\ NextWriterWoken /\ FlagKept /\ Woken /\ FlagWaits
  BY <1>3, <1>4
  DEF Init, Counters, Cells, NextWriterWoken, FlagKept, Woken, FlagWaits,
      Failed
<1> QED BY <1>1, <1>2, <1>5, <1>6 DEF IndInv, LockInv, WakeInv

(* IndInv is inductive. *)
THEOREM RWLockInvariant == Spec => []IndInv
<1>1. Init => IndInv
  BY InitInv
<1>2. IndInv /\ [Next]_vars => IndInv'
  <2> SUFFICES ASSUME IndInv, [Next]_vars PROVE IndInv'
    OBVIOUS
  <2>1. ASSUME NEW t \in Thread, ThreadStep(t) PROVE IndInv'
    <3>1. LockInv'
      BY <2>1, BaseStep, LocalStep, OwnerStep, LockStep DEF IndInv, LockInv
    <3>2. WakeInv'
      BY <2>1, CountersStep, CellsStep, NextWriterStep, FlagKeptStep,
         FlagWaitsStep, WokenStep DEF WakeInv
    <3> QED BY <3>1, <3>2 DEF IndInv
  <2>2. CASE Monitor
    BY <2>2, MonitorStep
  <2>3. CASE UNCHANGED vars
    BY <2>3
    DEF vars, owner, announced, events, counts, IndInv, LockInv, BaseType,
        Local, Placed, Announced, OneWriter, Word, Owner, WriterKnown, again,
        Readers, Writers, next_writer, WakeInv, Counters, HighS, HighX,
        event_of, Cells, Failed, NextWriterWoken, FlagKept, FlagWaits, Woken,
        LiveX, LiveS, LiveL, WakesX, WakesS, Tries, At, readers_in
  <2> QED BY <2>1, <2>2, <2>3 DEF Next, ThreadStep
<1> QED BY <1>1, <1>2, PTL DEF Spec

(* The lock word stays between all the recursive x-locks of one writer and *)
(* a free lock, and the counters of waiters never go below zero.           *)
THEOREM RWLockTypeOK == Spec => []TypeOK
<1>1. ASSUME IndInv PROVE TypeOK
  <2>1. LockInv /\ Counters
    BY <1>1 DEF IndInv, WakeInv
  <2>2. lock_word \in -(X_LOCK_DECR + MaxDepth)..X_LOCK_DECR
    <3>1. /\ Cardinality(Readers) \in Nat /\ lock_word \in Int
          /\ Cardinality(Readers) < X_LOCK_DECR
      BY <2>1, WordFacts DEF LockInv, BaseType
    <3>2. CASE Writers = {}
      BY <2>1, <3>1, <3>2 DEF LockInv, Word
    <3>3. ASSUME NEW w \in Writers
          PROVE  lock_word \in -(X_LOCK_DECR + MaxDepth)..X_LOCK_DECR
      <4>1. w \in Thread /\ held[w] \in -1..MaxDepth
        BY <2>1 DEF Writers, LockInv, BaseType
      <4>2. CASE held[w] > 0
        BY <2>1, <3>1, <4>1, <4>2, WordFacts DEF again
      <4>3. CASE ~(held[w] > 0)
        BY <2>1, <3>1, <4>1, <4>3 DEF LockInv, Word, again
      <4> QED BY <4>2, <4>3
    <3> QED BY <3>2, <3>3
  <2> QED
    BY <1>1, <2>1, <2>2, HighFinite DEF TypeOK, LockInv, BaseType, Counters
<1> QED BY <1>1, RWLockInvariant, PTL

(* A writer is alone with the lock, and only one thread has reserved it. *)
THEOREM RWLockExclusive == Spec => []Exclusive
<1>1. ASSUME IndInv PROVE Exclusive
  <2> SUFFICES ASSUME NEW t \in Thread, NEW u \in Thread, t # u
               PROVE  /\ held[t] > 0 => held[u] = 0 /\ ~next_writer(u)
                      /\ ~(next_writer(t) /\ next_writer(u))
    BY DEF Exclusive
  <2>1. ~(t \in Writers /\ u \in Writers)
    BY <1>1 DEF IndInv, LockInv, OneWriter
  <2>2. held[t] > 0 => held[u] # -1
    BY <1>1 DEF IndInv, LockInv, OneWriter, Readers
  <2>3. held[u] \in -1..MaxDepth
    BY <1>1 DEF IndInv, LockInv, BaseType
  <2> QED BY <2>1, <2>2, <2>3 DEF Writers
<1> QED BY <1>1, RWLockInvariant, PTL

(* lock_word counts the readers, the writer and its recursive x-locks, as  *)
(* the comment on top of sync0rw.cc says.                                  *)
THEOREM RWLockWord == Spec => []LockWordCounts
<1>1. ASSUME IndInv PROVE LockWordCounts
  <2>1. LockInv
    BY <1>1 DEF IndInv
  <2>2. CASE Writers = {}
    BY <2>1, <2>2 DEF LockInv, Word, LockWordCounts, Writers, Readers
  <2>3. CASE Writers # {}
    <3> DEFINE w == CHOOSE t \in Thread : held[t] > 0 \/ next_writer(t)
    <3>1. w \in Thread /\ (held[w] > 0 \/ next_writer(w))
      BY <2>3 DEF Writers
    <3>2. lock_word = -Cardinality(Readers) - again(w)
      BY <2>1, <3>1 DEF LockInv, Word, Writers
    <3> QED BY <3>1, <3>2 DEF LockWordCounts, Readers, again
  <2> QED BY <2>2, <2>3
<1> QED BY <1>1, RWLockInvariant, PTL

(* Nobody takes the lock of another thread for its own: while recursive is *)
(* set, writer_thread names who has the lock or has reserved it.           *)
THEOREM RWLockWriterKnown == Spec => []WriterKnown
<1>1. IndInv => WriterKnown
  BY DEF IndInv, LockInv, Owner
<1> QED BY <1>1, RWLockInvariant, PTL

(* No wakeup is lost: threads never all sleep unsignalled, or have no      *)
(* business with the lock, while one of them waits for it.                 *)
THEOREM RWLockNobodyForgotten == Spec => []NobodyForgotten
<1>1. ASSUME IndInv PROVE NobodyForgotten
  <2> SUFFICES ASSUME \A t \in Thread :
                        \/ pc[t] = "idle" /\ held[t] = 0
                        \/ /\ pc[t] \in {"sleep", "sleep_ex"}
                           /\ ~signalled(t),
                      NEW t \in Thread, pc[t] # "idle"
               PROVE  FALSE
    BY DEF NobodyForgotten
  <2>1. \A u \in Thread : held[u] = 0
    BY <1>1 DEF IndInv, LockInv, Local, Placed, next_writer
  <2>2. Readers = {} /\ Cardinality(Readers) = 0
    BY <2>1, FS_EmptySet DEF Readers
  <2>3. \A u \in Thread : pc[u] # "idle" => ~changed[u]
    BY DEF signalled
  <2>4. ASSUME NEW u \in Thread, pc[u] = "sleep_ex" PROVE FALSE
    <3>1. readers_in
      BY <1>1, <2>3, <2>4 DEF IndInv, WakeInv, NextWriterWoken, At
    <3>2. u \in Writers
      BY <2>4 DEF Writers, next_writer
    <3>3. lock_word = -0 - 0
      BY <1>1, <2>1, <2>2, <3>2 DEF IndInv, LockInv, Word, again
    <3> QED BY <3>1, <3>3 DEF readers_in
  <2>5. \A u \in Thread : pc[u] \in {"idle", "sleep"}
    BY <2>4
  <2>6. Writers = {}
    BY <2>1, <2>5 DEF Writers, next_writer
  <2>7. \A v \in Thread : ~Tries(v, "X") /\ ~Tries(v, "S")
    BY <2>3, <2>5 DEF Tries, Asking
  <2>8. ~LiveX /\ ~LiveS /\ ~LiveL
    BY <2>2, <2>5, <2>6, <2>7 DEF LiveX, LiveS, LiveL, WakesX, WakesS, At
  <2>9. Failed(t) /\ ~changed[t]
    BY <1>1, <2>3, <2>5 DEF Failed, IndInv, LockInv, Local, Announced
  <2> QED BY <1>1, <2>8, <2>9 DEF IndInv, WakeInv, Woken, event_of
<1> QED BY <1>1, RWLockInvariant, PTL

=============================================================================
