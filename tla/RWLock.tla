------------------------------- MODULE RWLock -------------------------------
(***************************************************************************)
(* InnoDB's priority rw-lock: storage/innobase/sync/sync0rw.cc and         *)
(* include/sync0rw.ic, with the wait array (sync0arr.cc) and the events    *)
(* (os0sync.cc) that its waiters sleep on.                                 *)
(*                                                                         *)
(* lock_word is X_LOCK_DECR when the lock is free, one less for every      *)
(* reader, and X_LOCK_DECR less when a writer has the lock or has reserved *)
(* it and waits for the readers to leave.  Nobody sleeps under a mutex     *)
(* that the unlocker takes: who cannot have the lock resets an event,      *)
(* announces itself, tries once more and sleeps; who frees the lock looks  *)
(* for announcements and sets the event.  Threads of high priority have    *)
(* counters and events of their own, and others yield to them.             *)
(*                                                                         *)
(* A step is one atomic operation or one access to the state that others   *)
(* use, and memory is sequentially consistent (the code has its barriers). *)
(* Spinning only repeats the first try, so it is the thread being late.    *)
(* The wait array has a cell for every thread.                             *)
(***************************************************************************)
EXTENDS Integers, FiniteSets

CONSTANTS
  Thread,
  HighPriority,  \* threads with srv_current_thread_priority > 0
  X_LOCK_DECR,   \* more than the number of readers there can be
  MaxDepth,      \* bound: recursive x-locks
  MaxRequests,   \* bound: requests of all threads
  MaxMonitor     \* bound: threads the error monitor wakes

ASSUME RWLockAssumption ==
  /\ IsFiniteSet(Thread) /\ HighPriority \subseteq Thread
  /\ X_LOCK_DECR \in Nat /\ X_LOCK_DECR > Cardinality(Thread)
  /\ MaxDepth \in Nat \ {0} /\ MaxRequests \in Nat /\ MaxMonitor \in Nat

VARIABLES
  lock_word, recursive, writer_thread,
  waiters, high_priority_s_waiters, high_priority_x_waiters,
  high_priority_wait_ex_waiter,
  is_set,      \* state of each event
  cell,        \* the event a thread has reserved a cell for, the last one
  changed,     \* has signal_count changed since the thread reset it?
  pc, mode,    \* where a thread is, and what it asks for
  held,        \* x-locks a thread has; -1: an s-lock
  waiting,     \* threads that announced themselves and did not withdraw
  requests, monitored

owner     == <<recursive, writer_thread>>
announced == <<waiters, high_priority_s_waiters, high_priority_x_waiters,
               high_priority_wait_ex_waiter>>
events    == <<is_set, cell, changed>>
counts    == <<requests, monitored>>
vars == <<lock_word, owner, announced, events, pc, mode, held, waiting,
          counts>>

Event == {"event", "wait_ex", "high_s", "high_x"}
NoEvent == "none"

high(t) == t \in HighPriority

Goto(t, label) == pc' = [pc EXCEPT ![t] = label]

(***************************************************************************)
(* Events and the wait array.                                              *)
(***************************************************************************)

(* os_event_set: signal_count changes if the event was not set. *)
os_event_set(e) ==
  /\ is_set' = [is_set EXCEPT ![e] = TRUE]
  /\ changed' = [t \in Thread |-> changed[t] \/ (cell[t] = e /\ ~is_set[e])]
  /\ UNCHANGED cell

(* sync_array_reserve_cell resets the event and remembers signal_count. *)
reserve_cell(t, e) ==
  /\ is_set' = [is_set EXCEPT ![e] = FALSE]
  /\ cell' = [cell EXCEPT ![t] = e]
  /\ changed' = [changed EXCEPT ![t] = FALSE]

free_cell(t) ==
  /\ cell' = [cell EXCEPT ![t] = NoEvent]
  /\ changed' = [changed EXCEPT ![t] = FALSE]
  /\ UNCHANGED is_set

(* os_event_wait_low returns. *)
signalled(t) == is_set[cell[t]] \/ changed[t]

(* sync_cell_get_event, for the request of t. *)
event_of(t) ==
  IF ~high(t) THEN "event" ELSE IF mode[t] = "S" THEN "high_s" ELSE "high_x"

(***************************************************************************)
(* The lock word.                                                          *)
(***************************************************************************)

FaultAlsoZero == lock_word >= 0
can_decr == lock_word > 0

(* rw_lock_higher_prio_waiters_exist. *)
higher_prio_waiters_exist(t) ==
  /\ ~high(t)
  /\ \/ high_priority_wait_ex_waiter
     \/ high_priority_s_waiters > 0 \/ high_priority_x_waiters > 0

FaultOneLess == lock_word - 1
relocked_word == IF lock_word = 0 THEN lock_word - X_LOCK_DECR
                 ELSE lock_word - 1

(***************************************************************************)
(* Requests.                                                               *)
(***************************************************************************)

(* A thread that has nothing asks for either mode, one that has an x-lock  *)
(* for another; "N" is rw_lock_x_lock_func_nowait.                         *)
Request(t) ==
  /\ pc[t] = "idle" /\ requests < MaxRequests
  /\ \E m \in {"S", "X", "N"} :
       /\ IF m = "S" THEN held[t] = 0 ELSE held[t] \in 0..MaxDepth - 1
       /\ mode' = [mode EXCEPT ![t] = m]
       /\ Goto(t, IF m = "N" THEN "try" ELSE "check")
  /\ requests' = requests + 1
  /\ UNCHANGED <<lock_word, owner, announced, events, held, waiting,
                 monitored>>

(* The first try, before and while spinning. *)
Check(t) ==
  /\ pc[t] = "check"
  /\ Goto(t, IF higher_prio_waiters_exist(t) THEN "reserve" ELSE "try")
  /\ UNCHANGED <<lock_word, owner, announced, events, mode, held, waiting,
                 counts>>

(* rw_lock_s_lock_low: with success a reader is in. *)
s_lock_low(t, then, else) ==
  /\ mode[t] = "S"
  /\ IF can_decr
     THEN /\ lock_word' = lock_word - 1
          /\ held' = [held EXCEPT ![t] = -1]
          /\ Goto(t, then)
     ELSE Goto(t, else) /\ UNCHANGED <<lock_word, held>>

(* rw_lock_x_lock_low: the lock is reserved, or another x-lock of t. *)
x_lock_low(t) ==
  /\ mode[t] = "X"
  /\ IF can_decr
     THEN lock_word' = lock_word - X_LOCK_DECR /\ Goto(t, "set_writer")
     ELSE Goto(t, "relock") /\ UNCHANGED lock_word
  /\ UNCHANGED held

(* rw_lock_x_lock_func_nowait: no readers either. *)
x_lock_nowait(t) ==
  /\ mode[t] = "N"
  /\ IF lock_word = X_LOCK_DECR
     THEN lock_word' = 0 /\ Goto(t, "set_writer")
     ELSE Goto(t, "relock") /\ UNCHANGED lock_word
  /\ UNCHANGED held

Try(t) ==
  /\ pc[t] = "try"
  /\ \/ s_lock_low(t, "idle", "reserve")
     \/ x_lock_low(t)
     \/ x_lock_nowait(t)
  /\ UNCHANGED <<owner, announced, events, mode, waiting, counts>>

done(t) == IF t \in waiting THEN "got" ELSE "idle"

(* A thread that failed looks for its own x-lock.  The two fields are read *)
(* at once: writer_thread can only become t by t's own hand.               *)
Relock(t) ==
  /\ pc[t] = "relock"
  /\ IF recursive /\ writer_thread = t
     THEN /\ lock_word' = relocked_word
          /\ held' = [held EXCEPT ![t] = @ + 1]
          /\ Goto(t, done(t))
     ELSE /\ Goto(t, CASE mode[t] = "N" -> "idle"
                       [] mode[t] # "N" /\ t \in waiting -> "sleep"
                       [] OTHER -> "reserve")
          /\ UNCHANGED <<lock_word, held>>
  /\ UNCHANGED <<owner, announced, events, mode, waiting, counts>>

Reserve(t) ==
  /\ pc[t] = "reserve"
  /\ reserve_cell(t, event_of(t))
  /\ Goto(t, "announce")
  /\ UNCHANGED <<lock_word, owner, announced, mode, held, waiting, counts>>

(* The waiter flag, or a counter of waiters with high priority.  Only a    *)
(* reader looks for those once more.                                       *)
Announce(t) ==
  /\ pc[t] = "announce"
  /\ waiters' = (waiters \/ ~high(t))
  /\ high_priority_s_waiters' =
       high_priority_s_waiters + (IF event_of(t) = "high_s" THEN 1 ELSE 0)
  /\ high_priority_x_waiters' =
       high_priority_x_waiters + (IF event_of(t) = "high_x" THEN 1 ELSE 0)
  /\ waiting' = waiting \cup {t}
  /\ Goto(t, IF mode[t] = "S" THEN "check_again" ELSE "try_again")
  /\ UNCHANGED <<lock_word, owner, high_priority_wait_ex_waiter, events, mode,
                 held, counts>>

CheckAgain(t) ==
  /\ pc[t] = "check_again"
  /\ Goto(t, IF higher_prio_waiters_exist(t) THEN "sleep" ELSE "try_again")
  /\ UNCHANGED <<lock_word, owner, announced, events, mode, held, waiting,
                 counts>>

TryAgain(t) ==
  /\ pc[t] = "try_again"
  /\ s_lock_low(t, "got", "sleep") \/ x_lock_low(t)
  /\ UNCHANGED <<owner, announced, events, mode, waiting, counts>>

(* sync_array_wait_event, to sync_array_free_cell. *)
Sleep(t) ==
  /\ pc[t] = "sleep" /\ signalled(t)
  /\ free_cell(t)
  /\ Goto(t, "woken")
  /\ UNCHANGED <<lock_word, owner, announced, mode, held, waiting, counts>>

FaultGotKeepsCount(t, e) ==
  IF pc[t] = "woken" /\ event_of(t) = e THEN 1 ELSE 0
withdrawn(t, e) == IF event_of(t) = e THEN 1 ELSE 0

(* A counter goes down again after success ("got"), which frees the cell   *)
(* as well, or a sleep ("woken").                                          *)
Withdraw(t) ==
  /\ \/ pc[t] = "got" /\ free_cell(t) /\ Goto(t, "idle")
     \/ pc[t] = "woken" /\ Goto(t, "check") /\ UNCHANGED events
  /\ high_priority_s_waiters' =
       high_priority_s_waiters - withdrawn(t, "high_s")
  /\ high_priority_x_waiters' =
       high_priority_x_waiters - withdrawn(t, "high_x")
  /\ waiting' = waiting \ {t}
  /\ UNCHANGED <<lock_word, owner, waiters, high_priority_wait_ex_waiter, mode,
                 held, counts>>

(***************************************************************************)
(* A writer that has reserved the lock.                                    *)
(***************************************************************************)

FaultFlagFirst(t) ==
  /\ \/ pc[t] = "set_writer" /\ recursive' = TRUE
        /\ Goto(t, "set_recursive") /\ UNCHANGED writer_thread
     \/ pc[t] = "set_recursive" /\ writer_thread' = t
        /\ Goto(t, "readers") /\ UNCHANGED recursive
  /\ UNCHANGED <<lock_word, announced, events, mode, held, waiting, counts>>

(* rw_lock_set_writer_id_and_recursion_flag: the writer's name first. *)
set_writer_id(t) ==
  /\ \/ /\ pc[t] = "set_writer"
        /\ writer_thread' = t
        /\ Goto(t, "set_recursive")
        /\ UNCHANGED recursive
     \/ /\ pc[t] = "set_recursive"
        /\ recursive' = TRUE
        /\ Goto(t, CASE mode[t] = "N" -> "x_locked"
                     [] mode[t] # "N" /\ high(t) -> "flag"
                     [] OTHER -> "readers")
        /\ UNCHANGED writer_thread
  /\ UNCHANGED <<lock_word, announced, events, mode, held, waiting, counts>>

FlagWaitEx(t) ==
  /\ pc[t] = "flag"
  /\ high_priority_wait_ex_waiter' = TRUE
  /\ Goto(t, "readers")
  /\ UNCHANGED <<lock_word, owner, waiters, high_priority_s_waiters,
                 high_priority_x_waiters, events, mode, held, waiting, counts>>

readers_in == lock_word < 0

(* rw_lock_x_lock_wait: sleep on wait_ex_event while there are readers. *)
x_lock_wait(t) ==
  /\ \/ /\ pc[t] = "readers"
        /\ Goto(t, IF readers_in THEN "reserve_ex" ELSE "x_locked")
        /\ UNCHANGED events
     \/ /\ pc[t] = "reserve_ex"
        /\ reserve_cell(t, "wait_ex")
        /\ Goto(t, "readers_again")
     \/ /\ pc[t] = "readers_again"
        /\ IF readers_in THEN Goto(t, "sleep_ex") /\ UNCHANGED events
           ELSE Goto(t, "readers") /\ free_cell(t)
     \/ /\ pc[t] = "sleep_ex" /\ signalled(t)
        /\ free_cell(t)
        /\ Goto(t, "readers")
  /\ UNCHANGED <<lock_word, owner, announced, mode, held, waiting, counts>>

(* The readers are gone.  (Without high priority the flag is not touched;  *)
(* it cannot be set.)                                                      *)
XLocked(t) ==
  /\ pc[t] = "x_locked"
  /\ high_priority_wait_ex_waiter' = (high_priority_wait_ex_waiter /\ ~high(t))
  /\ held' = [held EXCEPT ![t] = 1]
  /\ Goto(t, done(t))
  /\ UNCHANGED <<lock_word, owner, waiters, high_priority_s_waiters,
                 high_priority_x_waiters, events, mode, waiting, counts>>

(***************************************************************************)
(* Releases.                                                               *)
(***************************************************************************)

FaultNoWakeByReader(word) == IF word = 0 THEN "set_wait_ex" ELSE "idle"

(* What the reader that leaves finds in lock_word. *)
s_wakes(word) ==
  CASE word = 0 -> "set_wait_ex"
    [] word = X_LOCK_DECR -> "waiters"
    [] OTHER -> "idle"

s_unlock(t) ==
  /\ pc[t] = "idle" /\ held[t] = -1
  /\ lock_word' = lock_word + 1
  /\ held' = [held EXCEPT ![t] = 0]
  /\ Goto(t, s_wakes(lock_word'))
  /\ UNCHANGED <<owner, announced, events, mode, waiting, counts>>

(* rw_lock_x_prepare_unlock resets the flag with the last x-lock. *)
x_prepare_unlock(t) ==
  /\ pc[t] = "idle" /\ held[t] > 0
  /\ recursive' = (recursive /\ lock_word # 0)
  /\ Goto(t, "x_unlock")
  /\ UNCHANGED <<lock_word, writer_thread, announced, events, mode, held,
                 waiting, counts>>

x_lock_incr == IF lock_word \in {0, -X_LOCK_DECR} THEN X_LOCK_DECR ELSE 1

x_unlock(t) ==
  /\ pc[t] = "x_unlock"
  /\ lock_word' = lock_word + x_lock_incr
  /\ held' = [held EXCEPT ![t] = @ - 1]
  /\ Goto(t, IF lock_word' = X_LOCK_DECR THEN "x_waiters" ELSE "idle")
  /\ UNCHANGED <<owner, announced, events, mode, waiting, counts>>

(* Who is woken: writers of high priority, else such readers, else all. *)
FindWaiters(t) ==
  /\ \/ /\ pc[t] = "x_waiters"
        /\ Goto(t, IF high_priority_x_waiters > 0 THEN "set_high_x"
                   ELSE "s_waiters")
     \/ /\ pc[t] = "s_waiters"
        /\ Goto(t, IF high_priority_s_waiters > 0 THEN "set_high_s"
                   ELSE "waiters")
     \/ /\ pc[t] = "waiters"
        /\ Goto(t, IF waiters THEN "reset" ELSE "idle")
  /\ UNCHANGED <<lock_word, owner, announced, events, mode, held, waiting,
                 counts>>

(* The flag is reset before the event is set. *)
ResetFlag(t) ==
  /\ pc[t] = "reset"
  /\ waiters' = FALSE
  /\ Goto(t, "set_event")
  /\ UNCHANGED <<lock_word, owner, high_priority_s_waiters,
                 high_priority_x_waiters, high_priority_wait_ex_waiter, events,
                 mode, held, waiting, counts>>

set_label == [event |-> "set_event", wait_ex |-> "set_wait_ex",
              high_s |-> "set_high_s", high_x |-> "set_high_x"]

SetEvent(t) ==
  /\ \E e \in Event : pc[t] = set_label[e] /\ os_event_set(e)
  /\ Goto(t, "idle")
  /\ UNCHANGED <<lock_word, owner, announced, mode, held, waiting, counts>>

(* sync_arr_wake_threads_if_sema_free, by the error monitor: it sets the   *)
(* event of every cell whose thread could go on, here of one.              *)
can_wake_up(t) == IF cell[t] = "wait_ex" THEN lock_word = 0
                  ELSE cell[t] # NoEvent /\ lock_word > 0

Monitor ==
  /\ monitored < MaxMonitor
  /\ \E t \in Thread : can_wake_up(t) /\ os_event_set(cell[t])
  /\ monitored' = monitored + 1
  /\ UNCHANGED <<lock_word, owner, announced, pc, mode, held, waiting,
                 requests>>

(***************************************************************************)
(* The specification.                                                      *)
(***************************************************************************)

Init ==
  /\ lock_word = X_LOCK_DECR
  /\ recursive = FALSE /\ writer_thread \in Thread
  /\ waiters = FALSE /\ high_priority_wait_ex_waiter = FALSE
  /\ high_priority_s_waiters = 0 /\ high_priority_x_waiters = 0
  /\ is_set = [e \in Event |-> FALSE]
  /\ cell = [t \in Thread |-> NoEvent] /\ changed = [t \in Thread |-> FALSE]
  /\ pc = [t \in Thread |-> "idle"] /\ mode = [t \in Thread |-> "S"]
  /\ held = [t \in Thread |-> 0]
  /\ waiting = {}
  /\ requests = 0 /\ monitored = 0

(* What a thread does once it has asked, its unlocks among them. *)
Step(t) ==
  \/ Check(t) \/ Try(t) \/ Relock(t)
  \/ Reserve(t) \/ Announce(t) \/ CheckAgain(t) \/ TryAgain(t)
  \/ Sleep(t) \/ Withdraw(t)
  \/ set_writer_id(t) \/ FlagWaitEx(t) \/ x_lock_wait(t) \/ XLocked(t)
  \/ x_unlock(t) \/ FindWaiters(t) \/ ResetFlag(t) \/ SetEvent(t)

Unlock(t) == s_unlock(t) \/ x_prepare_unlock(t)

Next == Monitor \/ \E t \in Thread : Request(t) \/ Step(t) \/ Unlock(t)

Spec == Init /\ [][Next]_vars

(***************************************************************************)
(* Properties.                                                             *)
(***************************************************************************)

Label == {"idle", "check", "try", "relock", "reserve", "announce",
          "check_again", "try_again", "sleep", "got", "woken", "set_writer",
          "set_recursive", "flag", "readers", "reserve_ex", "readers_again",
          "sleep_ex", "x_locked", "x_unlock", "x_waiters", "s_waiters",
          "waiters", "reset", "set_event", "set_wait_ex", "set_high_s",
          "set_high_x"}

(* Has reserved the lock as the next writer, for whom readers leave. *)
next_writer(t) ==
  pc[t] \in {"set_writer", "set_recursive", "flag", "readers", "reserve_ex",
             "readers_again", "sleep_ex", "x_locked"}

(* Types; the lock word stays between all the recursive x-locks and free,  *)
(* and no more threads of high priority are counted than there are, which  *)
(* is what keeps the unsigned counters from going below zero.              *)
TypeOK ==
  /\ lock_word \in -(X_LOCK_DECR + MaxDepth)..X_LOCK_DECR
  /\ recursive \in BOOLEAN /\ writer_thread \in Thread
  /\ waiters \in BOOLEAN /\ high_priority_wait_ex_waiter \in BOOLEAN
  /\ high_priority_s_waiters \in 0..Cardinality(HighPriority)
  /\ high_priority_x_waiters \in 0..Cardinality(HighPriority)
  /\ is_set \in [Event -> BOOLEAN]
  /\ cell \in [Thread -> Event \cup {NoEvent}]
  /\ changed \in [Thread -> BOOLEAN]
  /\ pc \in [Thread -> Label] /\ mode \in [Thread -> {"S", "X", "N"}]
  /\ held \in [Thread -> -1..MaxDepth]
  /\ waiting \subseteq Thread
  /\ requests \in 0..MaxRequests /\ monitored \in 0..MaxMonitor

(* A writer is alone: no reader and no other writer has the lock with it,  *)
(* and at most one thread has it or has reserved it.                       *)
Exclusive ==
  \A t, u \in Thread :
    t # u => /\ held[t] > 0 => held[u] = 0 /\ ~next_writer(u)
             /\ ~(next_writer(t) /\ next_writer(u))

(* lock_word says who has the lock, as the comment on top of sync0rw.cc    *)
(* lists its values: the readers, one writer or next writer, and how often *)
(* a writer has the lock.                                                  *)
LockWordCounts ==
  LET readers == Cardinality({t \in Thread : held[t] = -1})
      writer(t) == held[t] > 0 \/ next_writer(t)
      again(t) == IF held[t] < 2 THEN 0 ELSE X_LOCK_DECR + held[t] - 2
  IN  lock_word =
        IF \E t \in Thread : writer(t)
        THEN -readers - again(CHOOSE t \in Thread : writer(t))
        ELSE X_LOCK_DECR - readers

(* While recursive is set writer_thread names the thread that has the lock *)
(* or has reserved it, so nobody else takes it for its own, and the        *)
(* assertion ut_a(!lock->recursive) of the next writer holds.              *)
WriterKnown ==
  recursive => held[writer_thread] > 0 \/ next_writer(writer_thread)

(* No wakeup is lost, without the help of the error monitor: threads never *)
(* all sleep, or have no business with the lock, while one waits for it.   *)
NobodyForgotten ==
  (\A t \in Thread : \/ pc[t] = "idle" /\ held[t] = 0
                     \/ pc[t] \in {"sleep", "sleep_ex"} /\ ~signalled(t))
    => \A t \in Thread : pc[t] = "idle"

============================================================================
