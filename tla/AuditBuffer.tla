---------------------------- MODULE AuditBuffer ----------------------------
(***************************************************************************)
(* The buffer of the audit log plugin: plugin/audit_log/buffer.c, with the *)
(* operations of plugin/audit_log/audit_file.c that use it.                *)
(*                                                                         *)
(* Sessions copy their records into a ring buffer that one worker thread   *)
(* writes to the log file.  A record that ends past the buffer's end wraps *)
(* and reaches the file in two writes; in between, the state is            *)
(* INCOMPLETE, and whoever wants to touch the file itself (a record larger *)
(* than the buffer, SET GLOBAL audit_log_flush) has to wait.               *)
(*                                                                         *)
(* An action is what happens under the mutex, or one call of write_func.   *)
(* written_cond only shortens a wait of at most one second, so the         *)
(* worker's wait is the guard of its next step.  Writing to the file does  *)
(* not fail, and is one append, also when two threads are in the logger: a *)
(* pause does not stop a worker that is writing complete records.          *)
(***************************************************************************)
EXTENDS Integers, Sequences, FiniteSets

CONSTANTS
  Writer,      \* sessions
  NoOne,       \* an unlocked mutex
  Size,        \* audit_log_buffer_size
  Lengths,     \* lengths of records
  DropModes,   \* values drop_if_full may have (audit_log_strategy)
  MaxRecords,  \* bound: records written by one session
  MaxReopens   \* bound: times audit_log_flush is set

ASSUME BufferAssumption ==
  /\ NoOne \notin Writer /\ IsFiniteSet(Writer)
  /\ Size \in Nat \ {0}
  /\ Lengths \subseteq Nat \ {0}
  /\ DropModes \subseteq BOOLEAN /\ DropModes # {}
  /\ MaxRecords \in Nat /\ MaxReopens \in Nat

VARIABLES
  pc,            \* where each session is
  worker,        \* where audit_log_flush_worker is
  arg,           \* what each session writes: its bytes, or the reopening
  buf, write_pos, flush_pos, state, mutex, stop, drop_if_full,
  flushlen,      \* local of audit_log_flush
  file,          \* what was written to the log, over all reopenings
  accepted,      \* bytes that went into the buffer, in that order
  records,       \* records issued by each session
  reopens        \* times the log was reopened

ring == <<buf, write_pos, flush_pos, state, mutex>>
vars == <<pc, worker, arg, ring, stop, drop_if_full, flushlen, file, accepted,
          records, reopens>>

(* The bytes of the n-th record of session w, of length len. *)
Bytes(w, n, len) == [k \in 1..len |-> [by |-> w, no |-> n, at |-> k, len |-> len]]
Byte == [by : Writer \cup {NoOne}, no : 0..MaxRecords, at : Nat, len : Nat]

Return(w) == /\ pc' = [pc EXCEPT ![w] = "idle"]
             /\ arg' = [arg EXCEPT ![w] = <<>>]

(* Footer and header that logger_reopen writes count as one byte; calloc   *)
(* leaves zeros.                                                           *)
Reopening == [by |-> NoOne, no |-> 0, at |-> 1, len |-> 1]
Zero == [by |-> NoOne, no |-> 0, at |-> 0, len |-> 0]

Label == {"idle", "write", "full", "pause", "pausing", "bypass"}

(* What lies in the buffer from position pos on. *)
Region(pos, len) == [i \in 1..len |-> buf[(pos + i - 1) % Size]]

(* mysql_cond_broadcast(&flushed_cond): every waiter competes for the      *)
(* mutex again.                                                            *)
Awake(w) ==
  CASE pc[w] = "full" -> "write" [] pc[w] = "pausing" -> "pause"
    [] OTHER -> pc[w]

FaultSilent == UNCHANGED pc
broadcast == pc' = [w \in Writer |-> Awake(w)]

(***************************************************************************)
(* Sessions.                                                               *)
(***************************************************************************)

(* audit_log_buffer_write is called.  A record that can never fit is       *)
(* written past the buffer, or dropped.                                    *)
Write(w) ==
  /\ pc[w] = "idle" /\ ~stop /\ records[w] < MaxRecords
  /\ records' = [records EXCEPT ![w] = @ + 1]
  /\ \E len \in Lengths :
       IF len > Size /\ drop_if_full
       THEN UNCHANGED <<pc, arg>>
       ELSE /\ arg' = [arg EXCEPT ![w] = Bytes(w, records[w] + 1, len)]
            /\ pc' = [pc EXCEPT ![w] = IF len > Size THEN "pause" ELSE "write"]
  /\ UNCHANGED <<worker, ring, stop, drop_if_full, flushlen, file, accepted,
                 reopens>>

FaultOneTooMany(len) == write_pos + len <= flush_pos + Size + 1
fits(len) == write_pos + len <= flush_pos + Size

(* The rest of audit_log_buffer_write, under the mutex: the record is      *)
(* copied, in two parts if it wraps; or the session waits for flushed_cond *)
(* (which releases the mutex), or drops the record.                        *)
BufferWrite(w) ==
  LET len == Len(arg[w]) IN
  /\ pc[w] = "write" /\ mutex = NoOne
  /\ IF fits(len)
     THEN /\ buf' = [i \in 0..Size - 1 |->
                       LET k == ((i - write_pos) % Size) + 1 IN
                       IF k <= len THEN arg[w][k] ELSE buf[i]]
          /\ write_pos' = write_pos + len
          /\ accepted' = accepted \o arg[w]
          /\ Return(w)
     ELSE /\ IF drop_if_full
             THEN Return(w)
             ELSE pc' = [pc EXCEPT ![w] = "full"] /\ UNCHANGED arg
          /\ UNCHANGED <<buf, write_pos, accepted>>
  /\ UNCHANGED <<worker, flush_pos, state, mutex, stop, drop_if_full,
                 flushlen, file, records, reopens>>

(* audit_handler_file_flush, by SET GLOBAL audit_log_flush = ON; one SET   *)
(* GLOBAL at a time.                                                       *)
Reopen(w) ==
  /\ pc[w] = "idle" /\ ~stop /\ reopens < MaxReopens
  /\ \A v \in Writer : arg[v] # <<Reopening>>
  /\ reopens' = reopens + 1
  /\ arg' = [arg EXCEPT ![w] = <<Reopening>>]
  /\ pc' = [pc EXCEPT ![w] = "pause"]
  /\ UNCHANGED <<worker, ring, stop, drop_if_full, flushlen, file, accepted,
                 records>>

FaultNeverWaits == FALSE
incomplete == state = "INCOMPLETE"

audit_log_buffer_pause(w) ==
  /\ pc[w] = "pause" /\ mutex = NoOne
  /\ IF incomplete
     THEN pc' = [pc EXCEPT ![w] = "pausing"] /\ UNCHANGED mutex
     ELSE pc' = [pc EXCEPT ![w] = "bypass"] /\ mutex' = w
  /\ UNCHANGED <<worker, arg, buf, write_pos, flush_pos, state, stop,
                 drop_if_full, flushlen, file, accepted, records, reopens>>

(* What is done between pause and resume, and audit_log_buffer_resume. *)
audit_log_buffer_resume(w) ==
  /\ pc[w] = "bypass"
  /\ file' = file \o arg[w]
  /\ mutex' = NoOne
  /\ Return(w)
  /\ UNCHANGED <<worker, buf, write_pos, flush_pos, state, stop,
                 drop_if_full, flushlen, accepted, records, reopens>>

(* audit_log_buffer_shutdown: the plugin is uninstalled when no session    *)
(* uses it.                                                                *)
audit_log_buffer_shutdown ==
  /\ ~stop /\ \A w \in Writer : pc[w] = "idle"
  /\ stop' = TRUE
  /\ UNCHANGED <<pc, worker, arg, ring, drop_if_full, flushlen, file, accepted,
                 records, reopens>>

(***************************************************************************)
(* The worker: audit_log_flush, again and again.                           *)
(***************************************************************************)

FaultAfterEnd == flush_pos > write_pos % Size
wraps == flush_pos >= write_pos % Size

(* There is something to flush.  What wraps is written up to the end of    *)
(* the buffer, and the last record of that may lack its end.               *)
FlushBegin ==
  /\ worker = "run" /\ mutex = NoOne
  /\ flush_pos # write_pos
  /\ IF wraps
     THEN /\ worker' = "tail" /\ state' = "INCOMPLETE"
          /\ flushlen' = Size - flush_pos
     ELSE /\ worker' = "rest" /\ flushlen' = write_pos - flush_pos
          /\ UNCHANGED state
  /\ UNCHANGED <<pc, arg, buf, write_pos, flush_pos, mutex, stop, drop_if_full,
                 file, accepted, records, reopens>>

(* write_func, without the mutex. *)
FlushWrite ==
  /\ worker \in {"tail", "rest"}
  /\ file' = file \o Region(flush_pos, flushlen)
  /\ worker' = IF worker = "tail" THEN "tail_done" ELSE "rest_done"
  /\ UNCHANGED <<pc, arg, ring, stop, drop_if_full, flushlen, accepted,
                 records, reopens>>

FlushEnd ==
  /\ mutex = NoOne
  /\ \/ /\ worker = "tail_done"
        /\ flush_pos' = 0 /\ write_pos' = write_pos % Size
        /\ UNCHANGED state
     \/ /\ worker = "rest_done"
        /\ flush_pos' = flush_pos + flushlen /\ state' = "COMPLETE"
        /\ UNCHANGED write_pos
  /\ broadcast
  /\ worker' = "run" /\ flushlen' = 0
  /\ UNCHANGED <<arg, buf, mutex, stop, drop_if_full, file, accepted,
                 records, reopens>>

(* The loop of audit_log_flush_worker is left; the shutdown joins it. *)
FaultLeavesAtOnce == TRUE
drained == flush_pos = write_pos
WorkerExit ==
  /\ worker = "run" /\ stop /\ drained
  /\ worker' = "exit"
  /\ UNCHANGED <<pc, arg, ring, stop, drop_if_full, flushlen, file, accepted,
                 records, reopens>>

(***************************************************************************)
(* The specification.                                                      *)
(***************************************************************************)

(* audit_log_buffer_init. *)
Init ==
  /\ pc = [w \in Writer |-> "idle"]
  /\ worker = "run"
  /\ arg = [w \in Writer |-> <<>>]
  /\ buf = [i \in 0..Size - 1 |-> Zero]
  /\ write_pos = 0 /\ flush_pos = 0
  /\ state = "COMPLETE"
  /\ mutex = NoOne
  /\ stop = FALSE
  /\ drop_if_full \in DropModes
  /\ flushlen = 0
  /\ file = <<>>
  /\ accepted = <<>>
  /\ records = [w \in Writer |-> 0]
  /\ reopens = 0

Session(w) ==
  \/ BufferWrite(w) \/ audit_log_buffer_pause(w) \/ audit_log_buffer_resume(w)

Flusher == FlushBegin \/ FlushWrite \/ FlushEnd \/ WorkerExit

Next ==
  \/ \E w \in Writer : Write(w) \/ Reopen(w)
  \/ \E w \in Writer : Session(w)
  \/ Flusher
  \/ audit_log_buffer_shutdown

Spec == Init /\ [][Next]_vars

(* Every thread is scheduled, and the worker's wait ends every second.     *)
FairSpec == Spec /\ WF_vars(Flusher) /\ \A w \in Writer : WF_vars(Session(w))

(***************************************************************************)
(* Properties.                                                             *)
(***************************************************************************)

(* Types.  The bounds of the two positions are what keeps every memcpy and *)
(* every write inside the buffer.                                          *)
TypeOK ==
  /\ pc \in [Writer -> Label]
  /\ worker \in {"run", "tail", "tail_done", "rest", "rest_done", "exit"}
  /\ flush_pos \in 0..Size - 1
  /\ write_pos \in flush_pos..flush_pos + Size
  /\ flushlen \in 0..Size
  /\ state \in {"COMPLETE", "INCOMPLETE"}
  /\ mutex \in Writer \cup {NoOne}
  /\ buf \in [0..Size - 1 -> Byte]

(* How much of the buffer is in the file already. *)
InFile == IF worker \in {"tail_done", "rest_done"} THEN flushlen ELSE 0

(* Where the file has what came through the buffer. *)
ThroughBuffer == {i \in 1..Len(file) : file[i].by # NoOne /\ file[i].len <= Size}
Rank(i) == Cardinality({j \in ThroughBuffer : j <= i})

(* Every byte the buffer took is in the file or still in the buffer, once  *)
(* and in the order of the calls, whatever wraps and whoever waits.        *)
NothingLost ==
  LET start == flush_pos + InFile
      out   == Cardinality(ThroughBuffer) IN
  /\ Len(accepted) = out + write_pos - start
  /\ \A i \in ThroughBuffer : file[i] = accepted[Rank(i)]
  /\ \A p \in start..write_pos - 1 :
       buf[p % Size] = accepted[out + 1 + p - start]

(* A record is never torn: nothing is written into the middle of another   *)
(* record, and the file is not reopened there.                             *)
RecordsWhole ==
  \A i \in 1..Len(file) :
    \/ file[i].at = 1
    \/ i > 1 /\ file[i-1] = [file[i] EXCEPT !.at = @ - 1]
RecordsEnd ==
  \A i \in 1..Len(file) - 1 :
    file[i].at < file[i].len =>
      file[i+1] = [file[i] EXCEPT !.at = @ + 1]
NothingTorn == RecordsWhole /\ RecordsEnd

(* Nobody overwrites what the worker is writing without the mutex. *)
InFlight == IF worker \in {"tail", "rest"}
            THEN flush_pos..flush_pos + flushlen - 1 ELSE {}
InFlightKept == \A i \in InFlight : buf'[i] = buf[i]
FlushedRegionStable == [][InFlightKept]_vars

(* A buffer that was flushed up to its very end: there is nothing left to  *)
(* flush, and the state says that a record's end is still to come.         *)
LeftIncomplete == incomplete /\ drained

(* Whoever is inside the buffer's code comes out of it, a session that     *)
(* waits for room as well as one that has to pause the worker, for a large *)
(* record or a reopening.  There is one exception, and it is a hang: a     *)
(* pause that meets an empty buffer left INCOMPLETE lasts until another    *)
(* record is flushed, for ever if nobody writes one.                       *)
WritesReturn ==
  \A w \in Writer :
    pc[w] # "idle" ~>
      \/ pc[w] = "idle"
      \/ pc[w] \in {"pause", "pausing"} /\ LeftIncomplete

(* What is in the buffer when the plugin is shut down reaches the file     *)
(* before the worker leaves, and it does leave.                            *)
ShutdownDrains ==
  stop ~> worker = "exit" /\ flush_pos = write_pos

============================================================================
