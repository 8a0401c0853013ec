----------------------------- MODULE AuditFiles -----------------------------
(***************************************************************************)
(* The files of the audit log: plugin/audit_log/file_logger.c, as          *)
(* audit_file.c uses it.                                                   *)
(*                                                                         *)
(* When the log has reached its size limit it is rotated: every old file   *)
(* moves up by one name, the log becomes file 1 and a new log is opened.   *)
(* A record may come in two writes (AuditBuffer), then the first is marked *)
(* INCOMPLETE.  SET GLOBAL audit_log_flush closes and reopens the log.     *)
(*                                                                         *)
(* One thread at a time is in the logger: its mutex sees to it, or the     *)
(* pausing of the buffer when the logger is opened without one.  A system  *)
(* call is a step, so that the server can be killed after each; rename,    *)
(* open and close may fail.  A directory gives names to files, and an open *)
(* descriptor stays with its file whatever happens to the name.  Sizes are *)
(* counted in writes, header and footer are left out, and all numbers of   *)
(* old files have the same number of digits.  A rotation reads rotations   *)
(* once.                                                                   *)
(***************************************************************************)
EXTENDS Integers, Sequences, FiniteSets

CONSTANTS
  Session,       \* threads that write records
  NoOne,         \* the mutex is free
  Strategies,    \* values of audit_log_strategy
  RotationsAtStart, LimitsAtStart, \* values of the two options at startup
  MaxRotations,  \* bound: names of old files
  FileErrors,    \* may rename, open and close fail?
  MaxRecords,    \* bound: records
  MaxReopens,    \* bound: SET GLOBAL audit_log_flush
  MaxSets,       \* bound: SET GLOBAL of the two options
  MaxCrashes     \* bound: times the log is closed or the server killed

ASSUME FilesAssumption ==
  /\ NoOne \notin Session
  /\ Strategies \subseteq {"ASYNCHRONOUS", "SEMISYNCHRONOUS", "SYNCHRONOUS"}
  /\ RotationsAtStart \subseteq 0..MaxRotations /\ LimitsAtStart \subseteq Nat
  /\ FileErrors \in BOOLEAN
  /\ {MaxRotations, MaxRecords, MaxReopens, MaxSets, MaxCrashes} \subseteq Nat

VARIABLES
  strategy, configured,   \* read only; options the server starts with
  dir, content,           \* the file of each name (0: none); what is in it
  synced,                 \* how much of each file is on disk
  file, path,             \* log->file and log->path
  rotations, size_limit,
  lock, pc,               \* who is in the logger
  i, in_path,             \* do_rotate's i; is buf_old log->path?
  records, half,          \* records begun; is the last one INCOMPLETE?
  own,                    \* the record each thread writes
  written,                \* history: all that was written
  answered,               \* history: records whose write (and sync) succeeded
  strayed,                \* history: was an old file ever reopened?
  reopens, sets, crashes

files   == <<dir, content, synced>>
handle  == <<file, path>>
options == <<rotations, size_limit>>
loop    == <<i, in_path>>
history == <<written, answered, strayed>>
counts  == <<reopens, sets, crashes>>
vars == <<strategy, configured, files, handle, options, lock, pc, loop,
          records, half, own, history, counts>>

Name == 0..MaxRotations   \* 0 is the log, n is "log.n"

FaultWrongStrategy == strategy = "SEMISYNCHRONOUS"
sync_on_write == strategy = "SYNCHRONOUS"
use_buffer    == strategy = "ASYNCHRONOUS"

(***************************************************************************)
(* The file system.                                                        *)
(***************************************************************************)

(* open(O_APPEND | O_CREAT): what an existing file has stays. *)
FaultTruncates(f) == [content EXCEPT ![f] = <<>>]
opened_content(f) == content

Open(name) ==
  IF dir[name] # 0
  THEN /\ file' = dir[name]
       /\ content' = opened_content(dir[name])
       /\ UNCHANGED <<dir, synced>>
  ELSE /\ file' = Len(content) + 1
       /\ dir' = [dir EXCEPT ![name] = Len(content) + 1]
       /\ content' = Append(content, <<>>)
       /\ synced' = Append(synced, 0)

(* open fails: log->file is -1 (0 here).  From then on every write, sync   *)
(* and reopening fails and changes nothing, until the log is opened anew.  *)
(* A descriptor whose close has failed is taken for closed all the same.   *)
OpenFails == FileErrors /\ file' = 0 /\ UNCHANGED files

Rename(old, new) == dir' = [dir EXCEPT ![new] = dir[old], ![old] = 0]

(***************************************************************************)
(* logger_write.                                                           *)
(***************************************************************************)

needs_rotation(complete, size) ==
  complete /\ rotations > 0 /\ size >= size_limit

(* The thread leaves the logger; with SYNCHRONOUS it has yet to sync. *)
Leave(w, no) ==
  /\ lock' = NoOne
  /\ pc' = [pc EXCEPT ![w] = IF sync_on_write THEN "sync" ELSE "idle"]
  /\ answered' = IF sync_on_write THEN answered ELSE answered \cup {no}

(* Only the buffer writes a record in two parts; the second part of n is   *)
(* written as -n.                                                          *)
logger_write(w) ==
  /\ pc[w] = "idle" /\ lock = NoOne /\ file # 0
  /\ half \/ records < MaxRecords
  /\ \E complete \in IF use_buffer THEN BOOLEAN ELSE {TRUE} :
       LET no   == IF half THEN records ELSE records + 1
           part == IF half THEN -records ELSE no IN
       /\ half => complete
       /\ content' = [content EXCEPT ![file] = Append(@, part)]
       /\ written' = Append(written, part)
       /\ records' = no
       /\ half' = ~complete
       /\ own' = [own EXCEPT ![w] = no]
       /\ IF needs_rotation(complete, Len(content[file]) + 1)
          THEN /\ lock' = w /\ i' = rotations - 1 /\ in_path' = TRUE
               /\ pc' = [pc EXCEPT ![w] = "rename"]
               /\ UNCHANGED answered
          ELSE Leave(w, no) /\ UNCHANGED loop
  /\ UNCHANGED <<strategy, configured, dir, synced, handle, options, strayed,
                 counts>>

(* The loop of do_rotate.  log->path serves as one of the two buffers for  *)
(* the names, in turn the old name and the new one.                        *)
RenameOlder(w) ==
  /\ pc[w] = "rename" /\ i > 0
  /\ path' = IF in_path THEN i ELSE path
  /\ in_path' = ~in_path
  /\ \/ /\ IF dir[i] # 0 THEN Rename(i, i + 1) ELSE UNCHANGED dir
        /\ i' = i - 1
        /\ UNCHANGED <<lock, pc, answered>>
     \/ /\ FileErrors /\ dir[i] # 0
        /\ Leave(w, own[w])
        /\ UNCHANGED <<dir, i>>
  /\ UNCHANGED <<strategy, configured, content, synced, file, options,
                 records, half, own, written, strayed, counts>>

(* The log is closed and renamed, whether or not that works. *)
RenameLog(w) ==
  /\ pc[w] = "rename" /\ i = 0
  /\ file' = 0 /\ path' = 1
  /\ \/ dir[0] # 0 /\ Rename(0, 1)
     \/ (dir[0] = 0 \/ FileErrors) /\ UNCHANGED dir
  /\ pc' = [pc EXCEPT ![w] = "open"]
  /\ UNCHANGED <<strategy, configured, content, synced, options, lock, loop,
                 records, half, own, history, counts>>

(* The log cannot be closed, and the rotation ends there. *)
CloseFails(w) ==
  /\ pc[w] = "rename" /\ i = 0
  /\ OpenFails
  /\ Leave(w, own[w])
  /\ UNCHANGED <<strategy, configured, path, options, loop, records, half,
                 own, written, strayed, counts>>

OpenLog(w) ==
  /\ pc[w] = "open"
  /\ Open(0) \/ OpenFails
  /\ Leave(w, own[w])
  /\ UNCHANGED <<strategy, configured, path, options, loop, records, half,
                 own, written, strayed, counts>>

(* logger_sync, without the mutex: the file that is open by now, if any.   *)
logger_sync(w) ==
  /\ pc[w] = "sync"
  /\ synced' = IF file = 0 THEN synced
               ELSE [synced EXCEPT ![file] = Len(content[file])]
  /\ pc' = [pc EXCEPT ![w] = "idle"]
  /\ answered' = IF file = 0 THEN answered ELSE answered \cup {own[w]}
  /\ UNCHANGED <<strategy, configured, dir, content, handle, options, lock,
                 loop, records, half, own, written, strayed, counts>>

(***************************************************************************)
(* The administrator.                                                      *)
(***************************************************************************)

(* logger_reopen, never between the parts of a record. *)
logger_reopen ==
  /\ lock = NoOne /\ file # 0 /\ ~half /\ reopens < MaxReopens
  /\ reopens' = reopens + 1
  /\ \/ Open(path) /\ strayed' = (strayed \/ path # 0)
     \/ OpenFails /\ UNCHANGED strayed
  /\ UNCHANGED <<strategy, configured, path, options, lock, pc, loop, records,
                 half, own, written, answered, sets, crashes>>

(* audit_handler_file_set_option: either option sets the other's field.    *)
audit_handler_file_set_option ==
  /\ file # 0 /\ sets < MaxSets
  /\ sets' = sets + 1
  /\ \E val \in Name :
       \/ rotations' = val /\ UNCHANGED size_limit
       \/ size_limit' = val /\ UNCHANGED rotations
  /\ UNCHANGED <<strategy, configured, files, handle, lock, pc, loop, records,
                 half, own, history, reopens, crashes>>

(* logger_close, when nobody uses the plugin any more. *)
logger_close ==
  /\ crashes < MaxCrashes /\ file # 0 /\ lock = NoOne /\ ~half
  /\ \A w \in Session : pc[w] = "idle"
  /\ crashes' = crashes + 1
  /\ file' = 0
  /\ UNCHANGED <<strategy, configured, files, path, options, lock, pc, loop,
                 records, half, own, history, reopens, sets>>

(* The server is killed: what was written stays in the files. *)
Kill ==
  /\ crashes < MaxCrashes
  /\ file # 0 \/ lock # NoOne
  /\ crashes' = crashes + 1
  /\ file' = 0 /\ lock' = NoOne /\ half' = FALSE
  /\ pc' = [w \in Session |-> "idle"]
  /\ UNCHANGED <<strategy, configured, files, path, options, loop, records,
                 own, history, reopens, sets>>

(* logger_open, by a server that starts: after a kill, a close, or with a  *)
(* log that was not open any more.                                         *)
logger_open ==
  /\ file = 0 /\ lock = NoOne /\ \A w \in Session : pc[w] = "idle"
  /\ Open(0)
  /\ path' = 0
  /\ rotations' = IF configured.limit = 0 THEN 0 ELSE configured.rotations
  /\ size_limit' = configured.limit
  /\ UNCHANGED <<strategy, configured, lock, pc, loop, records, half, own,
                 history, counts>>

(***************************************************************************)
(* The specification.                                                      *)
(***************************************************************************)

Init ==
  /\ strategy \in Strategies
  /\ configured \in [rotations : RotationsAtStart, limit : LimitsAtStart]
  /\ dir = [n \in Name |-> 0] /\ content = <<>> /\ synced = <<>>
  /\ file = 0 /\ path = 0
  /\ rotations = 0 /\ size_limit = 0
  /\ lock = NoOne /\ pc = [w \in Session |-> "idle"]
  /\ i = 0 /\ in_path = FALSE
  /\ records = 0 /\ half = FALSE /\ own = [w \in Session |-> 0]
  /\ written = <<>> /\ answered = {} /\ strayed = FALSE
  /\ reopens = 0 /\ sets = 0 /\ crashes = 0

Next ==
  \/ \E w \in Session :
       \/ logger_write(w) \/ logger_sync(w)
       \/ RenameOlder(w) \/ RenameLog(w) \/ CloseFails(w) \/ OpenLog(w)
  \/ logger_reopen \/ audit_handler_file_set_option
  \/ Kill \/ logger_close \/ logger_open

Spec == Init /\ [][Next]_vars

(***************************************************************************)
(* Properties.                                                             *)
(***************************************************************************)

(* Types; every name used in a rotation is the name of a file. *)
TypeOK ==
  /\ dir \in [Name -> 0..Len(content)]
  /\ Len(synced) = Len(content)
  /\ file \in 0..Len(content) /\ path \in Name
  /\ i \in Name /\ rotations \in Name /\ size_limit \in Nat
  /\ lock \in Session \cup {NoOne}
  /\ pc \in [Session -> {"idle", "rename", "open", "sync"}]
  /\ records \in 0..MaxRecords /\ half \in BOOLEAN
  /\ answered \subseteq 1..MaxRecords

(* The places that can be read: part k of the file with name n.  The files *)
(* are read from the highest number to the log, and Behind(p) is what is   *)
(* read after place p.                                                     *)
Read(n) == IF dir[n] = 0 THEN <<>> ELSE content[dir[n]]
Place == UNION {{n} \X (1..Len(Read(n))) : n \in Name}
At(p) == Read(p[1])[p[2]]
Behind(p) ==
  {q \in Place : q[1] < p[1] \/ (q[1] = p[1] /\ p[2] < q[2])}

(* The two parts of a record are in one file, one right behind the other.  *)
RecordsInOneFile ==
  \A f \in 1..Len(content) : \A k \in 1..Len(content[f]) :
    content[f][k] < 0 => k > 1 /\ content[f][k-1] = -content[f][k]

(* What is read is in the order in which it was written, each part once. *)
Later(x, y) == (x < y /\ -x < y) \/ (x < -y /\ -x < -y) \/ (x > 0 /\ y = -x)
ReadInOrder == \A p \in Place : \A q \in Behind(p) : Later(At(p), At(q))

(* What is read is the end of all that was written, with nothing missing:  *)
(* as much is behind a part in the files as was written after it.          *)
NothingMissing ==
  \A p \in Place :
    \E n \in 1..Len(written) :
      written[n] = At(p) /\ n + Cardinality(Behind(p)) = Len(written)

(* The files, read from the oldest name to the log, hold the newest        *)
(* records, each once, whole in one file and in the order they were        *)
(* written, at every step of a rotation, when one of its calls fails, and  *)
(* when the server is killed in the middle of it and restarted.  (Until an *)
(* old file is reopened; with options that are changed, records in between *)
(* may be gone but the order remains.  A record whose write failed was not *)
(* written.)                                                               *)
NewestKept ==
  /\ RecordsInOneFile
  /\ ~strayed => ReadInOrder
  /\ ~strayed /\ sets = 0 => NothingMissing

(* With SYNCHRONOUS, a record that is in the current log and whose write   *)
(* and sync have succeeded is on disk, though other threads write, rotate  *)
(* and reopen between the two.  (What a rotation has moved away in between *)
(* is not synced: the record that makes the log reach its limit never is.) *)
SyncedUnlessRotated ==
  (strategy = "SYNCHRONOUS" /\ ~strayed /\ file # 0) =>
    \A k \in synced[file] + 1..Len(content[file]) :
      content[file][k] \notin answered

(* SET GLOBAL audit_log_flush = ON closes and reopens the log file. *)
LogIsOpen == (file # 0 /\ lock = NoOne) => file = dir[0]

============================================================================
