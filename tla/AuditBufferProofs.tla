------------------------- MODULE AuditBufferProofs -------------------------
(***************************************************************************)
(* What is proved of AuditBuffer, for every number of sessions, size of    *)
(* the buffer and length of records: no record is torn in the file, no     *)
(* byte is lost, doubled or reordered on its way through the buffer, and   *)
(* nobody overwrites what the worker is writing.                           *)
(*                                                                         *)
(* The positions are bounded by twice the size, so that % Size subtracts   *)
(* it at most once; what is still to be written are the cells Start to     *)
(* write_pos - 1, whatever wraps.                                          *)
(***************************************************************************)
EXTENDS AuditBuffer, FiniteSetTheorems, SequenceTheorems, TLAPS

(***************************************************************************)
(* The inductive invariant.                                                *)
(***************************************************************************)

(* The variables TypeOK leaves out. *)
Histories ==
  /\ arg \in [Writer -> Seq(Byte)]
  /\ file \in Seq(Byte) /\ accepted \in Seq(Byte)
  /\ records \in [Writer -> 0..MaxRecords]

(* The bytes of one whole record. *)
IsRecord(s, w) ==
  \A k \in 1..Len(s) :
    s[k].by = w /\ s[k].no = s[1].no /\ s[k].at = k /\ s[k].len = Len(s)

(* What a session is about to write. *)
Arguments ==
  \A w \in Writer :
    /\ pc[w] \in {"write", "full"} =>
         IsRecord(arg[w], w) /\ Len(arg[w]) \in 1..Size
    /\ pc[w] \in {"pause", "pausing", "bypass"} =>
         \/ IsRecord(arg[w], NoOne) /\ Len(arg[w]) = 1
         \/ IsRecord(arg[w], w) /\ Len(arg[w]) > Size

(* What the worker is writing lies within the buffer and within what is    *)
(* filled, and only the part before the end may be INCOMPLETE.             *)
WorkerPart ==
  /\ worker \in {"run", "exit"} => flushlen = 0
  /\ worker \in {"tail", "tail_done"} =>
       /\ flushlen = Size - flush_pos /\ Size <= write_pos
       /\ state = "INCOMPLETE"
  /\ worker \in {"rest", "rest_done"} =>
       /\ 0 < flushlen /\ flush_pos + flushlen < Size
       /\ flush_pos + flushlen <= write_pos

(* Who bypasses the buffer has the mutex, and not amid a record. *)
Holder ==
  /\ \A w \in Writer : pc[w] = "bypass" <=> mutex = w
  /\ mutex # NoOne => state = "COMPLETE"

(* The first cell that is not in the file yet. *)
Start == flush_pos + InFile
Cell(p) == buf[p % Size]
NewCell(p) == buf'[p % Size]

Ends(b) == b.len <= b.at
Follows(a, b) == IF Ends(a) THEN b.at = 1 ELSE b = [a EXCEPT !.at = @ + 1]

(* What is in the buffer: records of sessions, one after the other. *)
CellsFollow ==
  /\ \A p \in Start..write_pos - 1 : Cell(p).by # NoOne /\ Cell(p).len <= Size
  /\ \A p \in Start..write_pos - 2 : Follows(Cell(p), Cell(p + 1))
CellsEnd ==
  /\ Start < write_pos => Ends(Cell(write_pos - 1))
  /\ worker = "rest" => Ends(Cell(flush_pos + flushlen - 1))

(* What is in the file: likewise. *)
FileFollows ==
  /\ Len(file) > 0 => file[1].at = 1
  /\ \A j \in 1..Len(file) - 1 : Follows(file[j], file[j + 1])

(* Where the two meet: the file ends amid a record only while the state is *)
(* INCOMPLETE, and the buffer has the rest.                                *)
Torn == Len(file) > 0 /\ ~Ends(file[Len(file)])
Joined ==
  IF Torn
  THEN /\ state = "INCOMPLETE" /\ worker # "rest_done"
       /\ Start < write_pos /\ Follows(file[Len(file)], Cell(Start))
  ELSE Start < write_pos => Cell(Start).at = 1

Control == TypeOK /\ Histories /\ Arguments /\ WorkerPart /\ Holder
Stream == CellsFollow /\ CellsEnd /\ FileFollows /\ Joined
IndInv == Control /\ Stream /\ NothingLost

(***************************************************************************)
(* Positions.                                                              *)
(***************************************************************************)

(* % Size on the numbers that occur: positions, and their differences. *)
LEMMA Mod ==
  ASSUME NEW x \in Int, -(2 * Size) <= x, x < 2 * Size
  PROVE  x % Size = IF Size <= x THEN x - Size
                    ELSE IF 0 <= x THEN x
                    ELSE IF -Size <= x THEN x + Size
                    ELSE x + Size + Size
<1>1. Size \in Nat \ {0} BY BufferAssumption
<1>2. CASE Size <= x BY <1>1, <1>2
<1>3. CASE ~(Size <= x) /\ 0 <= x BY <1>1, <1>3
<1>4. CASE x < 0 /\ -Size <= x BY <1>1, <1>4
<1>5. CASE x < -Size BY <1>1, <1>5
<1> QED BY <1>1, <1>2, <1>3, <1>4, <1>5

(* The cell of a position, and when a flush wraps. *)
LEMMA Position ==
  ASSUME NEW p \in 0..2 * Size - 1
  PROVE  /\ p % Size \in 0..Size - 1
         /\ p < Size => p % Size = p
         /\ Size <= p => p % Size = p - Size
<1>1. Size \in Nat \ {0} BY BufferAssumption
<1>2. p \in Int /\ -(2 * Size) <= p /\ p < 2 * Size BY <1>1
<1>3. p % Size = IF Size <= p THEN p - Size ELSE p
  BY <1>1, <1>2, Mod
<1> QED BY <1>1, <1>3

(* Within the buffer, whatever the worker does. *)
LEMMA StartBounds ==
  ASSUME TypeOK, WorkerPart
  PROVE  /\ Size \in Nat \ {0} /\ flush_pos \in Nat /\ write_pos \in Nat
         /\ flushlen \in Nat /\ InFile \in Nat /\ Start \in Nat
         /\ flush_pos <= Start /\ Start <= write_pos
         /\ flush_pos < Size /\ write_pos < 2 * Size
         /\ write_pos <= flush_pos + Size
         /\ flush_pos <= write_pos
  BY BufferAssumption DEF TypeOK, WorkerPart, Start, InFile

(* A record as Write makes it. *)
LEMMA BytesRecord ==
  ASSUME NEW w \in Writer, NEW n \in 0..MaxRecords, NEW len \in Nat \ {0}
  PROVE  /\ Bytes(w, n, len) \in Seq(Byte)
         /\ Len(Bytes(w, n, len)) = len
         /\ IsRecord(Bytes(w, n, len), w)
<1> DEFINE s == Bytes(w, n, len)
<1>1. \A k \in 1..len : [by |-> w, no |-> n, at |-> k, len |-> len] \in Byte
  BY DEF Byte
<1>2. s \in Seq(Byte) /\ Len(s) = len
  BY <1>1 DEF Bytes
<1>3. \A k \in 1..len :
        s[k] = [by |-> w, no |-> n, at |-> k, len |-> len]
  BY DEF Bytes
<1>4. IsRecord(s, w)
  <2> HIDE DEF s
  <2> QED BY <1>2, <1>3 DEF IsRecord
<1> QED BY <1>2, <1>4

(***************************************************************************)
(* Control: types, arguments, the worker's part and the mutex.             *)
(***************************************************************************)

(* What audit_log_buffer_init leaves. *)
LEMMA InitControl == Init => Control
<1> SUFFICES ASSUME Init PROVE Control OBVIOUS
<1>1. Zero \in Byte BY BufferAssumption DEF Zero, Byte
<1>2. TypeOK
  BY <1>1, BufferAssumption DEF Init, TypeOK, Label
<1>3. Histories BY BufferAssumption DEF Init, Histories
<1> QED
  BY <1>2, <1>3, BufferAssumption
  DEF Init, Control, Arguments, WorkerPart, Holder

(* Who is woken by a broadcast still has the same to write. *)
LEMMA Awakened ==
  ASSUME NEW w \in Writer, TypeOK
  PROVE  /\ Awake(w) \in Label
         /\ Awake(w) \in {"write", "full"} <=> pc[w] \in {"write", "full"}
         /\ Awake(w) \in {"pause", "pausing", "bypass"}
              <=> pc[w] \in {"pause", "pausing", "bypass"}
         /\ Awake(w) = "bypass" <=> pc[w] = "bypass"
  BY DEF Awake, TypeOK, Label

(* audit_log_buffer_write, up to the mutex. *)
LEMMA WriteControl ==
  ASSUME NEW w \in Writer, Control, Write(w)
  PROVE  Control'
<1> USE BufferAssumption
<1>1. PICK len \in Lengths :
        \/ len > Size /\ drop_if_full /\ UNCHANGED <<pc, arg>>
        \/ /\ arg' = [arg EXCEPT ![w] = Bytes(w, records[w] + 1, len)]
           /\ pc' = [pc EXCEPT ![w] = IF len > Size THEN "pause" ELSE "write"]
  BY DEF Write
<1>2. /\ UNCHANGED <<worker, ring, stop, drop_if_full, flushlen, file,
                     accepted, reopens>>
      /\ records' = [records EXCEPT ![w] = @ + 1]
      /\ pc[w] = "idle" /\ records[w] < MaxRecords
  BY DEF Write
<1>3. records[w] + 1 \in 0..MaxRecords /\ len \in Nat \ {0}
  BY <1>2 DEF Control, Histories
<1>4. /\ Bytes(w, records[w] + 1, len) \in Seq(Byte)
      /\ Len(Bytes(w, records[w] + 1, len)) = len
      /\ IsRecord(Bytes(w, records[w] + 1, len), w)
  BY <1>3, BytesRecord
<1>5. TypeOK'
  BY <1>1, <1>2 DEF Control, TypeOK, ring, Label
<1>6. Histories'
  BY <1>1, <1>2, <1>3, <1>4 DEF Control, Histories
<1>7. WorkerPart' /\ Holder'
  BY <1>1, <1>2 DEF Control, TypeOK, WorkerPart, Holder, ring
<1>8. Arguments'
  <2> SUFFICES ASSUME NEW v \in Writer
               PROVE
                 /\ pc'[v] \in {"write", "full"} =>
                      IsRecord(arg'[v], v) /\ Len(arg'[v]) \in 1..Size
                 /\ pc'[v] \in {"pause", "pausing", "bypass"} =>
                      \/ IsRecord(arg'[v], NoOne) /\ Len(arg'[v]) = 1
                      \/ IsRecord(arg'[v], v) /\ Len(arg'[v]) > Size
    BY DEF Arguments, IsRecord
  <2>1. CASE pc'[v] = pc[v] /\ arg'[v] = arg[v]
    BY <2>1 DEF Control, Arguments
  <2>2. CASE ~(pc'[v] = pc[v] /\ arg'[v] = arg[v])
    BY <1>1, <1>3, <1>4, <2>2 DEF Control, TypeOK, Histories
  <2> QED BY <2>1, <2>2
<1> QED BY <1>5, <1>6, <1>7, <1>8 DEF Control

(* audit_log_buffer_write, under the mutex. *)
LEMMA BufferWriteControl ==
  ASSUME NEW w \in Writer, Control, BufferWrite(w)
  PROVE  Control'
<1> USE BufferAssumption DEF Control, BufferWrite, Return
<1>1. arg[w] \in Seq(Byte) /\ Len(arg[w]) \in 1..Size
  BY DEF Histories, Arguments
<1>2. TypeOK'
  <2>1. /\ pc' \in [Writer -> Label] /\ mutex' = mutex /\ worker' = worker
        /\ flush_pos' = flush_pos /\ state' = state /\ flushlen' = flushlen
    BY DEF TypeOK, Label
  <2>2. write_pos' \in flush_pos'..flush_pos' + Size
    BY <1>1 DEF TypeOK, fits
  <2>3. buf' \in [0..Size - 1 -> Byte]
    <3>1. CASE fits(Len(arg[w]))
      <4>1. ASSUME NEW i \in 0..Size - 1
            PROVE (i - write_pos) % Size \in Nat
        BY DEF TypeOK
      <4>2. \A i \in 0..Size - 1 :
              LET k == ((i - write_pos) % Size) + 1 IN
              (IF k <= Len(arg[w]) THEN arg[w][k] ELSE buf[i]) \in Byte
        BY <1>1, <4>1 DEF TypeOK
      <4> QED BY <3>1, <4>2
    <3>2. CASE ~fits(Len(arg[w]))
      BY <3>2 DEF TypeOK
    <3> QED BY <3>1, <3>2
  <2> QED BY <2>1, <2>2, <2>3 DEF TypeOK
<1>7. \/ pc' = [pc EXCEPT ![w] = "idle"] /\ arg' = [arg EXCEPT ![w] = <<>>]
      \/ pc' = [pc EXCEPT ![w] = "full"] /\ UNCHANGED arg
  OBVIOUS
<1>8. accepted' = accepted \/ accepted' = accepted \o arg[w]
  OBVIOUS
<1>9. records' = records /\ file' = file /\ pc[w] = "write" OBVIOUS
<1> USE <1>7, <1>8, <1>9
<1>3. Histories'
  <2> HIDE DEF BufferWrite, Return
  <2>1. accepted \o arg[w] \in Seq(Byte)
    BY <1>1, ConcatProperties DEF Histories
  <2>2. <<>> \in Seq(Byte) BY EmptySeq
  <2>3. arg' \in [Writer -> Seq(Byte)] BY <2>2 DEF Histories
  <2> QED BY <2>1, <2>3 DEF Histories
<1>4. WorkerPart' BY <1>1 DEF WorkerPart, TypeOK, fits
<1>5. Holder' BY DEF Holder, TypeOK
<1>6. Arguments'
  <2> HIDE DEF BufferWrite, Return
  <2> SUFFICES ASSUME NEW v \in Writer, pc'[v] # "idle"
               PROVE
                 /\ pc'[v] \in {"write", "full"} =>
                      IsRecord(arg'[v], v) /\ Len(arg'[v]) \in 1..Size
                 /\ pc'[v] \in {"pause", "pausing", "bypass"} =>
                      \/ IsRecord(arg'[v], NoOne) /\ Len(arg'[v]) = 1
                      \/ IsRecord(arg'[v], v) /\ Len(arg'[v]) > Size
    BY DEF Arguments, IsRecord
  <2>1. arg'[v] = arg[v] BY DEF TypeOK, Histories
  <2>2. pc'[v] = pc[v] \/ (pc'[v] = "full" /\ pc[v] = "write")
    BY DEF TypeOK
  <2> QED BY <2>1, <2>2 DEF Arguments
<1> QED BY <1>2, <1>3, <1>4, <1>5, <1>6

(* The steps of a session around the buffer. *)
LEMMA SessionControl ==
  ASSUME NEW w \in Writer, Control,
         \/ Reopen(w) \/ audit_log_buffer_pause(w)
         \/ audit_log_buffer_resume(w)
  PROVE  Control'
<1> USE BufferAssumption DEF Control, Return, ring
<1>1. CASE Reopen(w)
  <2>1. /\ <<Reopening>> \in Seq(Byte) /\ Len(<<Reopening>>) = 1
        /\ IsRecord(<<Reopening>>, NoOne)
    BY DEF Reopening, Byte, IsRecord
  <2>2. TypeOK' /\ Histories' /\ WorkerPart' /\ Holder'
    BY <1>1, <2>1 DEF Reopen, TypeOK, Label, Histories, WorkerPart, Holder
  <2>3. Arguments'
    BY <1>1, <2>1 DEF Reopen, TypeOK, Histories, Arguments, IsRecord
  <2> QED BY <2>2, <2>3
<1>2. CASE audit_log_buffer_pause(w)
  <2>1. TypeOK' /\ Histories' /\ WorkerPart'
    BY <1>2 DEF audit_log_buffer_pause, TypeOK, Label, Histories, WorkerPart
  <2>2. Holder'
    BY <1>2 DEF audit_log_buffer_pause, TypeOK, Holder, incomplete
  <2>3. Arguments'
    BY <1>2 DEF audit_log_buffer_pause, TypeOK, Arguments, IsRecord
  <2> QED BY <2>1, <2>2, <2>3
<1>3. CASE audit_log_buffer_resume(w)
  <2>1. TypeOK' /\ Histories' /\ WorkerPart'
    BY <1>3 DEF audit_log_buffer_resume, TypeOK, Label, Histories, WorkerPart
  <2>2. Holder'
    BY <1>3 DEF audit_log_buffer_resume, TypeOK, Holder
  <2>3. Arguments'
    BY <1>3 DEF audit_log_buffer_resume, TypeOK, Histories, Arguments,
                IsRecord
  <2> QED BY <2>1, <2>2, <2>3
<1> QED BY <1>1, <1>2, <1>3

(* A part of the buffer is as long as the worker takes it to be. *)
LEMMA RegionSeq ==
  ASSUME TypeOK, NEW pos \in Nat, NEW len \in Nat
  PROVE  /\ Region(pos, len) \in Seq(Byte)
         /\ Len(Region(pos, len)) = len
         /\ \A k \in 1..len : Region(pos, len)[k] = Cell(pos + k - 1)
<1>1. \A k \in 1..len : (pos + k - 1) % Size \in 0..Size - 1
  BY BufferAssumption
<1>2. \A k \in 1..len : buf[(pos + k - 1) % Size] \in Byte
  BY <1>1 DEF TypeOK
<1>3. \A k \in 1..len : Region(pos, len)[k] = Cell(pos + k - 1)
  BY DEF Region, Cell
<1>4. Region(pos, len) \in [1..len -> Byte]
  BY <1>2 DEF Region
<1>5. Region(pos, len) \in Seq(Byte)
  BY <1>4, SeqDef
<1>6. 1..len = 1..Len(Region(pos, len)) /\ Len(Region(pos, len)) \in Nat
  BY <1>4, <1>5, LenProperties
<1> QED BY <1>3, <1>5, <1>6

(* The worker, and the shutdown. *)
LEMMA WorkerControl ==
  ASSUME Control, Flusher \/ audit_log_buffer_shutdown
  PROVE  Control'
<1> USE BufferAssumption DEF Control, ring
<1>1. CASE FlushBegin
  <2>1. /\ flush_pos \in 0..Size - 1 /\ write_pos \in 0..2 * Size - 1
        /\ write_pos % Size \in 0..Size - 1
        /\ write_pos < Size => write_pos % Size = write_pos
        /\ Size <= write_pos => write_pos % Size = write_pos - Size
    BY StartBounds, Position DEF TypeOK
  <2>2. Histories' /\ Arguments'
    <3>1. UNCHANGED <<pc, arg, file, accepted, records>>
      BY <1>1 DEF FlushBegin
    <3> QED BY <3>1 DEF Histories, Arguments, IsRecord
  <2>3. TypeOK' /\ WorkerPart'
    BY <1>1, <2>1 DEF FlushBegin, TypeOK, WorkerPart, wraps
  <2>4. Holder' BY <1>1 DEF FlushBegin, Holder
  <2> QED BY <2>2, <2>3, <2>4
<1>2. CASE FlushWrite
  <2>1. Region(flush_pos, flushlen) \in Seq(Byte)
    BY StartBounds, RegionSeq
  <2>2. Histories' BY <1>2, <2>1 DEF FlushWrite, Histories
  <2>3. TypeOK' /\ WorkerPart' /\ Holder' /\ Arguments'
    BY <1>2 DEF FlushWrite, TypeOK, WorkerPart, Holder, Arguments, IsRecord
  <2> QED BY <2>2, <2>3
<1>3. CASE FlushEnd
  <2>1. \A w \in Writer : pc'[w] = Awake(w)
    BY <1>3 DEF FlushEnd, broadcast
  <2>2. pc' \in [Writer -> Label]
    BY <1>3, Awakened DEF FlushEnd, broadcast
  <2>3. Arguments' /\ Histories'
    BY <1>3, <2>1, Awakened DEF FlushEnd, Arguments, Histories, IsRecord
  <2>4. Size <= write_pos => write_pos % Size = write_pos - Size
    BY StartBounds, Position
  <2>5. TypeOK'
    BY <1>3, <2>2, <2>4 DEF FlushEnd, TypeOK, WorkerPart
  <2>6. WorkerPart' BY <1>3 DEF FlushEnd, WorkerPart
  <2>7. Holder'
    BY <1>3, <2>1, Awakened DEF FlushEnd, Holder
  <2> QED BY <2>3, <2>5, <2>6, <2>7
<1>4. CASE WorkerExit
  BY <1>4 DEF WorkerExit, TypeOK, Histories, Arguments, IsRecord, WorkerPart,
              Holder
<1>5. CASE audit_log_buffer_shutdown
  BY <1>5 DEF audit_log_buffer_shutdown, TypeOK, Histories, Arguments,
              IsRecord, WorkerPart, Holder
<1> QED BY <1>1, <1>2, <1>3, <1>4, <1>5 DEF Flusher

(* Every step, and stuttering. *)
LEMMA NextControl == Control /\ [Next]_vars => Control'
<1>1. ASSUME Control, UNCHANGED vars
      PROVE  Control'
  <2> USE <1>1 DEF vars, ring, Control
  <2>1. TypeOK' BY DEF TypeOK
  <2>2. Histories' BY DEF Histories
  <2>3. Arguments' BY DEF Arguments, IsRecord
  <2>4. WorkerPart' BY DEF WorkerPart
  <2>5. Holder' BY DEF Holder
  <2> QED BY <2>1, <2>2, <2>3, <2>4, <2>5
<1> QED
  BY <1>1, WriteControl, BufferWriteControl, SessionControl, WorkerControl
  DEF Next, Session

(***************************************************************************)
(* The stream: file and buffer are records one after the other.            *)
(***************************************************************************)

(* What memcpy leaves: the record behind what was there, and nothing of    *)
(* that is overwritten.                                                    *)
LEMMA Copied ==
  ASSUME NEW w \in Writer, Control, BufferWrite(w), fits(Len(arg[w]))
  PROVE  /\ \A p \in flush_pos..write_pos - 1 : buf'[p % Size] = Cell(p)
         /\ \A k \in 1..Len(arg[w]) :
              buf'[(write_pos + k - 1) % Size] = arg[w][k]
<1> DEFINE len == Len(arg[w])
<1>1. len \in 1..Size /\ arg[w] \in Seq(Byte)
  BY DEF Control, Arguments, BufferWrite, Histories
<1>2. /\ Size \in Nat \ {0} /\ flush_pos \in Nat /\ write_pos \in Nat
      /\ flush_pos < Size /\ write_pos < 2 * Size
      /\ flush_pos <= write_pos /\ write_pos + len <= flush_pos + Size
  BY <1>1, StartBounds DEF Control, fits
<1>3. \A i \in 0..Size - 1 :
        buf'[i] = IF ((i - write_pos) % Size) + 1 <= len
                  THEN arg[w][((i - write_pos) % Size) + 1] ELSE buf[i]
  BY DEF BufferWrite
<1> HIDE DEF len
<1>4. ASSUME NEW p \in flush_pos..write_pos - 1
      PROVE  buf'[p % Size] = Cell(p)
  <2> DEFINE i == p % Size
             x == i - write_pos
  <2>1. p \in 0..2 * Size - 1 BY <1>2
  <2>2. i = IF Size <= p THEN p - Size ELSE p
    <3>1. (p < Size => p % Size = p) /\ (Size <= p => p % Size = p - Size)
      BY <2>1, Position
    <3> QED BY <1>2, <2>1, <3>1
  <2>3. i \in 0..Size - 1 BY <2>1, Position
  <2>4. x \in Int /\ -(2 * Size) <= x /\ x < 2 * Size
    BY <1>2, <2>2
  <2>5. x % Size = p - write_pos + Size
    <3>1. x % Size = IF Size <= x THEN x - Size
                     ELSE IF 0 <= x THEN x
                     ELSE IF -Size <= x THEN x + Size
                     ELSE x + Size + Size
      <4> HIDE DEF x
      <4> QED BY <2>4, Mod
    <3>2. x # -Size
      BY <1>1, <1>2, <2>2
    <3> QED BY <1>1, <1>2, <2>2, <3>1, <3>2
  <2>6. ~((x % Size) + 1 <= len)
    BY <1>1, <1>2, <2>5
  <2> QED BY <1>3, <2>3, <2>6 DEF Cell
<1>5. ASSUME NEW k \in 1..len
      PROVE  buf'[(write_pos + k - 1) % Size] = arg[w][k]
  <2> DEFINE p == write_pos + k - 1
             i == p % Size
             x == i - write_pos
  <2>1. p \in 0..2 * Size - 1 BY <1>1, <1>2
  <2>2. i = (IF Size <= p THEN p - Size ELSE p) /\ i \in 0..Size - 1
    <3> HIDE DEF p
    <3>1. /\ p % Size \in 0..Size - 1
          /\ (p < Size => p % Size = p) /\ (Size <= p => p % Size = p - Size)
      BY <2>1, Position
    <3> QED BY <1>2, <2>1, <3>1
  <2>3. x \in Int /\ -(2 * Size) <= x /\ x < 2 * Size
    BY <1>1, <1>2, <2>2
  <2>4. x % Size = k - 1
    <3>1. x % Size = IF Size <= x THEN x - Size
                     ELSE IF 0 <= x THEN x
                     ELSE IF -Size <= x THEN x + Size
                     ELSE x + Size + Size
      <4> HIDE DEF x
      <4> QED BY <2>3, Mod
    <3> QED BY <1>1, <1>2, <2>2, <3>1
  <2> QED BY <1>1, <1>3, <2>2, <2>4
<1> QED BY <1>4, <1>5 DEF len

(* The next byte of a record follows. *)
LEMMA RecordFollows ==
  ASSUME NEW s \in Seq(Byte), NEW w, IsRecord(s, w)
  PROVE  /\ \A k \in 1..Len(s) - 1 : Follows(s[k], s[k + 1])
         /\ Len(s) > 0 => s[1].at = 1 /\ Ends(s[Len(s)])
<1>1. ASSUME NEW k \in 1..Len(s) - 1
      PROVE  Follows(s[k], s[k + 1])
  <2>1. s[k] \in Byte /\ s[k + 1] \in Byte BY ElementOfSeq
  <2>2. s[k].at = k /\ s[k].len = Len(s) /\ s[k + 1].at = k + 1
    BY DEF IsRecord
  <2>3. s[k + 1].by = s[k].by /\ s[k + 1].no = s[k].no
        /\ s[k + 1].len = s[k].len
    BY DEF IsRecord
  <2>4. s[k + 1] = [s[k] EXCEPT !.at = @ + 1]
    BY <2>1, <2>2, <2>3 DEF Byte
  <2> QED BY <2>2, <2>4 DEF Follows, Ends
<1>2. Len(s) > 0 => s[1].at = 1 /\ Ends(s[Len(s)])
  BY DEF IsRecord, Ends
<1> QED BY <1>1, <1>2

(* An empty log and an empty buffer. *)
LEMMA InitStream == Init => Stream
  BY DEF Init, Stream, CellsFollow, CellsEnd, FileFollows, Joined, Torn,
         Start, InFile

(* Steps that leave the file and the positions alone. *)
LEMMA KeepStream ==
  ASSUME Control, Stream,
         UNCHANGED <<buf, write_pos, flush_pos, state, flushlen, file>>,
         worker' = worker \/ (worker = "run" /\ worker' = "exit")
  PROVE  Stream'
<1>1. Start' = Start BY DEF Start, InFile
<1>2. \A p : Cell(p)' = Cell(p) BY DEF Cell
<1>3. CellsFollow' BY <1>1, <1>2 DEF Stream, CellsFollow, Follows, Ends
<1>4. CellsEnd' BY <1>1, <1>2 DEF Stream, CellsEnd, Ends
<1>5. FileFollows' BY DEF Stream, FileFollows, Follows, Ends
<1>6. Torn' = Torn BY DEF Torn, Ends
<1>7. Joined'
  BY <1>1, <1>2, <1>6 DEF Stream, Joined, Follows, Ends
<1> QED BY <1>3, <1>4, <1>5, <1>7 DEF Stream

(* A record is copied into the buffer. *)
LEMMA BufferWriteStream ==
  ASSUME NEW w \in Writer, Control, Stream, BufferWrite(w)
  PROVE  Stream'
<1> DEFINE s == arg[w]
           len == Len(s)
<1>1. /\ s \in Seq(Byte) /\ len \in 1..Size /\ IsRecord(s, w) /\ w # NoOne
  BY BufferAssumption DEF Control, Arguments, BufferWrite, Histories
<1>2. /\ UNCHANGED <<worker, flush_pos, state, flushlen, file>>
      /\ Start' = Start
  BY DEF BufferWrite, Start, InFile
<1>3. CASE ~fits(len)
  BY <1>2, <1>3, KeepStream DEF BufferWrite
<1>4. CASE fits(len)
  <2>1. /\ Size \in Nat \ {0} /\ flush_pos \in Nat /\ write_pos \in Nat
        /\ Start \in Nat /\ flush_pos <= Start /\ Start <= write_pos
        /\ flush_pos <= write_pos /\ flushlen \in Nat
    BY StartBounds DEF Control
  <2>2. write_pos' = write_pos + len
    BY <1>4 DEF BufferWrite
  <2>3. \A p \in flush_pos..write_pos - 1 : NewCell(p) = Cell(p)
    BY <1>4, Copied DEF Cell, NewCell
  <2>4. \A k \in 1..len : NewCell(write_pos + k - 1) = s[k]
    BY <1>4, Copied DEF Cell, NewCell
  <2>5. \A p \in write_pos..write_pos + len - 1 :
          NewCell(p) = s[p - write_pos + 1]
    <3> SUFFICES ASSUME NEW p \in write_pos..write_pos + len - 1
                 PROVE  NewCell(p) = s[p - write_pos + 1]
      OBVIOUS
    <3>1. p - write_pos + 1 \in 1..len BY <1>1, <2>1
    <3>2. write_pos + (p - write_pos + 1) - 1 = p BY <2>1
    <3> QED BY <2>4, <3>1, <3>2
  <2> HIDE DEF s, len
  <2>6. /\ \A k \in 1..len - 1 : Follows(s[k], s[k + 1])
        /\ s[1].at = 1 /\ Ends(s[len])
    BY <1>1, RecordFollows DEF s, len
  <2>7. \A k \in 1..len : s[k].by # NoOne /\ s[k].len <= Size
    BY <1>1 DEF IsRecord, len, s
  <2>8. \A p \in Start..write_pos' - 1 :
          NewCell(p).by # NoOne /\ NewCell(p).len <= Size
    <3> SUFFICES ASSUME NEW p \in Start..write_pos' - 1
                 PROVE  NewCell(p).by # NoOne /\ NewCell(p).len <= Size
      OBVIOUS
    <3>1. CASE p < write_pos
      <4>1. p \in flush_pos..write_pos - 1 /\ p \in Start..write_pos - 1
        BY <2>1, <3>1
      <4> QED BY <2>3, <4>1 DEF Stream, CellsFollow
    <3>2. CASE ~(p < write_pos)
      <4>1. /\ p \in write_pos..write_pos + len - 1
            /\ p - write_pos + 1 \in 1..len
        BY <1>1, <2>1, <2>2, <3>2
      <4> QED BY <2>5, <2>7, <4>1
    <3> QED BY <3>1, <3>2
  <2>9. \A p \in Start..write_pos' - 2 : Follows(NewCell(p), NewCell(p + 1))
    <3> SUFFICES ASSUME NEW p \in Start..write_pos' - 2
                 PROVE  Follows(NewCell(p), NewCell(p + 1))
      OBVIOUS
    <3>1. CASE p < write_pos - 1
      <4>1. /\ p \in flush_pos..write_pos - 1 /\ p \in Start..write_pos - 2
            /\ p + 1 \in flush_pos..write_pos - 1
        BY <2>1, <3>1
      <4> QED BY <2>3, <4>1 DEF Stream, CellsFollow
    <3>2. CASE p = write_pos - 1
      <4>1. /\ p \in flush_pos..write_pos - 1 /\ Start < write_pos
            /\ p + 1 \in write_pos..write_pos + len - 1
            /\ p + 1 - write_pos + 1 = 1
        BY <1>1, <2>1, <3>2 DEF len
      <4> DEFINE q == p + 1
      <4>4. q \in write_pos..write_pos + len - 1 /\ q - write_pos + 1 = 1
        BY <1>1, <2>1, <3>2, <4>1
      <4> HIDE DEF q
      <4>5. NewCell(q) = s[1]
        BY <2>5, <4>4
      <4>2. NewCell(p) = Cell(p) /\ NewCell(p + 1) = s[1]
        BY <2>3, <4>1, <4>5 DEF q
      <4>3. Ends(Cell(p))
        BY <3>2, <4>1 DEF Stream, CellsEnd
      <4> QED BY <2>6, <4>2, <4>3 DEF Follows
    <3>3. CASE p >= write_pos
      <4>1. /\ p \in write_pos..write_pos + len - 1
            /\ p + 1 \in write_pos..write_pos + len - 1
            /\ p - write_pos + 1 \in 1..len - 1
            /\ p + 1 - write_pos + 1 = (p - write_pos + 1) + 1
        BY <1>1, <2>1, <2>2, <3>3 DEF len
      <4> DEFINE q == p + 1
                 k == p - write_pos + 1
      <4>2. q \in write_pos..write_pos + len - 1 /\ q - write_pos + 1 = k + 1
        BY <2>1, <4>1
      <4>3. k \in 1..len - 1 BY <4>1
      <4>4. NewCell(p) = s[k] BY <2>5, <4>1
      <4> HIDE DEF q, k
      <4>5. NewCell(q) = s[k + 1]
        BY <2>5, <4>2
      <4>6. Follows(NewCell(p), NewCell(q)) BY <2>6, <4>3, <4>4, <4>5
      <4> QED BY <4>6 DEF q
    <3> QED BY <2>1, <3>1, <3>2, <3>3
  <2>10. CellsFollow'
    BY <1>2, <2>8, <2>9 DEF CellsFollow, Follows, Ends, Cell, NewCell
  <2>11. CellsEnd'
    <3>1. Ends(NewCell(write_pos' - 1))
      <4>1. /\ write_pos' - 1 \in write_pos..write_pos + len - 1
            /\ write_pos' - 1 - write_pos + 1 = len
        BY <1>1, <2>1, <2>2 DEF len
      <4> QED BY <2>5, <2>6, <4>1
    <3>2. worker = "rest" => Ends(NewCell(flush_pos + flushlen - 1))
      <4>1. worker = "rest" =>
              flush_pos + flushlen - 1 \in flush_pos..write_pos - 1
        BY <2>1 DEF Control, WorkerPart
      <4> QED BY <2>3, <4>1 DEF Stream, CellsEnd
    <3> QED BY <1>2, <3>1, <3>2 DEF CellsEnd, Ends, Cell, NewCell
  <2>12. FileFollows'
    BY <1>2 DEF Stream, FileFollows, Follows, Ends
  <2>13. Joined'
    <3>1. Start < write_pos' BY <1>1, <2>1, <2>2 DEF len
    <3>2. Torn' = Torn BY <1>2 DEF Torn, Ends
    <3>3. CASE Start < write_pos
      <4>1. NewCell(Start) = Cell(Start) BY <2>1, <2>3, <3>3
      <4> QED
        BY <1>2, <3>1, <3>2, <3>3, <4>1
        DEF Stream, Joined, Follows, Ends, Cell, NewCell
    <3>4. CASE Start = write_pos
      <4>1. ~Torn BY <2>1, <3>4 DEF Stream, Joined
      <4>2. NewCell(Start) = s[1]
        <5>1. write_pos \in write_pos..write_pos + len - 1
              /\ write_pos - write_pos + 1 = 1
          BY <1>1, <2>1 DEF len
        <5> QED BY <2>5, <3>4, <5>1
      <4> QED BY <1>2, <2>6, <3>2, <4>1, <4>2 DEF Joined, Cell, NewCell
    <3> QED BY <2>1, <3>3, <3>4
  <2> QED BY <2>10, <2>11, <2>12, <2>13 DEF Stream
<1> QED BY <1>3, <1>4

(* The file grows by what follows its end. *)
LEMMA FileGrows ==
  ASSUME Histories, NEW s \in Seq(Byte), file' = file \o s, Len(s) > 0
  PROVE  /\ Len(file) \in Nat /\ Len(s) \in Nat
         /\ Len(file)' = Len(file) + Len(s)
         /\ \A j \in 1..Len(file) : file'[j] = file[j]
         /\ \A k \in 1..Len(s) : file'[Len(file) + k] = s[k]
         /\ \A j \in Len(file) + 1..Len(file) + Len(s) :
              file'[j] = s[j - Len(file)]
         /\ Torn' <=> ~Ends(s[Len(s)])
<1>1. file \in Seq(Byte) /\ Len(file) \in Nat /\ Len(s) \in Nat
  BY LenProperties DEF Histories
<1>2. /\ Len(file)' = Len(file) + Len(s)
      /\ \A j \in 1..Len(file) + Len(s) :
           file'[j] = IF j <= Len(file) THEN file[j] ELSE s[j - Len(file)]
  BY <1>1, ConcatProperties
<1>3. \A j \in 1..Len(file) : file'[j] = file[j]
  BY <1>1, <1>2
<1>4. \A k \in 1..Len(s) : file'[Len(file) + k] = s[k]
  <2> SUFFICES ASSUME NEW k \in 1..Len(s)
               PROVE  file'[Len(file) + k] = s[k]
    OBVIOUS
  <2>1. /\ Len(file) + k \in 1..Len(file) + Len(s)
        /\ ~(Len(file) + k <= Len(file)) /\ Len(file) + k - Len(file) = k
    BY <1>1
  <2> QED BY <1>2, <2>1
<1>5. \A j \in Len(file) + 1..Len(file) + Len(s) :
        file'[j] = s[j - Len(file)]
  BY <1>1, <1>2
<1>6. Torn' <=> ~Ends(s[Len(s)])
  <2>1. file'[Len(file')] = s[Len(s)]
    BY <1>1, <1>2, <1>4
  <2>2. Len(file') > 0 BY <1>1, <1>2
  <2> QED BY <2>1, <2>2 DEF Torn, Ends
<1> QED BY <1>1, <1>2, <1>3, <1>4, <1>5, <1>6

(* Likewise, with what follows being in order. *)
LEMMA FileGrowsInOrder ==
  ASSUME Histories, FileFollows, NEW s \in Seq(Byte), file' = file \o s,
         Len(s) > 0, \A k \in 1..Len(s) - 1 : Follows(s[k], s[k + 1]),
         IF Torn THEN Follows(file[Len(file)], s[1]) ELSE s[1].at = 1
  PROVE  FileFollows'
<1> DEFINE n == Len(file)
           m == Len(s)
<1>1. /\ n \in Nat /\ m \in Nat /\ Len(file)' = n + m
      /\ \A j \in 1..n : file'[j] = file[j]
      /\ \A k \in 1..m : file'[n + k] = s[k]
  BY FileGrows
<1>2. n > 0 => Follows(file[n], s[1])
  BY DEF Torn, Follows
<1>3. n = 0 => s[1].at = 1
  BY DEF Torn
<1> HIDE DEF n, m
<1>4. Len(file') > 0 => file'[1].at = 1
  <2>1. CASE n > 0
    BY <1>1, <2>1 DEF FileFollows, n
  <2>2. CASE n = 0
    BY <1>1, <1>3, <2>2 DEF m
  <2> QED BY <1>1, <2>1, <2>2
<1>5. ASSUME NEW j \in 1..Len(file') - 1
      PROVE  Follows(file'[j], file'[j + 1])
  <2>1. CASE j < n
    <3>1. j \in 1..n /\ j + 1 \in 1..n /\ j \in 1..n - 1 BY <1>1, <2>1
    <3> QED BY <1>1, <3>1 DEF FileFollows, n
  <2>2. CASE j = n
    <3>1. j \in 1..n /\ 1 \in 1..m /\ j + 1 = n + 1 /\ n > 0
      BY <1>1, <2>2 DEF m
    <3>2. file'[j] = file[n] /\ file'[j + 1] = s[1]
      BY <1>1, <2>2, <3>1
    <3> QED BY <1>2, <3>1, <3>2
  <2>3. CASE j > n
    <3>1. /\ j - n \in 1..m /\ j - n + 1 \in 1..m /\ j - n \in 1..m - 1
          /\ n + (j - n) = j /\ n + (j - n + 1) = j + 1
      BY <1>1, <2>3
    <3> QED BY <1>1, <3>1 DEF m
  <2> QED BY <1>1, <2>1, <2>2, <2>3
<1> QED BY <1>4, <1>5 DEF FileFollows, Follows, Ends

(* A record that is larger than the buffer, or the reopening, goes into    *)
(* the file between two records.                                           *)
LEMMA ResumeStream ==
  ASSUME NEW w \in Writer, Control, Stream, audit_log_buffer_resume(w)
  PROVE  Stream'
<1> DEFINE s == arg[w]
<1>1. PICK by : IsRecord(s, by) /\ Len(s) > 0
  <2>1. \/ IsRecord(s, NoOne) /\ Len(s) = 1
        \/ IsRecord(s, w) /\ Len(s) > Size
    BY DEF audit_log_buffer_resume, Control, Arguments
  <2>2. Len(s) \in Nat /\ Size \in Nat
    BY BufferAssumption, LenProperties DEF Control, Histories
  <2> QED BY <2>1, <2>2
<1>2. s \in Seq(Byte) /\ file' = file \o s
  BY DEF audit_log_buffer_resume, Control, Histories
<1>3. /\ UNCHANGED <<worker, buf, write_pos, flush_pos, state, flushlen>>
      /\ Start' = Start /\ \A p : Cell(p)' = Cell(p)
  BY DEF audit_log_buffer_resume, Start, InFile, Cell
<1>4. /\ \A k \in 1..Len(s) - 1 : Follows(s[k], s[k + 1])
      /\ s[1].at = 1 /\ Ends(s[Len(s)])
  BY <1>1, <1>2, RecordFollows
<1>5. ~Torn
  BY BufferAssumption
  DEF audit_log_buffer_resume, Control, Holder, Stream, Joined
<1> HIDE DEF s
<1>6. FileFollows'
  BY <1>1, <1>2, <1>4, <1>5, FileGrowsInOrder DEF Stream, Control
<1>7. ~Torn' BY <1>1, <1>2, <1>4, FileGrows DEF Control
<1>8. Joined' BY <1>3, <1>5, <1>7 DEF Stream, Joined
<1>9. CellsFollow' BY <1>3 DEF Stream, CellsFollow, Follows, Ends
<1>10. CellsEnd' BY <1>3 DEF Stream, CellsEnd, Ends
<1> QED BY <1>6, <1>8, <1>9, <1>10 DEF Stream

(* The worker takes all that is there, or all up to the end of the buffer. *)
LEMMA FlushBeginStream ==
  ASSUME Control, Stream, FlushBegin
  PROVE  Stream'
<1>1. /\ UNCHANGED <<buf, write_pos, flush_pos, file>>
      /\ Start' = Start /\ Start = flush_pos /\ \A p : Cell(p)' = Cell(p)
  BY StartBounds DEF FlushBegin, Start, InFile, Cell, Control
<1>2. CellsFollow' BY <1>1 DEF Stream, CellsFollow, Follows, Ends
<1>3. FileFollows' BY <1>1 DEF Stream, FileFollows, Follows, Ends
<1>4. CellsEnd'
  <2>1. Start < write_pos
    BY <1>1, StartBounds DEF FlushBegin, Control
  <2>2. worker' = "rest" => flush_pos' + flushlen' - 1 = write_pos - 1
    BY <1>1, StartBounds DEF FlushBegin, Control
  <2> QED BY <1>1, <2>1, <2>2 DEF Stream, CellsEnd, Ends
<1>5. Torn' = Torn BY <1>1 DEF Torn, Ends
<1>6. Joined'
  BY <1>1, <1>5 DEF Stream, Joined, Follows, Ends, FlushBegin
<1> QED BY <1>2, <1>3, <1>4, <1>6 DEF Stream

(* What the worker writes continues the file, and ends a record unless it  *)
(* was only what is before the end of the buffer.                          *)
LEMMA FlushWriteStream ==
  ASSUME Control, Stream, FlushWrite
  PROVE  Stream'
<1> DEFINE s == Region(flush_pos, flushlen)
<1>1. /\ Size \in Nat \ {0} /\ flush_pos \in Nat /\ write_pos \in Nat
      /\ flushlen \in Nat /\ Start = flush_pos
      /\ flushlen > 0 /\ flush_pos + flushlen <= write_pos
  BY StartBounds
  DEF Control, TypeOK, WorkerPart, FlushWrite, Start, InFile
<1>2. /\ UNCHANGED <<buf, write_pos, flush_pos, state, flushlen>>
      /\ Start' = flush_pos + flushlen /\ \A p : Cell(p)' = Cell(p)
  BY DEF FlushWrite, Start, InFile, Cell, ring
<1>3. /\ s \in Seq(Byte) /\ Len(s) = flushlen
      /\ \A k \in 1..flushlen : s[k] = Cell(flush_pos + k - 1)
  BY <1>1, RegionSeq DEF Control
<1>4. file' = file \o s BY DEF FlushWrite
<1> HIDE DEF s
<1>5. \A k \in 1..flushlen - 1 : Follows(s[k], s[k + 1])
  <2> SUFFICES ASSUME NEW k \in 1..flushlen - 1
               PROVE  Follows(s[k], s[k + 1])
    OBVIOUS
  <2> DEFINE p == flush_pos + k - 1
  <2>1. /\ p \in Start..write_pos - 2 /\ p + 1 = flush_pos + (k + 1) - 1
        /\ k \in 1..flushlen /\ k + 1 \in 1..flushlen
    BY <1>1
  <2>2. s[k] = Cell(p) /\ s[k + 1] = Cell(p + 1)
    BY <1>3, <2>1
  <2> HIDE DEF p
  <2> QED BY <2>1, <2>2 DEF Stream, CellsFollow
<1>6. IF Torn THEN Follows(file[Len(file)], s[1]) ELSE s[1].at = 1
  <2>1. s[1] = Cell(Start)
    <3>1. 1 \in 1..flushlen /\ flush_pos + 1 - 1 = flush_pos BY <1>1
    <3> QED BY <1>1, <1>3, <3>1
  <2> QED BY <1>1, <2>1 DEF Stream, Joined
<1>7. FileFollows'
  BY <1>1, <1>3, <1>4, <1>5, <1>6, FileGrowsInOrder DEF Stream, Control
<1>8. Torn' <=> ~Ends(Cell(flush_pos + flushlen - 1))
  BY <1>1, <1>3, <1>4, FileGrows DEF Control
<1>9. file'[Len(file')] = Cell(flush_pos + flushlen - 1)
  BY <1>1, <1>3, <1>4, FileGrows DEF Control
<1>10. Start' < write_pos =>
         Follows(Cell(flush_pos + flushlen - 1), Cell(Start'))
  <2> DEFINE p == flush_pos + flushlen - 1
  <2>1. Start' < write_pos => p \in Start..write_pos - 2
    BY <1>1, <1>2
  <2>2. p + 1 = Start' BY <1>1, <1>2
  <2> HIDE DEF p
  <2>3. Start' < write_pos => Follows(Cell(p), Cell(Start'))
    BY <2>1, <2>2 DEF Stream, CellsFollow
  <2> QED BY <2>3 DEF p
<1>11. Joined'
  <2>1. CASE Ends(Cell(flush_pos + flushlen - 1))
    BY <1>2, <1>8, <1>10, <2>1 DEF Joined, Follows, Cell
  <2>2. CASE ~Ends(Cell(flush_pos + flushlen - 1))
    <3>1. worker = "tail" /\ state = "INCOMPLETE"
      BY <2>2 DEF FlushWrite, Stream, CellsEnd, Control, WorkerPart
    <3>2. worker' # "rest_done" BY <3>1 DEF FlushWrite
    <3>3. Start' # write_pos
      <4>1. Start' = write_pos => flush_pos + flushlen - 1 = write_pos - 1
        BY <1>1, <1>2
      <4>2. Start < write_pos BY <1>1
      <4> QED BY <2>2, <4>1, <4>2 DEF Stream, CellsEnd
    <3>4. Start' < write_pos BY <1>1, <1>2, <3>3
    <3> QED
      BY <1>2, <1>8, <1>9, <1>10, <2>2, <3>1, <3>2, <3>4
      DEF Joined, Follows, Ends, Cell
  <2> QED BY <2>1, <2>2
<1>12. CellsFollow'
  <2>1. \A p \in Start'..write_pos - 1 : p \in Start..write_pos - 1
    BY <1>1, <1>2
  <2>2. \A p \in Start'..write_pos - 2 : p \in Start..write_pos - 2
    BY <1>1, <1>2
  <2> QED
    BY <1>2, <2>1, <2>2 DEF Stream, CellsFollow, Follows, Ends
<1>13. CellsEnd'
  <2>1. Start < write_pos /\ worker' # "rest" BY <1>1 DEF FlushWrite
  <2> QED BY <1>2, <2>1 DEF Stream, CellsEnd, Ends
<1> QED BY <1>7, <1>11, <1>12, <1>13 DEF Stream

(* The positions move on; when the part before the end of the buffer was   *)
(* written, they start over.                                               *)
LEMMA Shifted ==
  ASSUME Control, FlushEnd
  PROVE  /\ Start' = IF worker = "tail_done" THEN 0 ELSE Start
         /\ write_pos' = IF worker = "tail_done" THEN write_pos - Size
                         ELSE write_pos
         /\ worker = "tail_done" => Start = Size
         /\ \A p \in Start'..write_pos' - 1 :
              NewCell(p) = IF worker = "tail_done" THEN Cell(p + Size)
                           ELSE Cell(p)
<1>1. /\ Size \in Nat \ {0} /\ flush_pos \in Nat /\ write_pos \in Nat
      /\ flushlen \in Nat /\ write_pos < 2 * Size
  BY StartBounds DEF Control
<1>2. CASE worker = "tail_done"
  <2>1. flush_pos + flushlen = Size /\ Size <= write_pos
    BY <1>1, <1>2 DEF Control, WorkerPart
  <2>2. write_pos' = write_pos - Size
    BY <1>1, <1>2, <2>1, Position DEF FlushEnd
  <2>3. Start = Size /\ Start' = 0
    BY <1>2, <2>1 DEF FlushEnd, Start, InFile
  <2>4. ASSUME NEW p \in 0..write_pos' - 1
        PROVE  NewCell(p) = Cell(p + Size)
    <3>1. /\ p \in 0..2 * Size - 1 /\ p + Size \in 0..2 * Size - 1
          /\ p < Size /\ Size <= p + Size /\ p + Size - Size = p
      BY <1>1, <2>2
    <3>2. p % Size = p BY <3>1, Position
    <3> DEFINE q == p + Size
    <3>3. q \in 0..2 * Size - 1 /\ Size <= q /\ q - Size = p
      BY <1>1, <3>1
    <3> HIDE DEF q
    <3>4. q % Size = p BY <3>3, Position
    <3>5. NewCell(p) = Cell(q)
      BY <3>2, <3>4 DEF NewCell, Cell, FlushEnd
    <3> QED BY <3>5 DEF q
  <2> QED BY <1>2, <2>2, <2>3, <2>4
<1>3. CASE worker # "tail_done"
  BY <1>1, <1>3 DEF FlushEnd, Start, InFile, NewCell, Cell
<1> QED BY <1>2, <1>3

(* The worker is done with a part. *)
LEMMA FlushEndStream ==
  ASSUME Control, Stream, FlushEnd
  PROVE  Stream'
<1> DEFINE D == IF worker = "tail_done" THEN Size ELSE 0
<1>1. /\ Size \in Nat /\ write_pos \in Nat /\ Start \in Nat /\ D \in Nat
      /\ Start <= write_pos
  BY BufferAssumption, StartBounds DEF Control
<1>2. worker \in {"tail_done", "rest_done"} /\ worker' = "run" /\ file' = file
  BY DEF FlushEnd
<1>3. Start' = Start - D /\ write_pos' = write_pos - D
  BY <1>1, Shifted
<1>4. \A p \in Start'..write_pos' - 1 : NewCell(p) = Cell(p + D)
  <2>1. CASE worker = "tail_done" BY <2>1, Shifted
  <2>2. CASE worker # "tail_done"
    <3>1. \A p \in Start'..write_pos' - 1 : NewCell(p) = Cell(p)
      BY <2>2, Shifted
    <3>2. \A p \in Start'..write_pos' - 1 : p + D = p
      BY <1>1, <1>3, <2>2
    <3> QED BY <3>1, <3>2
  <2> QED BY <2>1, <2>2
<1> HIDE DEF D
<1>5. ASSUME NEW p \in Start'..write_pos' - 1
      PROVE  NewCell(p).by # NoOne /\ NewCell(p).len <= Size
  <2> DEFINE q == p + D
  <2>1. q \in Start..write_pos - 1 BY <1>1, <1>3
  <2>2. NewCell(p) = Cell(q) BY <1>4
  <2> HIDE DEF q
  <2> QED BY <2>1, <2>2 DEF Stream, CellsFollow
<1>6. ASSUME NEW p \in Start'..write_pos' - 2
      PROVE  Follows(NewCell(p), NewCell(p + 1))
  <2> DEFINE q == p + D
             r == p + 1
  <2>1. q \in Start..write_pos - 2 /\ r \in Start'..write_pos' - 1
        /\ r + D = q + 1 /\ p \in Start'..write_pos' - 1
    BY <1>1, <1>3
  <2>2. NewCell(p) = Cell(q) BY <1>4, <2>1
  <2> HIDE DEF q, r
  <2>3. NewCell(r) = Cell(q + 1) BY <1>4, <2>1
  <2>4. Follows(Cell(q), Cell(q + 1)) BY <2>1 DEF Stream, CellsFollow
  <2> QED BY <2>2, <2>3, <2>4 DEF r
<1>7. CellsFollow'
  BY <1>5, <1>6 DEF CellsFollow, Cell, NewCell, Follows, Ends
<1>8. CellsEnd'
  <2>1. ASSUME Start' < write_pos'
        PROVE  Ends(NewCell(write_pos' - 1))
    <3> DEFINE q == write_pos' - 1
    <3>1. q \in Start'..write_pos' - 1 /\ q + D = write_pos - 1
          /\ Start < write_pos
      BY <1>1, <1>3, <2>1
    <3> HIDE DEF q
    <3>2. NewCell(q) = Cell(write_pos - 1) BY <1>4, <3>1
    <3>3. Ends(NewCell(q)) BY <3>1, <3>2 DEF Stream, CellsEnd
    <3> QED BY <3>3 DEF q
  <2> QED BY <1>2, <2>1 DEF CellsEnd, Cell, NewCell, Ends
<1>9. FileFollows'
  BY <1>2 DEF Stream, FileFollows, Follows, Ends
<1>10. Torn' = Torn BY <1>2 DEF Torn, Ends
<1>11. Joined'
  <2>1. Start' < write_pos' <=> Start < write_pos BY <1>1, <1>3
  <2>2. Start' < write_pos' => NewCell(Start') = Cell(Start)
    <3>1. Start' < write_pos' => Start' \in Start'..write_pos' - 1
          /\ Start' + D = Start
      BY <1>1, <1>3
    <3> QED BY <1>4, <3>1
  <2>3. worker = "rest_done" => ~Torn BY DEF Stream, Joined
  <2>4. worker = "tail_done" => state' = state BY DEF FlushEnd
  <2> QED
    BY <1>2, <1>10, <2>1, <2>2, <2>3, <2>4
    DEF Stream, Joined, Follows, Ends, Cell, NewCell
<1> QED BY <1>7, <1>8, <1>9, <1>11 DEF Stream

(* Every step keeps the stream in order. *)
LEMMA NextStream == Control /\ Stream /\ [Next]_vars => Stream'
<1> SUFFICES ASSUME Control, Stream, [Next]_vars PROVE Stream' OBVIOUS
<1>1. CASE UNCHANGED vars
  BY <1>1, KeepStream DEF vars, ring
<1>2. ASSUME NEW w \in Writer, Write(w) \/ Reopen(w)
      PROVE  Stream'
  BY <1>2, KeepStream DEF Write, Reopen, ring
<1>3. ASSUME NEW w \in Writer, audit_log_buffer_pause(w)
      PROVE  Stream'
  BY <1>3, KeepStream DEF audit_log_buffer_pause
<1>4. CASE WorkerExit \/ audit_log_buffer_shutdown
  BY <1>4, KeepStream DEF WorkerExit, audit_log_buffer_shutdown, ring
<1> QED
  BY <1>1, <1>2, <1>3, <1>4, BufferWriteStream, ResumeStream,
     FlushBeginStream, FlushWriteStream, FlushEndStream
  DEF Next, Session, Flusher

(* Records one after the other are not torn. *)
LEMMA StreamNotTorn == Histories /\ Stream => NothingTorn
<1> SUFFICES ASSUME Histories, Stream PROVE NothingTorn OBVIOUS
<1>1. Len(file) \in Nat BY LenProperties DEF Histories
<1>2. \A j \in 1..Len(file) : file[j] \in Byte
  BY ElementOfSeq DEF Histories
<1>3. RecordsWhole
  <2> SUFFICES ASSUME NEW j \in 1..Len(file), file[j].at # 1
               PROVE  j > 1 /\ file[j-1] = [file[j] EXCEPT !.at = @ - 1]
    BY DEF RecordsWhole
  <2>1. j # 1 BY DEF Stream, FileFollows
  <2> DEFINE k == j - 1
  <2>2. k \in 1..Len(file) - 1 /\ k + 1 = j /\ k \in 1..Len(file)
    BY <1>1, <2>1
  <2> HIDE DEF k
  <2>3. Follows(file[k], file[j]) BY <2>2 DEF Stream, FileFollows
  <2>4. file[j] = [file[k] EXCEPT !.at = @ + 1]
    BY <2>3 DEF Follows
  <2>5. file[k] = [file[j] EXCEPT !.at = @ - 1]
    <3>1. file[k] \in Byte /\ file[j] \in Byte BY <1>2, <2>2
    <3>2. /\ file[j].by = file[k].by /\ file[j].no = file[k].no
          /\ file[j].at = file[k].at + 1 /\ file[j].len = file[k].len
      BY <2>4, <3>1 DEF Byte
    <3>3. file[j].at - 1 = file[k].at BY <3>1, <3>2 DEF Byte
    <3>4. [file[j] EXCEPT !.at = @ - 1]
            = [by |-> file[k].by, no |-> file[k].no, at |-> file[k].at,
               len |-> file[k].len]
      BY <3>1, <3>2, <3>3 DEF Byte
    <3> QED BY <3>1, <3>4 DEF Byte
  <2> QED BY <1>1, <2>1, <2>5 DEF k
<1>4. RecordsEnd
  <2> SUFFICES ASSUME NEW j \in 1..Len(file) - 1, file[j].at < file[j].len
               PROVE  file[j+1] = [file[j] EXCEPT !.at = @ + 1]
    BY DEF RecordsEnd
  <2>1. Follows(file[j], file[j+1]) BY DEF Stream, FileFollows
  <2>2. file[j] \in Byte BY <1>1, <1>2
  <2>3. ~Ends(file[j]) BY <2>2 DEF Ends, Byte
  <2> QED BY <2>1, <2>3 DEF Follows
<1> QED BY <1>3, <1>4 DEF NothingTorn

(***************************************************************************)
(* Nothing is lost: the bytes of the buffer in the file, and in what order *)
(***************************************************************************)

(* How many of them there are. *)
LEMMA Counted ==
  ASSUME Histories
  PROVE  /\ IsFiniteSet(ThroughBuffer) /\ Cardinality(ThroughBuffer) \in Nat
         /\ \A i \in ThroughBuffer : Rank(i) \in 1..Cardinality(ThroughBuffer)
<1>1. Len(file) \in Nat BY LenProperties DEF Histories
<1>2. IsFiniteSet(1..Len(file)) BY <1>1, FS_Interval
<1>3. IsFiniteSet(ThroughBuffer) /\ Cardinality(ThroughBuffer) \in Nat
  BY <1>2, FS_Subset, FS_CardinalityType DEF ThroughBuffer
<1>4. ASSUME NEW i \in ThroughBuffer
      PROVE  Rank(i) \in 1..Cardinality(ThroughBuffer)
  <2> DEFINE S == {j \in ThroughBuffer : j <= i}
  <2>1. S \in SUBSET ThroughBuffer /\ i \in S
    BY <1>1 DEF ThroughBuffer
  <2> HIDE DEF S
  <2>2. /\ IsFiniteSet(S) /\ Cardinality(S) <= Cardinality(ThroughBuffer)
        /\ Cardinality(S) \in Nat /\ Cardinality(S) # 0
    BY <1>3, <2>1, FS_Subset, FS_CardinalityType, FS_EmptySet
  <2>3. Rank(i) = Cardinality(S) BY DEF Rank, S
  <2> QED BY <1>3, <2>2, <2>3
<1> QED BY <1>3, <1>4

(* The file grows by bytes that came through the buffer. *)
LEMMA GrowsThrough ==
  ASSUME Histories, NEW s \in Seq(Byte), file' = file \o s, Len(s) > 0,
         \A k \in 1..Len(s) : s[k].by # NoOne /\ s[k].len <= Size
  PROVE  /\ ThroughBuffer' =
              ThroughBuffer \cup (Len(file) + 1..Len(file) + Len(s))
         /\ Cardinality(ThroughBuffer') = Cardinality(ThroughBuffer) + Len(s)
         /\ \A i \in ThroughBuffer :
              Rank(i)' = Rank(i) /\ file'[i] = file[i]
         /\ \A i \in Len(file) + 1..Len(file) + Len(s) :
              /\ Rank(i)' = Cardinality(ThroughBuffer) + i - Len(file)
              /\ file'[i] = s[i - Len(file)]
<1> DEFINE n == Len(file)
           m == Len(s)
           T == ThroughBuffer
<1>1. /\ n \in Nat /\ m \in Nat /\ Len(file)' = n + m
      /\ \A j \in 1..n : file'[j] = file[j]
      /\ \A j \in n + 1..n + m : file'[j] = s[j - n]
  BY FileGrows
<1>2. IsFiniteSet(T) /\ Cardinality(T) \in Nat BY Counted
<1>3. T \subseteq 1..n BY DEF ThroughBuffer
<1>4. ThroughBuffer' = T \cup (n + 1..n + m)
  <2>1. \A j \in n + 1..n + m : j - n \in 1..m BY <1>1
  <2>2. \A j \in 1..n + m : j \in 1..n \/ j \in n + 1..n + m BY <1>1
  <2>3. \A j \in 1..n : j \in 1..n + m BY <1>1
  <2>4. \A j \in n + 1..n + m : j \in 1..n + m BY <1>1
  <2>5. ThroughBuffer' =
          {j \in 1..n + m : file'[j].by # NoOne /\ file'[j].len <= Size}
    BY <1>1 DEF ThroughBuffer
  <2>6. T = {j \in 1..n : file[j].by # NoOne /\ file[j].len <= Size}
    BY DEF ThroughBuffer
  <2> HIDE DEF n, m, T
  <2>7. \A j \in 1..n : j \in ThroughBuffer' <=> j \in T
    BY <1>1, <2>3, <2>5, <2>6
  <2>8. \A j \in n + 1..n + m : j \in ThroughBuffer'
    BY <1>1, <2>1, <2>4, <2>5 DEF m
  <2>9. ThroughBuffer' \subseteq 1..n + m BY <2>5
  <2> QED BY <1>3, <2>2, <2>3, <2>7, <2>8, <2>9
<1> HIDE DEF n, m, T
<1>5. ASSUME NEW k \in 0..m
      PROVE  Cardinality(T \cup (n + 1..n + k)) = Cardinality(T) + k
  <2> DEFINE I == n + 1..n + k
  <2>1. IsFiniteSet(I) /\ Cardinality(I) = k
    <3> DEFINE a == n + 1
               b == n + k
    <3>1. a \in Int /\ b \in Int /\ (a > b => k = 0) /\ b - a + 1 = k
      BY <1>1
    <3> HIDE DEF a, b
    <3>2. IsFiniteSet(a..b) /\ Cardinality(a..b) = k
      BY <3>1, FS_Interval
    <3> QED BY <3>2 DEF a, b
  <2>2. T \cap I = {} BY <1>1, <1>3
  <2> HIDE DEF I
  <2>3. Cardinality(T \cup I)
          = Cardinality(T) + Cardinality(I) - Cardinality(T \cap I)
    BY <1>2, <2>1, FS_Union
  <2>4. Cardinality(T \cap I) = 0 BY <2>2, FS_EmptySet
  <2>5. Cardinality(T \cup I) = Cardinality(T) + k
    BY <1>2, <2>1, <2>3, <2>4
  <2> QED BY <2>5 DEF I
<1>6. Cardinality(ThroughBuffer') = Cardinality(T) + m
  BY <1>1, <1>4, <1>5
<1>7. ASSUME NEW i \in T
      PROVE  Rank(i)' = Rank(i) /\ file'[i] = file[i]
  <2>1. {j \in ThroughBuffer' : j <= i} = {j \in T : j <= i}
    BY <1>1, <1>3, <1>4
  <2> QED BY <1>1, <1>3, <2>1 DEF Rank, T
<1>8. ASSUME NEW i \in n + 1..n + m
      PROVE  /\ Rank(i)' = Cardinality(T) + i - n
             /\ file'[i] = s[i - n]
  <2> DEFINE k == i - n
  <2>1. k \in 0..m /\ n + k = i BY <1>1
  <2> HIDE DEF k
  <2>2. {j \in ThroughBuffer' : j <= i} = T \cup (n + 1..n + k)
    <3>1. \A j \in T : j <= i BY <1>1, <1>3
    <3>2. \A j \in n + 1..n + m : j <= i <=> j \in n + 1..n + k
      BY <1>1, <2>1
    <3>3. \A j \in n + 1..n + k : j \in n + 1..n + m BY <1>1, <2>1
    <3> QED BY <1>4, <3>1, <3>2, <3>3
  <2>3. Rank(i)' = Cardinality({j \in ThroughBuffer' : j <= i})
    BY DEF Rank
  <2>4. Rank(i)' = Cardinality(T) + k BY <1>5, <2>1, <2>2, <2>3
  <2> QED BY <1>1, <1>2, <2>1, <2>4 DEF k
<1> QED BY <1>4, <1>6, <1>7, <1>8 DEF n, m, T

(* The file grows by other bytes. *)
LEMMA GrowsPast ==
  ASSUME Histories, NEW s \in Seq(Byte), file' = file \o s, Len(s) > 0,
         \A k \in 1..Len(s) : s[k].by = NoOne \/ s[k].len > Size
  PROVE  /\ ThroughBuffer' = ThroughBuffer
         /\ \A i \in ThroughBuffer : file'[i] = file[i]
<1> DEFINE n == Len(file)
           m == Len(s)
<1>1. /\ n \in Nat /\ m \in Nat /\ Len(file)' = n + m
      /\ \A j \in 1..n : file'[j] = file[j]
      /\ \A j \in n + 1..n + m : file'[j] = s[j - n]
  BY FileGrows
<1>2. \A j \in n + 1..n + m : j - n \in 1..m BY <1>1
<1>3. \A j \in n + 1..n + m : file'[j].by = NoOne \/ file'[j].len > Size
  BY <1>1, <1>2
<1>4. \A j \in n + 1..n + m : file'[j].len \in Nat
  <2>1. \A k \in 1..m : s[k] \in Byte BY ElementOfSeq
  <2>2. \A k \in 1..m : s[k].len \in Nat BY <2>1 DEF Byte
  <2> QED BY <1>1, <1>2, <2>2
<1>5. \A j \in n + 1..n + m : j \notin ThroughBuffer'
  BY <1>3, <1>4, BufferAssumption DEF ThroughBuffer
<1>6. \A j \in 1..n + m : j \in 1..n \/ j \in n + 1..n + m BY <1>1
<1>7. \A j \in 1..n : j \in 1..n + m BY <1>1
<1>8. ThroughBuffer' \subseteq 1..n + m /\ ThroughBuffer \subseteq 1..n
  BY <1>1 DEF ThroughBuffer
<1>9. \A j \in 1..n : j \in ThroughBuffer' <=> j \in ThroughBuffer
  BY <1>1, <1>7 DEF ThroughBuffer
<1> HIDE DEF n, m
<1>10. ThroughBuffer' = ThroughBuffer
  BY <1>5, <1>6, <1>8, <1>9
<1> QED BY <1>1, <1>8, <1>10

(* Nothing was taken yet. *)
LEMMA InitLost == Init => NothingLost
<1> SUFFICES ASSUME Init PROVE NothingLost OBVIOUS
<1>1. ThroughBuffer = {} BY DEF Init, ThroughBuffer
<1>2. Cardinality(ThroughBuffer) = 0 BY <1>1, FS_EmptySet
<1>3. InFile = 0 /\ flush_pos = 0 /\ write_pos = 0 /\ Len(accepted) = 0
  BY DEF Init, InFile
<1> QED BY <1>1, <1>2, <1>3 DEF NothingLost

(* The same, with Start and Cell. *)
LEMMA LostIs ==
  NothingLost <=>
    /\ Len(accepted) = Cardinality(ThroughBuffer) + write_pos - Start
    /\ \A i \in ThroughBuffer : file[i] = accepted[Rank(i)]
    /\ \A p \in Start..write_pos - 1 :
         Cell(p) = accepted[Cardinality(ThroughBuffer) + 1 + p - Start]
  BY DEF NothingLost, Start, Cell

(* And in the next state. *)
LEMMA LostIsNext ==
  ASSUME Len(accepted') = Cardinality(ThroughBuffer') + write_pos' - Start',
         \A i \in ThroughBuffer' : file'[i] = accepted'[Rank(i)'],
         \A p \in Start'..write_pos' - 1 :
           NewCell(p)
             = accepted'[Cardinality(ThroughBuffer') + 1 + p - Start']
  PROVE  NothingLost'
  BY DEF NothingLost, Start, NewCell

(* Steps that leave the file and the positions alone. *)
LEMMA KeepLost ==
  ASSUME NothingLost,
         UNCHANGED <<buf, write_pos, flush_pos, flushlen, file, accepted>>,
         InFile' = InFile
  PROVE  NothingLost'
<1>1. ThroughBuffer' = ThroughBuffer BY DEF ThroughBuffer
<1>2. \A i : Rank(i)' = Rank(i) BY <1>1 DEF Rank
<1> QED BY <1>1, <1>2 DEF NothingLost

(* The buffer takes a record. *)
LEMMA BufferWriteLost ==
  ASSUME NEW w \in Writer, Control, NothingLost, BufferWrite(w)
  PROVE  NothingLost'
<1> DEFINE s == arg[w]
           len == Len(s)
           out == Cardinality(ThroughBuffer)
<1>1. s \in Seq(Byte) /\ len \in 1..Size /\ accepted \in Seq(Byte)
  BY BufferAssumption DEF Control, Arguments, BufferWrite, Histories
<1>2. /\ UNCHANGED <<worker, flush_pos, flushlen, file>>
      /\ Start' = Start /\ InFile' = InFile
  BY DEF BufferWrite, Start, InFile
<1>3. CASE ~fits(len)
  BY <1>2, <1>3, KeepLost DEF BufferWrite
<1>4. CASE fits(len)
  <2>1. /\ Size \in Nat \ {0} /\ flush_pos \in Nat /\ write_pos \in Nat
        /\ Start \in Nat /\ flush_pos <= Start /\ Start <= write_pos
    BY StartBounds DEF Control
  <2>2. write_pos' = write_pos + len /\ accepted' = accepted \o s
    BY <1>4 DEF BufferWrite
  <2>3. /\ \A p \in flush_pos..write_pos - 1 : NewCell(p) = Cell(p)
        /\ \A k \in 1..len : NewCell(write_pos + k - 1) = s[k]
    BY <1>4, Copied DEF NewCell
  <2>4. out \in Nat /\ \A i \in ThroughBuffer : Rank(i) \in 1..out
    BY Counted DEF Control
  <2>5. ThroughBuffer' = ThroughBuffer BY <1>2 DEF ThroughBuffer
  <2>6. \A i : Rank(i)' = Rank(i) BY <2>5 DEF Rank
  <2>7. Len(accepted) = out + write_pos - Start BY LostIs
  <2>8. /\ Len(accepted') = Len(accepted) + len
        /\ \A i \in 1..Len(accepted) + len :
             accepted'[i] = IF i <= Len(accepted) THEN accepted[i]
                            ELSE s[i - Len(accepted)]
    BY <1>1, <2>2, ConcatProperties
  <2> HIDE DEF s, len
  <2>9. \A i \in ThroughBuffer' : file'[i] = accepted'[Rank(i)']
    <3> SUFFICES ASSUME NEW i \in ThroughBuffer
                 PROVE  file[i] = accepted'[Rank(i)]
      BY <1>2, <2>5, <2>6
    <3>1. Rank(i) \in 1..Len(accepted) + len /\ Rank(i) <= Len(accepted)
      BY <1>1, <2>1, <2>4, <2>7
    <3> QED BY <2>8, <3>1, LostIs
  <2>10. \A p \in Start..write_pos' - 1 :
           NewCell(p) = accepted'[out + 1 + p - Start]
    <3> SUFFICES ASSUME NEW p \in Start..write_pos' - 1
                 PROVE  NewCell(p) = accepted'[out + 1 + p - Start]
      OBVIOUS
    <3> DEFINE i == out + 1 + p - Start
    <3>1. i \in 1..Len(accepted) + len
      BY <1>1, <2>1, <2>2, <2>4, <2>7
    <3>2. CASE p < write_pos
      <4>1. /\ p \in flush_pos..write_pos - 1 /\ p \in Start..write_pos - 1
            /\ i <= Len(accepted)
        BY <2>1, <2>4, <2>7, <3>2
      <4>2. Cell(p) = accepted[i] BY <4>1, LostIs
      <4> HIDE DEF i
      <4>3. NewCell(p) = accepted'[i] BY <2>3, <2>8, <3>1, <4>1, <4>2
      <4> QED BY <4>3 DEF i
    <3>3. CASE ~(p < write_pos)
      <4> DEFINE k == p - write_pos + 1
      <4>1. /\ k \in 1..len /\ write_pos + k - 1 = p
            /\ ~(i <= Len(accepted)) /\ i - Len(accepted) = k
        BY <1>1, <2>1, <2>2, <2>4, <2>7, <3>3
      <4> HIDE DEF i, k
      <4>2. NewCell(p) = s[k] BY <2>3, <4>1
      <4>3. NewCell(p) = accepted'[i] BY <2>8, <3>1, <4>1, <4>2
      <4> QED BY <4>3 DEF i
    <3> QED BY <3>2, <3>3
  <2>11. Len(accepted') = out + write_pos' - Start
    BY <1>1, <2>1, <2>2, <2>4, <2>7, <2>8
  <2> QED BY <1>2, <2>5, <2>9, <2>10, <2>11, LostIsNext
<1> QED BY <1>3, <1>4

(* What does not come through the buffer. *)
LEMMA ResumeLost ==
  ASSUME NEW w \in Writer, Control, NothingLost, audit_log_buffer_resume(w)
  PROVE  NothingLost'
<1> DEFINE s == arg[w]
<1>1. \/ IsRecord(s, NoOne) /\ Len(s) = 1
      \/ IsRecord(s, w) /\ Len(s) > Size
  BY DEF audit_log_buffer_resume, Control, Arguments
<1>2. s \in Seq(Byte) /\ file' = file \o s /\ Len(s) \in Nat
  BY LenProperties DEF audit_log_buffer_resume, Control, Histories
<1>3. Len(s) > 0
  <2> HIDE DEF s
  <2>1. Size \in Nat BY BufferAssumption
  <2>2. Len(s) \in Nat BY <1>2
  <2>3. Len(s) = 1 \/ Len(s) > Size BY <1>1
  <2> QED BY <2>1, <2>2, <2>3
<1>4. \A k \in 1..Len(s) : s[k].by = NoOne \/ s[k].len > Size
  BY <1>1, <1>2 DEF IsRecord
<1> HIDE DEF s
<1>5. /\ ThroughBuffer' = ThroughBuffer
      /\ \A i \in ThroughBuffer : file'[i] = file[i]
  BY <1>2, <1>3, <1>4, GrowsPast DEF Control
<1>6. \A i : Rank(i)' = Rank(i) BY <1>5 DEF Rank
<1>7. UNCHANGED <<buf, write_pos, flush_pos, accepted>> /\ InFile' = InFile
  BY DEF audit_log_buffer_resume, InFile
<1> QED BY <1>5, <1>6, <1>7 DEF NothingLost

(* The worker writes a part: its cells become the next bytes of the file. *)
LEMMA FlushWriteLost ==
  ASSUME Control, Stream, NothingLost, FlushWrite
  PROVE  NothingLost'
<1> DEFINE s == Region(flush_pos, flushlen)
           out == Cardinality(ThroughBuffer)
           n == Len(file)
<1>1. /\ Size \in Nat \ {0} /\ flush_pos \in Nat /\ write_pos \in Nat
      /\ flushlen \in Nat /\ Start = flush_pos
      /\ flushlen > 0 /\ flush_pos + flushlen <= write_pos
  BY StartBounds
  DEF Control, TypeOK, WorkerPart, FlushWrite, Start, InFile
<1>2. /\ UNCHANGED <<buf, write_pos, flush_pos, flushlen, accepted>>
      /\ Start' = flush_pos + flushlen /\ \A p : NewCell(p) = Cell(p)
  BY DEF FlushWrite, Start, InFile, Cell, NewCell, ring
<1>3. /\ s \in Seq(Byte) /\ Len(s) = flushlen
      /\ \A k \in 1..flushlen : s[k] = Cell(flush_pos + k - 1)
  BY <1>1, RegionSeq DEF Control
<1>4. file' = file \o s /\ n \in Nat
  BY LenProperties DEF FlushWrite, Control, Histories
<1> HIDE DEF s, n
<1>5. \A k \in 1..flushlen : flush_pos + k - 1 \in Start..write_pos - 1
  BY <1>1
<1>6. \A k \in 1..flushlen : s[k].by # NoOne /\ s[k].len <= Size
  BY <1>3, <1>5 DEF Stream, CellsFollow
<1>7. /\ ThroughBuffer' = ThroughBuffer \cup (n + 1..n + flushlen)
      /\ Cardinality(ThroughBuffer') = out + flushlen
      /\ \A i \in ThroughBuffer : Rank(i)' = Rank(i) /\ file'[i] = file[i]
      /\ \A i \in n + 1..n + flushlen :
           Rank(i)' = out + i - n /\ file'[i] = s[i - n]
  BY <1>1, <1>3, <1>4, <1>6, GrowsThrough DEF Control, n
<1>8. out \in Nat BY Counted DEF Control
<1>9. Len(accepted') = Cardinality(ThroughBuffer') + write_pos' - Start'
  <2>1. Len(accepted) = out + write_pos - flush_pos
    BY <1>1, LostIs
  <2>2. /\ accepted' = accepted /\ write_pos' = write_pos
        /\ Start' = flush_pos + flushlen
        /\ Cardinality(ThroughBuffer') = out + flushlen
    BY <1>2, <1>7
  <2> HIDE DEF out
  <2> QED BY <1>1, <1>8, <2>1, <2>2
<1>10. \A i \in ThroughBuffer' : file'[i] = accepted'[Rank(i)']
  <2>1. ASSUME NEW i \in n + 1..n + flushlen
        PROVE  file'[i] = accepted[Rank(i)']
    <3> DEFINE k == i - n
               p == flush_pos + k - 1
    <3>1. k \in 1..flushlen BY <1>1, <1>4
    <3>2. p \in Start..write_pos - 1 /\ out + 1 + p - Start = out + i - n
      BY <1>1, <1>4, <1>8, <3>1
    <3>3. file'[i] = Cell(p) BY <1>3, <1>7, <3>1
    <3>4. Rank(i)' = out + i - n BY <1>7
    <3> HIDE DEF k, p
    <3>5. Cell(p) = accepted[out + 1 + p - Start] BY <3>2, LostIs
    <3> QED BY <3>2, <3>3, <3>4, <3>5
  <2>2. ASSUME NEW i \in ThroughBuffer
        PROVE  file'[i] = accepted[Rank(i)']
    BY <1>7, LostIs
  <2> QED BY <1>2, <1>7, <2>1, <2>2
<1>11. ASSUME NEW p \in Start'..write_pos' - 1
       PROVE  NewCell(p)
                = accepted'[Cardinality(ThroughBuffer') + 1 + p - Start']
  <2>1. p \in Start..write_pos - 1 BY <1>1, <1>2
  <2>2. out + 1 + p - Start = Cardinality(ThroughBuffer') + 1 + p - Start'
    BY <1>1, <1>2, <1>7, <1>8, <2>1
  <2>3. Cell(p) = accepted[out + 1 + p - Start] BY <2>1, LostIs
  <2> QED BY <1>2, <2>2, <2>3
<1> QED BY <1>9, <1>10, <1>11, LostIsNext

(* The positions move on. *)
LEMMA FlushEndLost ==
  ASSUME Control, NothingLost, FlushEnd
  PROVE  NothingLost'
<1> DEFINE out == Cardinality(ThroughBuffer)
<1>1. /\ Size \in Nat /\ write_pos \in Nat /\ Start \in Nat
      /\ Start <= write_pos /\ out \in Nat
  BY BufferAssumption, StartBounds, Counted DEF Control
<1>2. file' = file /\ accepted' = accepted BY DEF FlushEnd
<1>3. ThroughBuffer' = ThroughBuffer BY <1>2 DEF ThroughBuffer
<1>4. \A i : Rank(i)' = Rank(i) BY <1>3 DEF Rank
<1>5. /\ Start' = IF worker = "tail_done" THEN 0 ELSE Start
      /\ write_pos' = IF worker = "tail_done" THEN write_pos - Size
                      ELSE write_pos
      /\ worker = "tail_done" => Start = Size
      /\ \A p \in Start'..write_pos' - 1 :
           NewCell(p) = IF worker = "tail_done" THEN Cell(p + Size)
                        ELSE Cell(p)
  BY Shifted
<1> HIDE DEF out
<1>6. Len(accepted') = out + write_pos' - Start'
  BY <1>1, <1>2, <1>5, LostIs DEF out
<1>7. ASSUME NEW p \in Start'..write_pos' - 1
      PROVE  NewCell(p) = accepted'[out + 1 + p - Start']
  <2>1. CASE worker = "tail_done"
    <3> DEFINE q == p + Size
    <3>1. /\ q \in Start..write_pos - 1
          /\ out + 1 + q - Start = out + 1 + p - Start'
      BY <1>1, <1>5, <2>1
    <3>2. NewCell(p) = Cell(q) BY <1>5, <2>1
    <3> HIDE DEF q
    <3>3. Cell(q) = accepted[out + 1 + q - Start] BY <3>1, LostIs DEF out
    <3> QED BY <1>2, <3>1, <3>2, <3>3
  <2>2. CASE worker # "tail_done"
    <3>1. Start' = Start /\ write_pos' = write_pos /\ NewCell(p) = Cell(p)
      BY <1>5, <2>2
    <3>2. Cell(p) = accepted[out + 1 + p - Start] BY <3>1, LostIs DEF out
    <3> QED BY <1>2, <3>1, <3>2
  <2> QED BY <2>1, <2>2
<1>8. \A i \in ThroughBuffer' : file'[i] = accepted'[Rank(i)']
  BY <1>2, <1>3, <1>4, LostIs
<1> QED BY <1>3, <1>6, <1>7, <1>8, LostIsNext DEF out

(* Every step. *)
LEMMA NextLost ==
  Control /\ Stream /\ NothingLost /\ [Next]_vars => NothingLost'
<1> SUFFICES ASSUME Control, Stream, NothingLost, [Next]_vars
             PROVE  NothingLost'
  OBVIOUS
<1>1. CASE UNCHANGED vars
  BY <1>1, KeepLost DEF vars, ring, InFile
<1>2. ASSUME NEW w \in Writer,
             Write(w) \/ Reopen(w) \/ audit_log_buffer_pause(w)
      PROVE  NothingLost'
  BY <1>2, KeepLost DEF Write, Reopen, audit_log_buffer_pause, ring, InFile
<1>3. CASE WorkerExit \/ audit_log_buffer_shutdown
  BY <1>3, KeepLost DEF WorkerExit, audit_log_buffer_shutdown, ring, InFile
<1>4. CASE FlushBegin
  <2>1. InFile' = 0 /\ InFile = 0 BY <1>4 DEF FlushBegin, InFile
  <2>2. UNCHANGED <<buf, write_pos, flush_pos, file, accepted>>
    BY <1>4 DEF FlushBegin
  <2>3. ThroughBuffer' = ThroughBuffer BY <2>2 DEF ThroughBuffer
  <2>4. \A i : Rank(i)' = Rank(i) BY <2>3 DEF Rank
  <2> QED BY <2>1, <2>2, <2>3, <2>4 DEF NothingLost
<1> QED
  BY <1>1, <1>2, <1>3, <1>4, BufferWriteLost, ResumeLost, FlushWriteLost,
     FlushEndLost
  DEF Next, Session, Flusher

(***************************************************************************)
(* The theorems.                                                           *)
(***************************************************************************)

(* The invariant that everything below follows from. *)
THEOREM BufferInvariant == Spec => []IndInv
<1>1. Init => IndInv
  BY InitControl, InitStream, InitLost DEF IndInv
<1>2. IndInv /\ [Next]_vars => IndInv'
  BY NextControl, NextStream, NextLost DEF IndInv
<1> QED BY <1>1, <1>2, PTL DEF Spec

(* The positions stay within the buffer, for every size of it: no memcpy   *)
(* and no write of audit_log_buffer_write and audit_log_flush leaves it.   *)
THEOREM BufferTypeOK == Spec => []TypeOK
<1>1. IndInv => TypeOK BY DEF IndInv, Control
<1> QED BY <1>1, BufferInvariant, PTL

(* No record is torn in the file: the two writes of one that wraps are     *)
(* never separated, by a larger record or by reopening the log.            *)
THEOREM BufferNothingTorn == Spec => []NothingTorn
<1>1. IndInv => NothingTorn
  BY StreamNotTorn DEF IndInv, Control
<1> QED BY <1>1, BufferInvariant, PTL

(* Every byte the buffer took is in the file or in the buffer, once and in *)
(* the order of the calls of audit_log_buffer_write.                       *)
THEOREM BufferNothingLost == Spec => []NothingLost
<1>1. IndInv => NothingLost BY DEF IndInv
<1> QED BY <1>1, BufferInvariant, PTL

(* No step of anybody changes what the worker is writing without the mutex *)
(* in audit_log_flush.                                                     *)
THEOREM BufferRegionStable == Spec => FlushedRegionStable
<1>1. IndInv /\ [Next]_vars => [InFlightKept]_vars
  <2> SUFFICES ASSUME IndInv, Next, NEW i \in InFlight
               PROVE  buf'[i] = buf[i]
    BY DEF InFlightKept
  <2>1. Control BY DEF IndInv
  <2>2. ASSUME NEW w \in Writer, BufferWrite(w)
        PROVE  buf'[i] = buf[i]
    <3>1. CASE ~fits(Len(arg[w]))
      BY <2>2, <3>1 DEF BufferWrite
    <3>2. CASE fits(Len(arg[w]))
      <4>1. /\ i \in 0..2 * Size - 1 /\ i < Size
            /\ i \in flush_pos..write_pos - 1
        BY <2>1, StartBounds DEF InFlight, Control, WorkerPart
      <4>2. i % Size = i BY <4>1, Position
      <4>3. buf'[i % Size] = Cell(i) BY <2>1, <2>2, <3>2, <4>1, Copied
      <4> QED BY <4>2, <4>3 DEF Cell
    <3> QED BY <3>1, <3>2
  <2>3. CASE \A w \in Writer : ~BufferWrite(w)
    BY <2>3
    DEF Next, Session, Flusher, Write, Reopen, audit_log_buffer_pause,
        audit_log_buffer_resume, audit_log_buffer_shutdown, FlushBegin,
        FlushWrite, FlushEnd, WorkerExit, ring
  <2> QED BY <2>2, <2>3
<1> QED BY <1>1, BufferInvariant, PTL DEF Spec, FlushedRegionStable

============================================================================
