---------------------------- MODULE AtomicCommit ----------------------------
(***************************************************************************)
(* What the binary log promises as transaction coordinator when every      *)
(* group is synced (TC_LOG, sql/log.h; sync_binlog = 1): one decision per  *)
(* transaction.  A transaction is logged, then visible in the engine, then *)
(* answered; a crash decides at once about those still on their way: a     *)
(* beginning of the log survives that holds all that was visible, and the  *)
(* engine has exactly what the surviving log has.                          *)
(***************************************************************************)
EXTENDS Naturals, Sequences

CONSTANT Transaction

VARIABLES
  log,       \* the decisions, in the order in which slaves receive them
  visible,   \* what other sessions see committed, or will after a restart
  answered   \* transactions whose client got the answer "committed"

vars == <<log, visible, answered>>

Logged(s) == {s[i] : i \in 1..Len(s)}

Init == log = <<>> /\ visible = {} /\ answered = {}

Decide(x) ==
  /\ x \notin Logged(log)
  /\ log' = Append(log, x)
  /\ UNCHANGED <<visible, answered>>

Commit(x) ==
  /\ x \in Logged(log) \ visible
  /\ visible' = visible \cup {x}
  /\ UNCHANGED <<log, answered>>

(* The answer comes with the commit, or after it. *)
Answer(x) ==
  /\ x \in Logged(log)
  /\ visible' = visible \cup {x}
  /\ answered' = answered \cup {x}
  /\ UNCHANGED log

Crash ==
  /\ \E n \in 0..Len(log) :
       /\ visible \subseteq Logged(SubSeq(log, 1, n))
       /\ log' = SubSeq(log, 1, n)
  /\ visible' = Logged(log')
  /\ UNCHANGED answered

Next == Crash \/ \E x \in Transaction : Decide(x) \/ Commit(x) \/ Answer(x)

Spec == Init /\ [][Next]_vars

=============================================================================
