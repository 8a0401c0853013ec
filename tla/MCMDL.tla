------------------------------- MODULE MCMDL -------------------------------
(***************************************************************************)
(* Instances of MDL for TLC.                                               *)
(***************************************************************************)
EXTENDS MDL

CONSTANTS c1, c2, c3, t1, t2

MCContext == {c1, c2, c3}
MCSymmetry == Permutations(MCContext)

(* Two tables: one is read, written or altered, the other altered.  Three  *)
(* contexts with two requests each can form loops of any length, through   *)
(* one table or both, and two loops through one context (an upgrade to X   *)
(* that two readers who ask for SW wait for and are waited for by).        *)
MCKey == {t1, t2}
MCRequests == ({t1} \X {"SR", "SW", "SNW"}) \cup ({t2} \X {"SNW"})
MCUpgrades == {<<"SNW", "X">>}
MCDowngrades == {<<"X", "SNW">>}

(* One table that is read, altered in both ways, or dropped. *)
HogTable == {t1}
HogRequests == HogTable \X {"SR", "SU", "SNW", "X"}

============================================================================
