---------------------------- MODULE MCQuarantine ----------------------------
(* The quarantine for TLC: transactions that share one journal, or that have  *)
(* a journal each.                                                            *)
EXTENDS Quarantine, TLC

CONSTANTS j1, j2

Shared == [t \in Txns |-> j1]
Separate == [t \in Txns |-> IF t = 1 THEN j1 ELSE j2]

=============================================================================
