---------------------------- MODULE MCLedgerLock ----------------------------
(* Five hosts over one home: four of one pid, as a container restarted or a *)
(* plugin loaded again has them, and one of another user, who may not send  *)
(* a signal to the others.                                                  *)
EXTENDS LedgerLock, TLC

CONSTANTS a, b, c, d, e, p, q

MCPidOf == [h \in Hosts |-> IF h = b THEN q ELSE p]

MCCanSignal == [by \in Pids |-> IF by = q THEN Pids ELSE {p}]

\* The hosts of one pid are alike.
MCAlike == Permutations({a, c, d, e})

=============================================================================
