---------------------------- MODULE MCPendingIo ----------------------------
(* Model checking of PendingIo: constants only. *)
EXTENDS PendingIo, TLC

CONSTANTS r1, r2, w1, a1, a2

Threads == Permutations(Readers) \cup Permutations(Aborters)

=============================================================================
