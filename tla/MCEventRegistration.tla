------------------------- MODULE MCEventRegistration -------------------------
(* Model checking of EventRegistration.                                     *)
EXTENDS EventRegistration, TLC

CONSTANTS t1, t2, l1, l2, l3

Alike == Permutations({t1, t2}) \cup Permutations({l1, l2, l3})

=============================================================================
