-------------------------- MODULE MCEventDispatcher --------------------------
(* Model checking of EventDispatcher: the devices are interchangeable, and  *)
(* so are the names.                                                        *)
EXTENDS EventDispatcher, TLC

CONSTANTS d1, d2, com3, com4

Interchangeable == Permutations({d1, d2}) \cup Permutations({com3, com4})

=============================================================================
