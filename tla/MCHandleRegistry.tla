-------------------------- MODULE MCHandleRegistry --------------------------
(* Model checking of HandleRegistry: every opening reuses one value. What  *)
(* the map does with one value does not touch another.                     *)
EXTENDS HandleRegistry, TLC

CONSTANTS t1, t2, t3, h1

Interchangeable == Permutations(Threads)

=============================================================================
