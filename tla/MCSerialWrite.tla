--------------------------- MODULE MCSerialWrite ---------------------------
(* Model checking of SerialWrite: a message of three bytes through a queue *)
(* of two, ints of four bits, a multiplier, none, and a product that no    *)
(* such int holds, with which a call is refused.                           *)
EXTENDS SerialWrite

CONSTANTS w1, a1

MCTimeoutConfigs ==
    {[timeout_ms |-> 3, multiplier |-> 2], [timeout_ms |-> 2, multiplier |-> 0],
     [timeout_ms |-> 3, multiplier |-> 5]}

=============================================================================
