---------------------------- MODULE MCSerialRead ----------------------------
(* Model checking of SerialRead: a stream of four bytes with a terminator  *)
(* of one and one of two values in it.                                     *)
EXTENDS SerialRead

CONSTANTS r1, a1

MCStream == <<"x", "t", "x", "t">>
MCTerminators == {<< >>, <<"t">>, <<"t", "x">>}

=============================================================================
