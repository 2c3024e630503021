--------------------------- MODULE MCLineSettings ---------------------------
(* Model checking of LineSettings: every kind of setting, arguments that a *)
(* setter must refuse, and ports left behind with other programs' flow     *)
(* control.                                                                *)
EXTENDS LineSettings, TLC

CONSTANTS t1, t2

MCValues ==
    [baudrate |-> {110, 300}, data_bits |-> {4, 7}, parity |-> {1}, stop_bits |-> {0, 1},
     flow_mode |-> {2}]

MCConfigs ==
    {[baudrate |-> 9600, data_bits |-> 8, parity |-> 0, stop_bits |-> 2, flow_mode |-> 1]}

MCFactoryDcb ==
    {[BaudRate |-> 1200, ByteSize |-> 7, fParity |-> TRUE, Parity |-> NOPARITY,
      StopBits |-> "ONE5STOPBITS", fOutxCtsFlow |-> TRUE, fOutxDsrFlow |-> TRUE,
      fRtsControl |-> "DISABLE", fOutX |-> TRUE, fInX |-> FALSE]}

Symmetry == Permutations(Threads)

=============================================================================
