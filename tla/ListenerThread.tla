--------------------------- MODULE ListenerThread ---------------------------
(***************************************************************************)
(* What serialSetEventCallback and a listener's dispatcher thread promise  *)
(* each other: the thread is started once, takes nothing up before the     *)
(* listener is activated or after it is stopped, finishes what it has      *)
(* taken up, application code included, and exits from its wait, and only  *)
(* when it is stopped.                                                     *)
(***************************************************************************)

VARIABLES
    active,     \* activate() was called
    stopped,    \* stop() was called
    thread      \* "none", "wait", "pass" outside the lock, "exited"

vars == <<active, stopped, thread>>

Init == active = FALSE /\ stopped = FALSE /\ thread = "none"

Start ==
    /\ thread = "none"
    /\ thread' = "wait"
    /\ UNCHANGED <<active, stopped>>

Activate ==
    /\ thread = "wait" /\ ~active /\ ~stopped
    /\ active' = TRUE
    /\ UNCHANGED <<stopped, thread>>

\* At any time after that, also between a take and its callback.
Stop ==
    /\ active /\ ~stopped
    /\ stopped' = TRUE
    /\ UNCHANGED <<active, thread>>

Take ==
    /\ thread = "wait" /\ active /\ ~stopped
    /\ thread' = "pass"
    /\ UNCHANGED <<active, stopped>>

\* Delivered, or found to be no news.
Finish ==
    /\ thread = "pass"
    /\ thread' = "wait"
    /\ UNCHANGED <<active, stopped>>

Exit ==
    /\ thread = "wait" /\ stopped
    /\ thread' = "exited"
    /\ UNCHANGED <<active, stopped>>

Next == Start \/ Activate \/ Stop \/ Take \/ Finish \/ Exit

Spec == Init /\ [][Next]_vars

=============================================================================
