--------------------------- MODULE AbortContract ---------------------------
(***************************************************************************)
(* What callers may rely on about aborts, without flags, pointers, mutexes *)
(* or kernels.  Each side of a port has at most one standing request and a *)
(* number of surplus ones: a request stands until a call of its side has   *)
(* returned aborted, and it may go on to hit one more call, because the    *)
(* flag it raises and the I/O it cancels can belong to different calls.    *)
(* So n requests abort at most 2n calls, all of them on their own side,    *)
(* and while a request stands nothing else can happen on that side.        *)
(***************************************************************************)
EXTENDS Naturals

CONSTANTS Readers, Writers

VARIABLES
    standing,   \* the next call of this side to return must return aborted
    surplus,    \* how many more calls of this side may be aborted
    outcome     \* each call's result, "running" during one, "none" before the first

vars == <<standing, surplus, outcome>>

Operation == {"kRead", "kWrite"}
Callers == Readers \cup Writers
OpOf(c) == IF c \in Readers THEN "kRead" ELSE "kWrite"
IoOutcome == {"kCompleted", "kTimedOut", "kAborted", "kError"}

Init ==
    /\ standing = [op \in Operation |-> FALSE]
    /\ surplus = [op \in Operation |-> 0]
    /\ outcome = [c \in Callers |-> "none"]

Request(op) ==
    /\ standing' = [standing EXCEPT ![op] = TRUE]
    /\ surplus' = [surplus EXCEPT ![op] = @ + 1]
    /\ UNCHANGED outcome

\* A surplus request hits nobody: there was no call to cancel, or its I/O
\* completed all the same.
Lapse(op) ==
    /\ surplus[op] > 0
    /\ surplus' = [surplus EXCEPT ![op] = @ - 1]
    /\ UNCHANGED <<standing, outcome>>

Call(c) ==
    /\ ~standing[OpOf(c)]
    /\ outcome' = [outcome EXCEPT ![c] = "running"]
    /\ UNCHANGED <<standing, surplus>>

\* An aborted call settles a standing request, a surplus one, or both.
ReturnAborted(c) ==
    LET op == OpOf(c) IN
    /\ standing' = [standing EXCEPT ![op] = FALSE]
    /\ \/ standing[op] /\ UNCHANGED surplus
       \/ surplus[op] > 0 /\ surplus' = [surplus EXCEPT ![op] = @ - 1]
    /\ outcome' = [outcome EXCEPT ![c] = "kAborted"]

\* No call ends otherwise while a request stands, except one that cannot
\* even begin.
ReturnOther(c, result) ==
    /\ outcome' = [outcome EXCEPT ![c] = result]
    /\ standing[OpOf(c)] => result = "kError" /\ outcome[c] # "running"
    /\ UNCHANGED <<standing, surplus>>

Next ==
    \/ \E op \in Operation : Request(op) \/ Lapse(op)
    \/ \E c \in Callers : \/ Call(c)
                          \/ ReturnAborted(c)
                          \/ \E result \in IoOutcome \ {"kAborted"} : ReturnOther(c, result)

Spec == Init /\ [][Next]_vars

=============================================================================
