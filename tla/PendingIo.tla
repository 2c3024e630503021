----------------------------- MODULE PendingIo -----------------------------
(***************************************************************************)
(* The cancellable I/O of one open port: the part of HandleState that      *)
(* pending_io_mutex guards, the callers of readChunk and writeChunk, the   *)
(* threads inside requestAbort, and the kernel that owns the I/O between   *)
(* ReadFile/WriteFile and its completion.                                  *)
(*                                                                         *)
(* An OVERLAPPED lives on the stack of the call that issues it, so a       *)
(* pointer to it is the caller itself, and nullptr is NullPtr.  A critical *)
(* section of pending_io_mutex is one step: the only access to the shared  *)
(* state outside the mutex is the store that begins requestAbort, which    *)
(* commutes with whatever it may fall into the middle of, being an atomic  *)
(* store met by an atomic exchange.                                        *)
(***************************************************************************)
EXTENDS Naturals, FiniteSets

CONSTANTS
    Readers,    \* threads that call serialRead and its variants
    Writers,    \* threads that call serialWrite
    Aborters,   \* threads that call serialAbortRead or serialAbortWrite
    NullPtr     \* no pending operation

ASSUME CallersAssumption ==
    /\ Readers \cap Writers = {}
    /\ NullPtr \notin Readers \cup Writers
    /\ IsFiniteSet(Readers) /\ IsFiniteSet(Writers) /\ IsFiniteSet(Aborters)

VARIABLES
    abortFlag,  \* abort_read and abort_write
    pending,    \* pending_read and pending_write
    pc,         \* where each caller is inside readChunk or writeChunk
    io,         \* what the kernel has done with each caller's OVERLAPPED
    outcome,    \* the IoOutcome of each caller's latest chunk, "running" during one
    aborting    \* the operation whose flag an aborter has set, "none" outside

vars == <<abortFlag, pending, pc, io, outcome, aborting>>

Operation == {"kRead", "kWrite"}

Callers == Readers \cup Writers

\* Which side of the port a caller works on.
OpOf(c) == IF c \in Readers THEN "kRead" ELSE "kWrite"

IoOutcome == {"kCompleted", "kTimedOut", "kAborted", "kError"}

\* "idle"     outside the chunk
\* "finish"   ReadFile or WriteFile ended at once, finishPendingIo is next
\* "wait"     in WaitForSingleObject
\* "timedOut", "waitFailed"    the wait is over, CancelIoEx is next
\* "timedOutDrain", "waitFailedDrain"   in GetOverlappedResult(..., TRUE)
CallerPc == {"idle", "finish", "wait", "timedOut", "waitFailed",
             "timedOutDrain", "waitFailedDrain"}

\* The kernel owns the OVERLAPPED in the first two states.
IoOwned == {"inflight", "cancelling"}
IoFinal == {"completed", "cancelled", "failed"}

\* A call in progress: its stack frame, OVERLAPPED and event exist.
Busy(c) == pc[c] # "idle"

TypeOK ==
    /\ abortFlag \in [Operation -> BOOLEAN]
    /\ pending \in [Operation -> Callers \cup {NullPtr}]
    /\ pc \in [Callers -> CallerPc]
    /\ io \in [Callers -> IoOwned \cup IoFinal \cup {"none"}]
    /\ outcome \in [Callers -> IoOutcome \cup {"none", "running"}]
    /\ aborting \in [Aborters -> Operation \cup {"none"}]

Init ==
    /\ abortFlag = [op \in Operation |-> FALSE]
    /\ pending = [op \in Operation |-> NullPtr]
    /\ pc = [c \in Callers |-> "idle"]
    /\ io = [c \in Callers |-> "none"]
    /\ outcome = [c \in Callers |-> "none"]
    /\ aborting = [a \in Aborters |-> "none"]

-----------------------------------------------------------------------------
(* The kernel.  CancelIoEx only marks an I/O it still owns; a marked I/O   *)
(* may nevertheless complete or fail, because the request races with it.   *)

CancelIoEx(c) == io' = [io EXCEPT ![c] = IF @ = "inflight" THEN "cancelling" ELSE @]

IoEnds(c, result) ==
    /\ io[c] \in IoOwned
    /\ result = "cancelled" => io[c] = "cancelling"
    /\ io' = [io EXCEPT ![c] = result]
    /\ UNCHANGED <<abortFlag, pending, pc, outcome, aborting>>

-----------------------------------------------------------------------------
(* readChunk and writeChunk.                                               *)

\* The frame goes, and with it an OVERLAPPED the kernel is done with.
Return(c, result) ==
    /\ pc' = [pc EXCEPT ![c] = "idle"]
    /\ outcome' = [outcome EXCEPT ![c] = result]
    /\ io' = [io EXCEPT ![c] = IF @ \in IoFinal THEN "none" ELSE @]

\* CreateEventW fails before anything is shared.
CreateEventFails(c) ==
    /\ pc[c] = "idle"
    /\ Return(c, "kError")
    /\ UNCHANGED <<abortFlag, pending, aborting>>

\* An abort that is already requested is consumed and no I/O is issued.
StartAborted(c) ==
    /\ pc[c] = "idle"
    /\ abortFlag[OpOf(c)]
    /\ abortFlag' = [abortFlag EXCEPT ![OpOf(c)] = FALSE]
    /\ Return(c, "kAborted")
    /\ UNCHANGED <<pending, aborting>>

\* Mutant: the start ignores a request that came before it.
StartPendingIoIgnoringAbort(c, result) ==
    /\ pc[c] = "idle"
    /\ pending' = [pending EXCEPT ![OpOf(c)] = c]
    /\ io' = [io EXCEPT ![c] = result]
    /\ pc' = [pc EXCEPT ![c] = IF result = "inflight" THEN "wait" ELSE "finish"]
    /\ outcome' = [outcome EXCEPT ![c] = "running"]
    /\ UNCHANGED <<abortFlag, aborting>>

\* Registration and ReadFile/WriteFile happen under the mutex; the I/O is
\* pending, or completes or fails at once.
StartPendingIo(c, result) ==
    /\ pc[c] = "idle"
    /\ ~abortFlag[OpOf(c)]
    /\ pending' = [pending EXCEPT ![OpOf(c)] = c]
    /\ io' = [io EXCEPT ![c] = result]
    /\ pc' = [pc EXCEPT ![c] = IF result = "inflight" THEN "wait" ELSE "finish"]
    /\ outcome' = [outcome EXCEPT ![c] = "running"]
    /\ UNCHANGED <<abortFlag, aborting>>

\* Mutant: the registration is cleared whoever holds it.
FinishClearsAnyone(c, result) ==
    /\ pending' = [pending EXCEPT ![OpOf(c)] = NullPtr]
    /\ abortFlag' = [abortFlag EXCEPT ![OpOf(c)] = FALSE]
    /\ Return(c, IF abortFlag[OpOf(c)] THEN "kAborted" ELSE result)
    /\ UNCHANGED aborting

\* Mutant: the registration outlives the frame it points into.
FinishKeepsRegistration(c, result) ==
    /\ abortFlag' = [abortFlag EXCEPT ![OpOf(c)] = FALSE]
    /\ Return(c, IF abortFlag[OpOf(c)] THEN "kAborted" ELSE result)
    /\ UNCHANGED <<pending, aborting>>

\* Mutant: an abort that arrived during the call is left for the next one.
FinishIgnoresAbort(c, result) ==
    /\ pending' = [pending EXCEPT ![OpOf(c)] = IF @ = c THEN NullPtr ELSE @]
    /\ Return(c, result)
    /\ UNCHANGED <<abortFlag, aborting>>

\* The caller withdraws its own registration and consumes the flag: an abort
\* requested at any time during the call overrides the result of the I/O.
FinishPendingIo(c, result) ==
    /\ pending' = [pending EXCEPT ![OpOf(c)] = IF @ = c THEN NullPtr ELSE @]
    /\ abortFlag' = [abortFlag EXCEPT ![OpOf(c)] = FALSE]
    /\ Return(c, IF abortFlag[OpOf(c)] THEN "kAborted" ELSE result)
    /\ UNCHANGED aborting

\* Mutant: the kernel's verdict is passed on without translation.
ResultOfUntranslated == [completed |-> "completed", cancelled |-> "cancelled",
                         failed |-> "failed"]

\* What the chunk makes of an I/O that has ended.
ResultOf == [completed |-> "kCompleted", cancelled |-> "kAborted", failed |-> "kError"]

\* ReadFile or WriteFile returned TRUE, or failed with another error than
\* ERROR_IO_PENDING.
FinishAtOnce(c) ==
    /\ pc[c] = "finish"
    /\ FinishPendingIo(c, ResultOf[io[c]])

\* WaitForSingleObject gives WAIT_OBJECT_0 only once the event is signalled.
FinishSignalled(c) ==
    /\ pc[c] = "wait"
    /\ io[c] \in IoFinal
    /\ FinishPendingIo(c, ResultOf[io[c]])

\* WAIT_TIMEOUT: the event was not signalled in time.
WaitTimesOut(c) ==
    /\ pc[c] = "wait"
    /\ io[c] \in IoOwned
    /\ pc' = [pc EXCEPT ![c] = "timedOut"]
    /\ UNCHANGED <<abortFlag, pending, io, outcome, aborting>>

\* WAIT_FAILED, whatever the I/O is doing.
WaitFails(c) ==
    /\ pc[c] = "wait"
    /\ pc' = [pc EXCEPT ![c] = "waitFailed"]
    /\ UNCHANGED <<abortFlag, pending, io, outcome, aborting>>

\* The caller cancels its own I/O; it may have completed since the wait.
CancelOwnIo(c) ==
    /\ pc[c] \in {"timedOut", "waitFailed"}
    /\ CancelIoEx(c)
    /\ pc' = [pc EXCEPT ![c] = IF pc[c] = "timedOut" THEN "timedOutDrain"
                               ELSE "waitFailedDrain"]
    /\ UNCHANGED <<abortFlag, pending, outcome, aborting>>

\* Mutant: the caller does not wait for the cancelled I/O to end.
FinishUndrained(c) ==
    /\ pc[c] \in {"timedOutDrain", "waitFailedDrain"}
    /\ FinishPendingIo(c, IF pc[c] = "timedOutDrain" THEN "kTimedOut" ELSE "kError")

\* GetOverlappedResult(..., TRUE) returns when the kernel is done with the
\* OVERLAPPED; the number of bytes it reports is ignored.
FinishDrained(c) ==
    /\ pc[c] \in {"timedOutDrain", "waitFailedDrain"}
    /\ io[c] \in IoFinal
    /\ FinishPendingIo(c, IF pc[c] = "timedOutDrain" THEN "kTimedOut" ELSE "kError")

-----------------------------------------------------------------------------
(* requestAbort: the flag is stored before the mutex is taken.             *)

\* Mutant: the request raises the flag of both sides.
RequestAbortBothSides(a, op) ==
    /\ aborting[a] = "none"
    /\ abortFlag' = [o \in Operation |-> TRUE]
    /\ aborting' = [aborting EXCEPT ![a] = op]
    /\ UNCHANGED <<pending, pc, io, outcome>>

RequestAbort(a, op) ==
    /\ aborting[a] = "none"
    /\ abortFlag' = [abortFlag EXCEPT ![op] = TRUE]
    /\ aborting' = [aborting EXCEPT ![a] = op]
    /\ UNCHANGED <<pending, pc, io, outcome>>

\* Mutant: the request relies on the flag alone.
RequestAbortWithoutCancel(a) ==
    /\ aborting[a] # "none"
    /\ aborting' = [aborting EXCEPT ![a] = "none"]
    /\ UNCHANGED <<abortFlag, pending, pc, io, outcome>>

\* Mutant: the request takes the registration away from the call.
CancelPendingAndForget(a) ==
    /\ aborting[a] # "none"
    /\ IF pending[aborting[a]] = NullPtr THEN UNCHANGED io
       ELSE CancelIoEx(pending[aborting[a]])
    /\ pending' = [pending EXCEPT ![aborting[a]] = NullPtr]
    /\ aborting' = [aborting EXCEPT ![a] = "none"]
    /\ UNCHANGED <<abortFlag, pc, outcome>>

\* Under the mutex: the registered I/O of that side is cancelled.
CancelPending(a) ==
    /\ aborting[a] # "none"
    /\ IF pending[aborting[a]] = NullPtr THEN UNCHANGED io
       ELSE CancelIoEx(pending[aborting[a]])
    /\ aborting' = [aborting EXCEPT ![a] = "none"]
    /\ UNCHANGED <<abortFlag, pending, pc, outcome>>

-----------------------------------------------------------------------------
Start(c) ==
    \/ CreateEventFails(c)
    \/ StartAborted(c)
    \/ \E result \in {"inflight", "completed", "failed"} : StartPendingIo(c, result)

Finish(c) == FinishAtOnce(c) \/ FinishSignalled(c) \/ FinishDrained(c)

Next ==
    \/ \E c \in Callers :
        \/ Start(c) \/ Finish(c)
        \/ WaitTimesOut(c) \/ WaitFails(c) \/ CancelOwnIo(c)
        \/ \E result \in IoFinal : IoEnds(c, result)
    \/ \E a \in Aborters :
        \/ \E op \in Operation : RequestAbort(a, op)
        \/ CancelPending(a)

Spec == Init /\ [][Next]_vars

\* The kernel ends an I/O that it was asked to cancel.
CancelledIoEnds(c) == io[c] = "cancelling" /\ \E result \in IoFinal : IoEnds(c, result)

\* Threads keep running, the mutex is granted, and a cancelled I/O ends.
\* Nothing makes data arrive, a timeout elapse or an abort come.
Fairness ==
    /\ \A c \in Callers : /\ WF_vars(Finish(c) \/ CancelOwnIo(c))
                          /\ WF_vars(CancelledIoEnds(c))
    /\ \A a \in Aborters : WF_vars(CancelPending(a))

FairSpec == Spec /\ Fairness

-----------------------------------------------------------------------------
(* Safety.                                                                 *)

\* A registered pointer leads to a live OVERLAPPED of its own side, so the
\* CancelIoEx of requestAbort never touches a frame that has returned.
PendingIsLive ==
    \A op \in Operation :
        pending[op] # NullPtr => Busy(pending[op]) /\ OpOf(pending[op]) = op

\* The kernel never owns the OVERLAPPED, event or buffer of a call that has
\* returned, on any of the timeout and error paths.
NoIoOutlivesFrame == \A c \in Callers : ~Busy(c) => io[c] \notin IoOwned

\* The lost wake-up that the flag and the mutex exclude: when the flag of a
\* side is up while its registered I/O runs uncancelled, some requestAbort is
\* still on its way to cancel it.
AbortNotLost ==
    \A c \in Callers :
        pending[OpOf(c)] = c /\ io[c] = "inflight" /\ abortFlag[OpOf(c)]
            => \E a \in Aborters : aborting[a] = OpOf(c)

\* The only caller on its side: the use the two pending pointers are made for.
Alone(c) == \A d \in Callers : OpOf(d) = OpOf(c) => d = c

\* A call with its side to itself is within reach of requestAbort from the
\* start of its I/O until the call itself withdraws it.
CallInReach == \A c \in Callers : Alone(c) /\ Busy(c) => pending[OpOf(c)] = c

AbortDecidesStep ==
    \A c \in Callers :
        pc[c] # "idle" /\ pc'[c] = "idle" /\ abortFlag[OpOf(c)] => outcome'[c] = "kAborted"

\* An abort requested during a call decides its result on every path out of
\* it: completion, failure, timeout and failed wait.
AbortDecidesResult == [][AbortDecidesStep]_vars

OnlyOwnerWithdrawsStep ==
    \A op \in Operation :
        pending[op] # NullPtr /\ pending'[op] = NullPtr => pc'[pending[op]] = "idle"

\* A registration ends only with its own call, or when another call of the
\* same side registers over it: a call that returns does not unregister a
\* concurrent one.
OnlyOwnerWithdraws == [][OnlyOwnerWithdrawsStep]_vars

-----------------------------------------------------------------------------
(* What a port promises about aborts: module AbortContract.  A request is  *)
(* surplus until it has been through the mutex, and then for as long as    *)
(* the I/O it cancelled can still abort the call that waits for it.        *)

Requesting(op) == {a \in Aborters : aborting[a] = op}

CancelledWait(c) == pc[c] = "wait" /\ io[c] \in {"cancelling", "cancelled"}

CancelledWaits(op) == {c \in Callers : OpOf(c) = op /\ CancelledWait(c)}

Surplus ==
    [op \in Operation |-> Cardinality(Requesting(op)) + Cardinality(CancelledWaits(op))]

Contract == INSTANCE AbortContract WITH standing <- abortFlag, surplus <- Surplus

\* The port implements the contract: what requestAbort, startPendingIo and
\* finishPendingIo do together keeps n requests from aborting more than 2n
\* calls or a call of the other side, and lets nothing pass a standing one.
ImplementsContract == Contract!Spec

-----------------------------------------------------------------------------
(* Liveness, for one caller per side.                                      *)

\* A call that is in progress when an abort is requested returns kAborted,
\* even if nothing is ever received or sent again and no timeout elapses.
AbortEndsCall ==
    \A c \in Callers :
        Busy(c) /\ abortFlag[OpOf(c)] ~> ~Busy(c) /\ outcome[c] = "kAborted"

=============================================================================
