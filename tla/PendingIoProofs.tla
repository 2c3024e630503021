-------------------------- MODULE PendingIoProofs --------------------------
(***************************************************************************)
(* Proofs about PendingIo, for any number of readers, writers and          *)
(* aborting threads.                                                       *)
(***************************************************************************)
EXTENDS PendingIo, TLAPS

\* Every caller works on one of the two sides.
LEMMA OpOfType == \A c \in Callers : OpOf(c) \in Operation
BY DEF OpOf, Operation

\* nullptr is no caller.
LEMMA NullIsNoCaller == NullPtr \notin Callers
BY CallersAssumption DEF Callers

-----------------------------------------------------------------------------
(* Type correctness needs to know that an I/O issued and ended in one call *)
(* of ReadFile or WriteFile has a result to translate.                     *)

EndedAtOnce == \A c \in Callers : pc[c] = "finish" => io[c] \in {"completed", "failed"}

TypeInv == TypeOK /\ EndedAtOnce

\* The effect of the kernel's CancelIoEx on the type of the I/O states.
LEMMA CancelIoExType ==
    ASSUME TypeInv, NEW c, CancelIoEx(c)
    PROVE  /\ io' \in [Callers -> IoOwned \cup IoFinal \cup {"none"}]
           /\ \A d \in Callers : /\ io[d] \in IoFinal => io'[d] = io[d]
                                 /\ d # c => io'[d] = io[d]
                                 /\ io'[d] \in IoOwned => io[d] \in IoOwned
                                 /\ io'[d] = "inflight" => io[d] = "inflight"
                                 /\ c \in Callers => io'[c] # "inflight"
BY DEF TypeInv, TypeOK, CancelIoEx, IoOwned, IoFinal

\* What every return from a chunk leaves behind.
LEMMA ReturnType ==
    ASSUME TypeInv, NEW c \in Callers, NEW result \in IoOutcome, Return(c, result)
    PROVE  /\ pc' \in [Callers -> CallerPc]
           /\ outcome' \in [Callers -> IoOutcome \cup {"none", "running"}]
           /\ io' \in [Callers -> IoOwned \cup IoFinal \cup {"none"}]
           /\ pc'[c] = "idle" /\ outcome'[c] = result
           /\ io'[c] \in IoOwned => io[c] \in IoOwned /\ io'[c] = io[c]
           /\ \A d \in Callers \ {c} : pc'[d] = pc[d] /\ io'[d] = io[d] /\ outcome'[d] = outcome[d]
BY DEF TypeInv, TypeOK, Return, IoOwned, IoFinal, CallerPc, IoOutcome

\* finishPendingIo keeps the types, whichever path of the chunk calls it.
LEMMA FinishType ==
    ASSUME TypeInv, NEW c \in Callers, NEW result \in IoOutcome, FinishPendingIo(c, result)
    PROVE  TypeInv'
<1>1. \E actual \in IoOutcome : Return(c, actual) /\ UNCHANGED aborting
  BY DEF FinishPendingIo, IoOutcome
<1>2. abortFlag' \in [Operation -> BOOLEAN]
  BY OpOfType DEF FinishPendingIo, TypeInv, TypeOK
<1>3. pending' \in [Operation -> Callers \cup {NullPtr}]
  BY OpOfType DEF FinishPendingIo, TypeInv, TypeOK
<1>4. EndedAtOnce'
  BY <1>1, ReturnType DEF EndedAtOnce, TypeInv
<1> QED
  BY <1>1, <1>2, <1>3, <1>4, ReturnType DEF TypeInv, TypeOK

LEMMA TypeInit == Init => TypeInv
BY NullIsNoCaller DEF Init, TypeInv, TypeOK, EndedAtOnce, Operation, IoOutcome, CallerPc

LEMMA TypeStep == TypeInv /\ [Next]_vars => TypeInv'
<1> SUFFICES ASSUME TypeInv, [Next]_vars PROVE TypeInv'
  OBVIOUS
<1>1. ASSUME NEW c \in Callers, CreateEventFails(c) PROVE TypeInv'
  <2>1. Return(c, "kError") /\ UNCHANGED <<abortFlag, pending, aborting>>
    BY <1>1 DEF CreateEventFails
  <2> QED
    BY <2>1, ReturnType DEF TypeInv, TypeOK, EndedAtOnce, IoOutcome
<1>2. ASSUME NEW c \in Callers, StartAborted(c) PROVE TypeInv'
  <2>1. Return(c, "kAborted") /\ UNCHANGED <<pending, aborting>>
    BY <1>2 DEF StartAborted
  <2>2. abortFlag' \in [Operation -> BOOLEAN]
    BY <1>2, OpOfType DEF StartAborted, TypeInv, TypeOK
  <2> QED
    BY <2>1, <2>2, ReturnType DEF TypeInv, TypeOK, EndedAtOnce, IoOutcome
<1>3. ASSUME NEW c \in Callers, NEW result \in {"inflight", "completed", "failed"},
             StartPendingIo(c, result)
      PROVE TypeInv'
  BY <1>3, OpOfType
  DEF StartPendingIo, TypeInv, TypeOK, EndedAtOnce, IoOwned, IoFinal, CallerPc
<1>4. ASSUME NEW c \in Callers, Finish(c) PROVE TypeInv'
  <2>1. \A s \in IoFinal : ResultOf[s] \in IoOutcome
    BY DEF ResultOf, IoFinal, IoOutcome
  <2>2. CASE FinishAtOnce(c)
    BY <2>1, <2>2, FinishType DEF FinishAtOnce, TypeInv, EndedAtOnce, IoFinal
  <2>3. CASE FinishSignalled(c)
    BY <2>1, <2>3, FinishType DEF FinishSignalled
  <2>4. CASE FinishDrained(c)
    BY <2>4, FinishType DEF FinishDrained, IoOutcome
  <2> QED
    BY <1>4, <2>2, <2>3, <2>4 DEF Finish
<1>5. ASSUME NEW c \in Callers, WaitTimesOut(c) \/ WaitFails(c) PROVE TypeInv'
  BY <1>5 DEF WaitTimesOut, WaitFails, TypeInv, TypeOK, EndedAtOnce, CallerPc
<1>6. ASSUME NEW c \in Callers, CancelOwnIo(c) PROVE TypeInv'
  <2>1. CancelIoEx(c) /\ UNCHANGED <<abortFlag, pending, outcome, aborting>>
    BY <1>6 DEF CancelOwnIo
  <2>2. /\ pc' \in [Callers -> CallerPc]
        /\ \A d \in Callers : pc'[d] = "finish" => pc[d] = "finish"
    BY <1>6 DEF CancelOwnIo, TypeInv, TypeOK, CallerPc
  <2> QED
    BY <2>1, <2>2, CancelIoExType DEF TypeInv, TypeOK, EndedAtOnce, IoFinal
<1>7. ASSUME NEW c \in Callers, NEW result \in IoFinal, IoEnds(c, result) PROVE TypeInv'
  BY <1>7 DEF IoEnds, TypeInv, TypeOK, EndedAtOnce, IoOwned
<1>8. ASSUME NEW a \in Aborters, NEW op \in Operation, RequestAbort(a, op) PROVE TypeInv'
  BY <1>8 DEF RequestAbort, TypeInv, TypeOK, EndedAtOnce
<1>9. ASSUME NEW a \in Aborters, CancelPending(a) PROVE TypeInv'
  <2>1. aborting' \in [Aborters -> Operation \cup {"none"}]
    BY <1>9 DEF CancelPending, TypeInv, TypeOK
  <2>2. UNCHANGED <<abortFlag, pending, pc, outcome>>
    BY <1>9 DEF CancelPending
  <2>3. CASE UNCHANGED io
    BY <2>1, <2>2, <2>3 DEF TypeInv, TypeOK, EndedAtOnce
  <2>4. CASE CancelIoEx(pending[aborting[a]])
    BY <2>1, <2>2, <2>4, CancelIoExType DEF TypeInv, TypeOK, EndedAtOnce, IoFinal
  <2> QED
    BY <1>9, <2>3, <2>4 DEF CancelPending
<1>10. CASE UNCHANGED vars
  BY <1>10 DEF vars, TypeInv, TypeOK, EndedAtOnce
<1> QED
  BY <1>1, <1>2, <1>3, <1>4, <1>5, <1>6, <1>7, <1>8, <1>9, <1>10 DEF Next, Start

\* Every variable keeps its type, in every reachable state.
THEOREM TypeCorrect == Spec => []TypeOK
<1>1. TypeInv => TypeOK
  BY DEF TypeInv
<1> QED
  BY <1>1, TypeInit, TypeStep, PTL DEF Spec

-----------------------------------------------------------------------------
(* The safety invariants.  Taken together with the types they are          *)
(* inductive once the I/O of a call about to return is known to be over    *)
(* and an idle caller is known to hold no registration.                    *)

SafetyInv ==
    /\ TypeInv
    /\ PendingIsLive
    /\ NoIoOutlivesFrame
    /\ AbortNotLost
    /\ CallInReach

LEMMA SafetyInit == Init => SafetyInv
<1> SUFFICES ASSUME Init PROVE SafetyInv
  OBVIOUS
<1>1. TypeInv
  BY TypeInit
<1>2. PendingIsLive
  BY DEF Init, PendingIsLive
<1>3. NoIoOutlivesFrame /\ AbortNotLost /\ CallInReach
  BY OpOfType DEF Init, NoIoOutlivesFrame, AbortNotLost, CallInReach, Busy, IoOwned
<1> QED
  BY <1>1, <1>2, <1>3 DEF SafetyInv

\* A call that returns through finishPendingIo when the kernel is done with
\* its OVERLAPPED keeps every safety invariant.
LEMMA FinishSafe ==
    ASSUME SafetyInv, NEW c \in Callers, NEW result \in IoOutcome,
           io[c] \in IoFinal, FinishPendingIo(c, result)
    PROVE  PendingIsLive' /\ NoIoOutlivesFrame' /\ AbortNotLost' /\ CallInReach'
<1> DEFINE op == OpOf(c)
<1>1. PICK actual \in IoOutcome : Return(c, actual)
  BY DEF FinishPendingIo, IoOutcome
<1>2. /\ pc'[c] = "idle" /\ io'[c] \notin IoOwned
      /\ \A d \in Callers \ {c} : pc'[d] = pc[d] /\ io'[d] = io[d]
  BY <1>1, ReturnType DEF SafetyInv, IoOwned, IoFinal
<1>3. /\ pending' = [pending EXCEPT ![op] = IF @ = c THEN NullPtr ELSE @]
      /\ abortFlag' = [abortFlag EXCEPT ![op] = FALSE]
      /\ aborting' = aborting
  BY DEF FinishPendingIo
<1>4. pending \in [Operation -> Callers \cup {NullPtr}] /\ abortFlag \in [Operation -> BOOLEAN]
  BY DEF SafetyInv, TypeInv, TypeOK
<1>5. PendingIsLive'
  BY <1>2, <1>3, <1>4, OpOfType DEF SafetyInv, PendingIsLive, Busy
<1>6. NoIoOutlivesFrame'
  BY <1>2 DEF SafetyInv, NoIoOutlivesFrame, Busy
<1>7. AbortNotLost'
  BY <1>2, <1>3, <1>4, OpOfType, NullIsNoCaller DEF SafetyInv, AbortNotLost, IoOwned
<1>8. CallInReach'
  BY <1>2, <1>3, <1>4, OpOfType DEF SafetyInv, CallInReach, Alone, Busy
<1> QED
  BY <1>5, <1>6, <1>7, <1>8

LEMMA SafetyStep == SafetyInv /\ [Next]_vars => SafetyInv'
<1> SUFFICES ASSUME SafetyInv, [Next]_vars PROVE SafetyInv'
  OBVIOUS
<1> USE DEF SafetyInv
<1> DEFINE Others == PendingIsLive /\ NoIoOutlivesFrame /\ AbortNotLost /\ CallInReach
<1>1. TypeInv'
  BY TypeStep
<1>2. ASSUME NEW c \in Callers, CreateEventFails(c) \/ StartAborted(c) PROVE Others'
  <2>1. PICK result \in IoOutcome : Return(c, result)
    BY <1>2 DEF CreateEventFails, StartAborted, IoOutcome
  <2>2. /\ pc[c] = "idle" /\ pc'[c] = "idle" /\ io'[c] \notin IoOwned
        /\ \A d \in Callers \ {c} : pc'[d] = pc[d] /\ io'[d] = io[d]
    BY <1>2, <2>1, ReturnType DEF CreateEventFails, StartAborted, NoIoOutlivesFrame, Busy
  <2>3. /\ UNCHANGED <<pending, aborting>>
        /\ \A op \in Operation : abortFlag'[op] => abortFlag[op]
    BY <1>2, OpOfType DEF CreateEventFails, StartAborted, TypeInv, TypeOK
  <2>4. pc' = pc
    BY <2>1, <2>2 DEF Return, TypeInv, TypeOK
  <2>5. PendingIsLive' /\ NoIoOutlivesFrame' /\ CallInReach'
    BY <2>2, <2>3, <2>4 DEF PendingIsLive, NoIoOutlivesFrame, CallInReach, Alone, Busy
  <2>6. AbortNotLost'
    BY <2>2, <2>3, OpOfType DEF AbortNotLost, IoOwned
  <2> QED
    BY <2>5, <2>6
<1>3. ASSUME NEW c \in Callers, NEW result \in {"inflight", "completed", "failed"},
             StartPendingIo(c, result)
      PROVE Others'
  <2>1. /\ pending' = [pending EXCEPT ![OpOf(c)] = c]
        /\ pc'[c] \in {"wait", "finish"}
        /\ \A d \in Callers \ {c} : pc'[d] = pc[d] /\ io'[d] = io[d]
        /\ UNCHANGED <<abortFlag, aborting>>
        /\ ~abortFlag[OpOf(c)]
    BY <1>3 DEF StartPendingIo, TypeInv, TypeOK
  <2>2. PendingIsLive'
    BY <2>1, OpOfType, NullIsNoCaller DEF PendingIsLive, Busy, TypeInv, TypeOK
  <2>3. NoIoOutlivesFrame'
    BY <2>1 DEF NoIoOutlivesFrame, Busy
  <2>4. AbortNotLost'
    BY <2>1, OpOfType DEF AbortNotLost, TypeInv, TypeOK
  <2>5. CallInReach'
    BY <2>1, OpOfType DEF CallInReach, Alone, Busy, TypeInv, TypeOK
  <2> QED
    BY <2>2, <2>3, <2>4, <2>5
<1>4. ASSUME NEW c \in Callers, Finish(c) PROVE Others'
  <2>1. \A s \in IoFinal : ResultOf[s] \in IoOutcome
    BY DEF ResultOf, IoFinal, IoOutcome
  <2>2. CASE FinishAtOnce(c)
    BY <2>1, <2>2, FinishSafe DEF FinishAtOnce, TypeInv, EndedAtOnce, IoFinal
  <2>3. CASE FinishSignalled(c)
    BY <2>1, <2>3, FinishSafe DEF FinishSignalled
  <2>4. CASE FinishDrained(c)
    BY <2>4, FinishSafe DEF FinishDrained, IoOutcome
  <2> QED
    BY <1>4, <2>2, <2>3, <2>4 DEF Finish
<1>5. ASSUME NEW c \in Callers, WaitTimesOut(c) \/ WaitFails(c) \/ CancelOwnIo(c)
      PROVE Others'
  <2>1. /\ pc[c] # "idle" /\ pc'[c] # "idle"
        /\ \A d \in Callers \ {c} : pc'[d] = pc[d]
        /\ UNCHANGED <<abortFlag, pending, aborting>>
    BY <1>5 DEF WaitTimesOut, WaitFails, CancelOwnIo, TypeInv, TypeOK
  <2>2. io' = io \/ CancelIoEx(c)
    BY <1>5 DEF WaitTimesOut, WaitFails, CancelOwnIo
  <2>3. \A d \in Callers : /\ io'[d] \in IoOwned => io[d] \in IoOwned
                           /\ io'[d] = "inflight" => io[d] = "inflight"
    BY <2>2, CancelIoExType
  <2>4. \A d \in Callers : Busy(d)' <=> Busy(d)
    BY <2>1 DEF Busy
  <2>5. PendingIsLive'
    BY <2>1, <2>4 DEF PendingIsLive, TypeInv, TypeOK
  <2> QED
    BY <2>1, <2>3, <2>4, <2>5 DEF NoIoOutlivesFrame, AbortNotLost, CallInReach, Alone
<1>6. ASSUME NEW c \in Callers, NEW result \in IoFinal, IoEnds(c, result) PROVE Others'
  <2>1. /\ UNCHANGED <<abortFlag, pending, pc, aborting>>
        /\ \A d \in Callers : io'[d] = io[d] \/ io'[d] \in IoFinal
    BY <1>6 DEF IoEnds, TypeInv, TypeOK
  <2> QED
    BY <2>1 DEF PendingIsLive, NoIoOutlivesFrame, AbortNotLost, CallInReach, Alone, Busy,
                IoOwned, IoFinal
<1>7. ASSUME NEW a \in Aborters, NEW op \in Operation, RequestAbort(a, op) PROVE Others'
  <2>1. /\ UNCHANGED <<pending, pc, io>>
        /\ abortFlag' = [abortFlag EXCEPT ![op] = TRUE]
        /\ aborting' = [aborting EXCEPT ![a] = op]
        /\ aborting[a] = "none"
    BY <1>7 DEF RequestAbort
  <2>2. AbortNotLost'
    <3> SUFFICES ASSUME NEW d \in Callers,
                        pending[OpOf(d)] = d, io[d] = "inflight", abortFlag'[OpOf(d)]
                 PROVE  \E b \in Aborters : aborting'[b] = OpOf(d)
      BY <2>1 DEF AbortNotLost
    <3>1. CASE OpOf(d) = op
      BY <2>1, <3>1 DEF TypeInv, TypeOK
    <3>2. CASE OpOf(d) # op
      <4>1. PICK b \in Aborters : aborting[b] = OpOf(d)
        BY <2>1, <3>2, OpOfType DEF AbortNotLost, TypeInv, TypeOK
      <4>2. b # a
        BY <2>1, <4>1, OpOfType DEF Operation
      <4> QED
        BY <2>1, <4>1, <4>2 DEF TypeInv, TypeOK
    <3> QED
      BY <3>1, <3>2
  <2> QED
    BY <2>1, <2>2 DEF PendingIsLive, NoIoOutlivesFrame, CallInReach, Alone, Busy
<1>8. ASSUME NEW a \in Aborters, CancelPending(a) PROVE Others'
  <2> DEFINE op == aborting[a]
  <2>1. /\ UNCHANGED <<abortFlag, pending, pc, outcome>>
        /\ aborting' = [aborting EXCEPT ![a] = "none"]
        /\ op \in Operation
    BY <1>8 DEF CancelPending, TypeInv, TypeOK
  <2>2. \/ io' = io /\ pending[op] = NullPtr
        \/ CancelIoEx(pending[op]) /\ pending[op] \in Callers
    BY <1>8, <2>1 DEF CancelPending, TypeInv, TypeOK
  <2>3. \A d \in Callers : /\ io'[d] \in IoOwned => io[d] \in IoOwned
                           /\ io'[d] = "inflight" => io[d] = "inflight" /\ d # pending[op]
    BY <2>2, CancelIoExType, NullIsNoCaller
  <2>4. AbortNotLost'
    <3> SUFFICES ASSUME NEW d \in Callers,
                        pending[OpOf(d)] = d, io'[d] = "inflight", abortFlag[OpOf(d)]
                 PROVE  \E b \in Aborters : aborting'[b] = OpOf(d)
      BY <2>1 DEF AbortNotLost
    <3>1. OpOf(d) # op
      BY <2>3
    <3>2. PICK b \in Aborters : aborting[b] = OpOf(d)
      BY <2>3 DEF AbortNotLost
    <3> QED
      BY <2>1, <3>1, <3>2 DEF TypeInv, TypeOK
  <2> QED
    BY <2>1, <2>3, <2>4 DEF PendingIsLive, NoIoOutlivesFrame, CallInReach, Alone, Busy
<1>9. ASSUME UNCHANGED vars PROVE Others'
  BY <1>9 DEF vars, PendingIsLive, NoIoOutlivesFrame, AbortNotLost, CallInReach, Alone, Busy
<1>10. Others'
  BY <1>2, <1>3, <1>4, <1>5, <1>6, <1>7, <1>8, <1>9 DEF Next, Start
<1> QED
  BY <1>1, <1>10

LEMMA SafetyAlways == Spec => []SafetyInv
BY SafetyInit, SafetyStep, PTL DEF Spec

\* CancelIoEx is never called on the OVERLAPPED of a call that has returned.
THEOREM PendingAlwaysLive == Spec => []PendingIsLive
<1>1. SafetyInv => PendingIsLive
  BY DEF SafetyInv
<1> QED
  BY <1>1, SafetyAlways, PTL

\* The kernel never writes into the frame of a call that has returned.
THEOREM IoEndsWithinFrame == Spec => []NoIoOutlivesFrame
<1>1. SafetyInv => NoIoOutlivesFrame
  BY DEF SafetyInv
<1> QED
  BY <1>1, SafetyAlways, PTL

\* No abort is lost between the flag, the registration and the cancellation.
THEOREM AbortNeverLost == Spec => []AbortNotLost
<1>1. SafetyInv => AbortNotLost
  BY DEF SafetyInv
<1> QED
  BY <1>1, SafetyAlways, PTL

\* A call alone on its side can be reached by requestAbort while it lasts.
THEOREM CallAlwaysInReach == Spec => []CallInReach
<1>1. SafetyInv => CallInReach
  BY DEF SafetyInv
<1> QED
  BY <1>1, SafetyAlways, PTL

-----------------------------------------------------------------------------
(* Action properties.  Only finishPendingIo ends a call in progress.       *)

LEMMA FinishDecides ==
    ASSUME SafetyInv, NEW c \in Callers, NEW result \in IoOutcome, FinishPendingIo(c, result)
    PROVE  AbortDecidesStep /\ OnlyOwnerWithdrawsStep
<1>1. PICK actual \in IoOutcome :
        /\ Return(c, actual)
        /\ abortFlag[OpOf(c)] => actual = "kAborted"
  BY DEF FinishPendingIo, IoOutcome
<1>2. /\ pc'[c] = "idle" /\ outcome'[c] = actual
      /\ \A d \in Callers \ {c} : pc'[d] = pc[d]
  BY <1>1, ReturnType DEF SafetyInv
<1>3. AbortDecidesStep
  BY <1>1, <1>2 DEF AbortDecidesStep
<1>4. OnlyOwnerWithdrawsStep
  BY <1>2, OpOfType DEF OnlyOwnerWithdrawsStep, FinishPendingIo, SafetyInv, TypeInv, TypeOK
<1> QED
  BY <1>3, <1>4

LEMMA ActionProperties ==
    SafetyInv /\ [Next]_vars => AbortDecidesStep /\ OnlyOwnerWithdrawsStep
<1> SUFFICES ASSUME SafetyInv, [Next]_vars PROVE AbortDecidesStep /\ OnlyOwnerWithdrawsStep
  OBVIOUS
<1>1. ASSUME NEW c \in Callers, Finish(c) PROVE AbortDecidesStep /\ OnlyOwnerWithdrawsStep
  <2>1. \A s \in IoFinal : ResultOf[s] \in IoOutcome
    BY DEF ResultOf, IoFinal, IoOutcome
  <2>2. CASE FinishAtOnce(c)
    BY <2>1, <2>2, FinishDecides DEF FinishAtOnce, SafetyInv, TypeInv, EndedAtOnce, IoFinal
  <2>3. CASE FinishSignalled(c)
    BY <2>1, <2>3, FinishDecides DEF FinishSignalled
  <2>4. CASE FinishDrained(c)
    BY <2>4, FinishDecides DEF FinishDrained, IoOutcome
  <2> QED
    BY <1>1, <2>2, <2>3, <2>4 DEF Finish
<1>2. ASSUME NEW c \in Callers, Start(c) PROVE AbortDecidesStep /\ OnlyOwnerWithdrawsStep
  <2>1. \A d \in Callers : pc[d] # "idle" => pc'[d] = pc[d]
    BY <1>2 DEF Start, CreateEventFails, StartAborted, StartPendingIo, Return,
                SafetyInv, TypeInv, TypeOK
  <2>2. \A op \in Operation : pending'[op] \in {pending[op], c}
    BY <1>2, OpOfType DEF Start, CreateEventFails, StartAborted, StartPendingIo,
                          SafetyInv, TypeInv, TypeOK
  <2> QED
    BY <2>1, <2>2, NullIsNoCaller DEF AbortDecidesStep, OnlyOwnerWithdrawsStep
<1>3. CASE UNCHANGED pending /\ \A c \in Callers : pc[c] # "idle" => pc'[c] # "idle"
  BY <1>3 DEF AbortDecidesStep, OnlyOwnerWithdrawsStep
<1>4. ASSUME NEW c \in Callers, WaitTimesOut(c) \/ WaitFails(c) \/ CancelOwnIo(c)
      PROVE  UNCHANGED pending /\ \A d \in Callers : pc[d] # "idle" => pc'[d] # "idle"
  BY <1>4 DEF WaitTimesOut, WaitFails, CancelOwnIo, SafetyInv, TypeInv, TypeOK
<1>5. ASSUME \/ \E c \in Callers, result \in IoFinal : IoEnds(c, result)
             \/ \E a \in Aborters, op \in Operation : RequestAbort(a, op)
             \/ \E a \in Aborters : CancelPending(a)
             \/ UNCHANGED vars
      PROVE  UNCHANGED pending /\ \A d \in Callers : pc[d] # "idle" => pc'[d] # "idle"
  BY <1>5 DEF IoEnds, RequestAbort, CancelPending, vars
<1> QED
  BY <1>1, <1>2, <1>3, <1>4, <1>5 DEF Next

\* A call during which an abort was requested returns kAborted.
THEOREM AbortAlwaysDecides == Spec => AbortDecidesResult
BY SafetyAlways, ActionProperties, PTL DEF Spec, AbortDecidesResult

\* A call that returns leaves the registration of a concurrent call alone.
THEOREM OnlyOwnerEverWithdraws == Spec => OnlyOwnerWithdraws
BY SafetyAlways, ActionProperties, PTL DEF Spec, OnlyOwnerWithdraws

=============================================================================
