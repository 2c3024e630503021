------------------------ MODULE PendingIoRefinement ------------------------
(***************************************************************************)
(* Proof that PendingIo implements AbortContract, for any number of        *)
(* readers, writers and aborting threads.  Each step of PendingIo changes  *)
(* the set of requests on their way to the mutex and the set of cancelled  *)
(* waits by at most one element, which makes it a step of the contract or  *)
(* leaves the surplus as it is.                                            *)
(***************************************************************************)
EXTENDS PendingIoProofs, FiniteSetTheorems

\* A call has the outcome "running" only while it is in progress.
RunningIsBusy == \A c \in Callers : outcome[c] = "running" => pc[c] # "idle"

ContractInv == SafetyInv /\ RunningIsBusy

LEMMA ContractInvInit == Init => ContractInv
<1> SUFFICES ASSUME Init PROVE ContractInv
  OBVIOUS
<1>1. RunningIsBusy
  BY DEF Init, RunningIsBusy
<1> QED
  BY <1>1, SafetyInit DEF ContractInv, SafetyInv

\* A return ends the running state with a proper result.
LEMMA ReturnRuns ==
    ASSUME ContractInv, NEW c \in Callers, NEW result \in IoOutcome, Return(c, result)
    PROVE  RunningIsBusy'
<1>1. result # "running"
  BY DEF IoOutcome
<1> QED
  BY <1>1, ReturnType DEF ContractInv, SafetyInv, RunningIsBusy

LEMMA ContractInvStep == ContractInv /\ [Next]_vars => ContractInv'
<1> SUFFICES ASSUME ContractInv, [Next]_vars PROVE ContractInv'
  OBVIOUS
<1>1. SafetyInv'
  BY SafetyStep DEF ContractInv, SafetyInv
<1>2. ASSUME NEW c \in Callers, CreateEventFails(c) \/ StartAborted(c) PROVE RunningIsBusy'
  BY <1>2, ReturnRuns DEF CreateEventFails, StartAborted, IoOutcome
<1>3. ASSUME NEW c \in Callers, NEW result \in {"inflight", "completed", "failed"},
             StartPendingIo(c, result)
      PROVE RunningIsBusy'
  BY <1>3 DEF StartPendingIo, ContractInv, SafetyInv, RunningIsBusy, TypeInv, TypeOK
<1>4. ASSUME NEW c \in Callers, NEW result \in IoOutcome, FinishPendingIo(c, result)
      PROVE RunningIsBusy'
  BY <1>4, ReturnRuns DEF FinishPendingIo, IoOutcome
<1>5. ASSUME NEW c \in Callers, Finish(c) PROVE RunningIsBusy'
  <2>1. \A s \in IoFinal : ResultOf[s] \in IoOutcome
    BY DEF ResultOf, IoFinal, IoOutcome
  <2> QED
    BY <1>4, <1>5, <2>1
    DEF Finish, FinishAtOnce, FinishSignalled, FinishDrained, IoOutcome,
        ContractInv, SafetyInv, TypeInv, EndedAtOnce, IoFinal
<1>6. ASSUME NEW c \in Callers, WaitTimesOut(c) \/ WaitFails(c) \/ CancelOwnIo(c)
      PROVE RunningIsBusy'
  BY <1>6 DEF WaitTimesOut, WaitFails, CancelOwnIo, ContractInv, SafetyInv, RunningIsBusy, TypeInv,
          TypeOK
<1>7. ASSUME \/ \E c \in Callers, result \in IoFinal : IoEnds(c, result)
             \/ \E a \in Aborters, op \in Operation : RequestAbort(a, op)
             \/ \E a \in Aborters : CancelPending(a)
             \/ UNCHANGED vars
      PROVE RunningIsBusy'
  BY <1>7 DEF IoEnds, RequestAbort, CancelPending, vars, ContractInv, SafetyInv, RunningIsBusy
<1> QED
  BY <1>1, <1>2, <1>3, <1>5, <1>6, <1>7 DEF Next, Start, ContractInv, SafetyInv

-----------------------------------------------------------------------------
(* Counting.                                                               *)

\* Both sets are finite, so the surplus is a number.
LEMMA SurplusIsNat ==
    \A op \in Operation :
        /\ IsFiniteSet(Requesting(op)) /\ IsFiniteSet(CancelledWaits(op))
        /\ Cardinality(Requesting(op)) \in Nat /\ Cardinality(CancelledWaits(op)) \in Nat
<1> TAKE op \in Operation
<1>1. IsFiniteSet(Callers)
  BY CallersAssumption, FS_Union DEF Callers
<1>2. Requesting(op) \in SUBSET Aborters /\ CancelledWaits(op) \in SUBSET Callers
  BY DEF Requesting, CancelledWaits
<1>3. IsFiniteSet(Requesting(op)) /\ IsFiniteSet(CancelledWaits(op))
  BY <1>1, <1>2, CallersAssumption, FS_Subset
<1> QED
  BY <1>3, FS_CardinalityType

\* A step that changes neither set leaves the surplus alone.
LEMMA SurplusSame ==
    ASSUME \A o \in Operation : /\ Requesting(o)' = Requesting(o)
                                /\ CancelledWaits(o)' = CancelledWaits(o)
    PROVE  Surplus' = Surplus
BY DEF Surplus

\* A step that removes one element from one of the sets of one side takes one
\* from its surplus.
LEMMA SurplusLess ==
    ASSUME NEW op \in Operation, NEW x,
           \/ /\ x \in Requesting(op) /\ Requesting(op)' = Requesting(op) \ {x}
              /\ CancelledWaits(op)' = CancelledWaits(op)
           \/ /\ x \in CancelledWaits(op) /\ CancelledWaits(op)' = CancelledWaits(op) \ {x}
              /\ Requesting(op)' = Requesting(op),
           \A o \in Operation \ {op} : /\ Requesting(o)' = Requesting(o)
                                       /\ CancelledWaits(o)' = CancelledWaits(o)
    PROVE  Surplus[op] > 0 /\ Surplus' = [Surplus EXCEPT ![op] = @ - 1]
<1> DEFINE R(o) == Cardinality(Requesting(o))
           W(o) == Cardinality(CancelledWaits(o))
<1>1. \A o \in Operation : R(o) \in Nat /\ W(o) \in Nat
  BY SurplusIsNat
<1>2. R(op) + W(op) > 0 /\ R(op)' + W(op)' = R(op) + W(op) - 1
  <2>1. CASE x \in Requesting(op) /\ Requesting(op)' = Requesting(op) \ {x}
             /\ CancelledWaits(op)' = CancelledWaits(op)
    <3>1. R(op) # 0 /\ R(op)' = R(op) - 1 /\ W(op)' = W(op)
      BY <2>1, SurplusIsNat, FS_RemoveElement, FS_EmptySet
    <3> QED
      BY <1>1, <3>1
  <2>2. CASE x \in CancelledWaits(op) /\ CancelledWaits(op)' = CancelledWaits(op) \ {x}
             /\ Requesting(op)' = Requesting(op)
    <3>1. W(op) # 0 /\ W(op)' = W(op) - 1 /\ R(op)' = R(op)
      BY <2>2, SurplusIsNat, FS_RemoveElement, FS_EmptySet
    <3> QED
      BY <1>1, <3>1
  <2> QED
    BY <2>1, <2>2
<1>3. \A o \in Operation \ {op} : R(o)' = R(o) /\ W(o)' = W(o)
  OBVIOUS
<1>4. Surplus = [o \in Operation |-> R(o) + W(o)]
  BY DEF Surplus
<1>5. Surplus' = [o \in Operation |-> R(o)' + W(o)']
  BY DEF Surplus
<1> HIDE DEF R, W
<1>6. Surplus[op] > 0 /\ Surplus'[op] = Surplus[op] - 1
  <2>1. Surplus[op] = R(op) + W(op) /\ Surplus'[op] = R(op)' + W(op)'
    BY <1>4, <1>5
  <2> QED
    BY <1>1, <1>2, <2>1
<1> QED
  BY <1>3, <1>4, <1>5, <1>6

\* A step that adds one element to the requests of one side adds one to its
\* surplus.
LEMMA SurplusMore ==
    ASSUME NEW op \in Operation, NEW x,
           x \notin Requesting(op) /\ Requesting(op)' = Requesting(op) \cup {x},
           \A o \in Operation : CancelledWaits(o)' = CancelledWaits(o),
           \A o \in Operation \ {op} : Requesting(o)' = Requesting(o)
    PROVE  Surplus' = [Surplus EXCEPT ![op] = @ + 1]
<1> DEFINE R(o) == Cardinality(Requesting(o))
           W(o) == Cardinality(CancelledWaits(o))
<1>1. \A o \in Operation : R(o) \in Nat /\ W(o) \in Nat
  BY SurplusIsNat
<1>2. R(op)' = R(op) + 1
  BY SurplusIsNat, FS_AddElement
<1>3. \A o \in Operation : W(o)' = W(o) /\ (o # op => R(o)' = R(o))
  OBVIOUS
<1>4. Surplus = [o \in Operation |-> R(o) + W(o)]
  BY DEF Surplus
<1>5. Surplus' = [o \in Operation |-> R(o)' + W(o)']
  BY DEF Surplus
<1> HIDE DEF R, W
<1>6. Surplus'[op] = Surplus[op] + 1
  BY <1>1, <1>2, <1>3, <1>4, <1>5
<1> QED
  BY <1>3, <1>4, <1>5, <1>6

\* A request that leaves the mutex having cancelled a wait of its side moves
\* from one set to the other.
LEMMA SurplusMoves ==
    ASSUME NEW op \in Operation, NEW x, NEW y,
           x \in Requesting(op) /\ Requesting(op)' = Requesting(op) \ {x},
           y \notin CancelledWaits(op) /\ CancelledWaits(op)' = CancelledWaits(op) \cup {y},
           \A o \in Operation \ {op} : /\ Requesting(o)' = Requesting(o)
                                       /\ CancelledWaits(o)' = CancelledWaits(o)
    PROVE  Surplus' = Surplus
<1> DEFINE R(o) == Cardinality(Requesting(o))
           W(o) == Cardinality(CancelledWaits(o))
<1>1. \A o \in Operation : R(o) \in Nat /\ W(o) \in Nat
  BY SurplusIsNat
<1>2. R(op)' = R(op) - 1 /\ W(op)' = W(op) + 1
  <2>1. R(op)' = R(op) - 1
    BY SurplusIsNat, FS_RemoveElement
  <2>2. W(op)' = W(op) + 1
    BY SurplusIsNat, FS_AddElement
  <2> QED
    BY <2>1, <2>2
<1>3. \A o \in Operation \ {op} : R(o)' = R(o) /\ W(o)' = W(o)
  OBVIOUS
<1>4. Surplus = [o \in Operation |-> R(o) + W(o)]
  BY DEF Surplus
<1>5. Surplus' = [o \in Operation |-> R(o)' + W(o)']
  BY DEF Surplus
<1> HIDE DEF R, W
<1>6. R(op)' + W(op)' = R(op) + W(op)
  BY <1>1, <1>2
<1> QED
  BY <1>3, <1>4, <1>5, <1>6

\* The surplus after a step of caller c that requests nothing: it is less by
\* one if c was a cancelled wait and is none any more, and otherwise the same.
LEMMA CallerSurplus ==
    ASSUME NEW c \in Callers, UNCHANGED aborting,
           CancelledWait(c)' => CancelledWait(c),
           \A d \in Callers \ {c} : CancelledWait(d)' <=> CancelledWait(d)
    PROVE  /\ (CancelledWait(c)' <=> CancelledWait(c)) => Surplus' = Surplus
           /\ CancelledWait(c) /\ ~CancelledWait(c)'
                => /\ Surplus[OpOf(c)] > 0
                   /\ Surplus' = [Surplus EXCEPT ![OpOf(c)] = @ - 1]
<1>1. \A o \in Operation : Requesting(o)' = Requesting(o)
  BY DEF Requesting
<1>2. \A o \in Operation \ {OpOf(c)} : CancelledWaits(o)' = CancelledWaits(o)
  BY DEF CancelledWaits
<1>3. ASSUME CancelledWait(c)' <=> CancelledWait(c) PROVE Surplus' = Surplus
  <2>1. \A o \in Operation : CancelledWaits(o)' = CancelledWaits(o)
    BY <1>3 DEF CancelledWaits
  <2> QED
    BY <1>1, <2>1, SurplusSame
<1>4. ASSUME CancelledWait(c), ~CancelledWait(c)'
      PROVE  /\ Surplus[OpOf(c)] > 0
             /\ Surplus' = [Surplus EXCEPT ![OpOf(c)] = @ - 1]
  <2>1. /\ c \in CancelledWaits(OpOf(c))
        /\ CancelledWaits(OpOf(c))' = CancelledWaits(OpOf(c)) \ {c}
    BY <1>4 DEF CancelledWaits
  <2> QED
    BY <1>1, <1>2, <2>1, OpOfType, SurplusLess
<1> QED
  BY <1>3, <1>4

-----------------------------------------------------------------------------
(* The steps.                                                              *)

LEMMA ContractInit == Init => Contract!Init
<1> SUFFICES ASSUME Init PROVE Contract!Init
  OBVIOUS
<1>1. \A o \in Operation : Requesting(o) = {} /\ CancelledWaits(o) = {}
  BY DEF Init, Requesting, CancelledWaits, CancelledWait, Operation
<1>2. Surplus = [o \in Operation |-> 0]
  BY <1>1, FS_EmptySet DEF Surplus
<1> QED
  BY <1>2 DEF Init, Contract!Init, Contract!Operation, Operation, Contract!Callers, Callers

\* A call that returns through finishPendingIo is an aborted return, paid for
\* by the flag or by its own cancelled wait, or another return while no
\* request stands.
LEMMA FinishRefines ==
    ASSUME ContractInv, NEW c \in Callers, NEW result \in IoOutcome,
           FinishPendingIo(c, result),
           result = "kAborted" => CancelledWait(c),
           CancelledWait(c) => abortFlag[OpOf(c)] \/ result = "kAborted"
    PROVE  Contract!Next
<1> DEFINE op == OpOf(c)
<1>1. PICK actual \in IoOutcome :
        /\ Return(c, actual)
        /\ actual = IF abortFlag[op] THEN "kAborted" ELSE result
  BY DEF FinishPendingIo, IoOutcome
<1>2. outcome' = [outcome EXCEPT ![c] = actual] /\ UNCHANGED aborting
  BY <1>1 DEF FinishPendingIo, Return
<1>3. ~CancelledWait(c)' /\ \A d \in Callers \ {c} : CancelledWait(d)' <=> CancelledWait(d)
  BY <1>1, ReturnType DEF ContractInv, SafetyInv, CancelledWait
<1>4. /\ ~CancelledWait(c) => Surplus' = Surplus
      /\ CancelledWait(c) => /\ Surplus[op] > 0
                             /\ Surplus' = [Surplus EXCEPT ![op] = @ - 1]
  BY <1>2, <1>3, CallerSurplus
<1>5. abortFlag' = [abortFlag EXCEPT ![op] = FALSE] /\ abortFlag \in [Operation -> BOOLEAN]
  BY DEF FinishPendingIo, ContractInv, SafetyInv, TypeInv, TypeOK
<1>6. CASE actual = "kAborted"
  <2>1. abortFlag[op] \/ CancelledWait(c)
    BY <1>1, <1>6
  <2>2. Contract!ReturnAborted(c)
    BY <1>2, <1>4, <1>5, <1>6, <2>1 DEF Contract!ReturnAborted, Contract!OpOf, OpOf
  <2> QED
    BY <2>2 DEF Contract!Next, Contract!Callers, Callers
<1>7. CASE actual # "kAborted"
  <2>1. ~abortFlag[op] /\ ~CancelledWait(c)
    BY <1>1, <1>7
  <2>2. abortFlag' = abortFlag
    BY <1>5, <2>1, OpOfType
  <2>3. Contract!ReturnOther(c, actual)
    BY <1>2, <1>4, <2>1, <2>2 DEF Contract!ReturnOther, Contract!OpOf, OpOf
  <2> QED
    BY <1>7, <2>3 DEF Contract!Next, Contract!Callers, Callers, Contract!IoOutcome, IoOutcome
<1> QED
  BY <1>6, <1>7

\* A request whose set of requesting threads loses a, and which may have made
\* one more wait of its side a cancelled one.
LEMMA CancelPendingRefines ==
    ASSUME ContractInv, NEW a \in Aborters, CancelPending(a)
    PROVE  [Contract!Next]_Contract!vars
<1> PICK op \in Operation : op = aborting[a]
  BY DEF CancelPending, ContractInv, SafetyInv, TypeInv, TypeOK
<1> PICK p : p = pending[op]
  OBVIOUS
<1>1. /\ aborting' = [aborting EXCEPT ![a] = "none"]
      /\ UNCHANGED <<abortFlag, pending, pc, outcome>>
  BY DEF CancelPending, ContractInv, SafetyInv, TypeInv, TypeOK
<1>2. /\ a \in Requesting(op) /\ Requesting(op)' = Requesting(op) \ {a}
      /\ \A o \in Operation \ {op} : Requesting(o)' = Requesting(o)
  BY <1>1 DEF Requesting, ContractInv, SafetyInv, TypeInv, TypeOK, Operation
<1>3. ASSUME \A o \in Operation : CancelledWaits(o)' = CancelledWaits(o)
      PROVE  Contract!Next
  <2>1. Surplus[op] > 0 /\ Surplus' = [Surplus EXCEPT ![op] = @ - 1]
    BY <1>1, <1>2, <1>3, SurplusLess
  <2>2. Contract!Lapse(op)
    BY <1>1, <2>1 DEF Contract!Lapse
  <2> QED
    BY <1>1, <2>2 DEF Contract!Next, Contract!Operation, Operation
<1>4. CASE UNCHANGED io
  BY <1>1, <1>3, <1>4 DEF CancelledWaits, CancelledWait
<1>5. CASE CancelIoEx(p) /\ p \in Callers /\ pc[p] = "wait" /\ io[p] = "inflight"
           /\ OpOf(p) = op
  <2>1. io'[p] = "cancelling" /\ \A d \in Callers \ {p} : io'[d] = io[d]
    BY <1>5 DEF CancelIoEx, ContractInv, SafetyInv, TypeInv, TypeOK
  <2>2. /\ p \notin CancelledWaits(op) /\ CancelledWaits(op)' = CancelledWaits(op) \cup {p}
        /\ \A o \in Operation \ {op} : CancelledWaits(o)' = CancelledWaits(o)
    BY <1>1, <1>5, <2>1 DEF CancelledWaits, CancelledWait
  <2>3. Surplus' = Surplus
    BY <1>1, <1>2, <2>2, SurplusMoves
  <2> QED
    BY <1>1, <2>3 DEF Contract!vars
<1>6. CASE CancelIoEx(p) /\ p \in Callers /\ ~(pc[p] = "wait" /\ io[p] = "inflight")
  <2>1. \A d \in Callers : CancelledWait(d)' <=> CancelledWait(d)
    BY <1>1, <1>6 DEF CancelIoEx, CancelledWait, ContractInv, SafetyInv, TypeInv, TypeOK
  <2> QED
    BY <1>3, <2>1 DEF CancelledWaits
<1>7. UNCHANGED io \/ (CancelIoEx(p) /\ p \in Callers)
  BY <1>1 DEF CancelPending, ContractInv, SafetyInv, TypeInv, TypeOK
<1>8. p \in Callers => OpOf(p) = op
  BY NullIsNoCaller DEF ContractInv, SafetyInv, PendingIsLive
<1> QED
  BY <1>4, <1>5, <1>6, <1>7, <1>8

\* A step of caller c that leaves the flags and outcomes alone and does not
\* make c a cancelled wait is a lapse or no step at all of the contract.
LEMMA QuietCallerRefines ==
    ASSUME ContractInv, NEW c \in Callers, UNCHANGED <<abortFlag, outcome, aborting>>,
           CancelledWait(c)' => CancelledWait(c),
           \A d \in Callers \ {c} : CancelledWait(d)' <=> CancelledWait(d)
    PROVE  [Contract!Next]_Contract!vars
<1>1. CASE CancelledWait(c)' <=> CancelledWait(c)
  <2>1. Surplus' = Surplus
    BY <1>1, CallerSurplus
  <2> QED
    BY <2>1 DEF Contract!vars
<1>2. CASE CancelledWait(c) /\ ~CancelledWait(c)'
  <2>1. Surplus[OpOf(c)] > 0 /\ Surplus' = [Surplus EXCEPT ![OpOf(c)] = @ - 1]
    BY <1>2, CallerSurplus
  <2>2. Contract!Lapse(OpOf(c))
    BY <2>1 DEF Contract!Lapse
  <2> QED
    BY <2>2, OpOfType DEF Contract!Next, Contract!Operation, Operation
<1> QED
  BY <1>1, <1>2

LEMMA ContractStep == ContractInv /\ [Next]_vars => [Contract!Next]_Contract!vars
<1> SUFFICES ASSUME ContractInv, [Next]_vars PROVE [Contract!Next]_Contract!vars
  OBVIOUS
<1>1. ASSUME NEW c \in Callers, CreateEventFails(c) PROVE Contract!Next
  <2>1. /\ pc[c] = "idle" /\ Return(c, "kError") /\ "kError" \in IoOutcome
        /\ UNCHANGED <<abortFlag, pending, aborting>>
    BY <1>1 DEF CreateEventFails, IoOutcome
  <2>2. \A d \in Callers : CancelledWait(d)' <=> CancelledWait(d)
    BY <2>1, ReturnType DEF CancelledWait, ContractInv, SafetyInv
  <2>3. Surplus' = Surplus
    BY <2>1, <2>2, CallerSurplus
  <2>4. Contract!ReturnOther(c, "kError")
    BY <2>1, <2>3 DEF Contract!ReturnOther, Return, ContractInv, RunningIsBusy
  <2> QED
    BY <2>4 DEF Contract!Next, Contract!Callers, Callers, Contract!IoOutcome
<1>2. ASSUME NEW c \in Callers, StartAborted(c) PROVE Contract!Next
  <2>1. /\ pc[c] = "idle" /\ Return(c, "kAborted") /\ "kAborted" \in IoOutcome
        /\ UNCHANGED <<pending, aborting>>
    BY <1>2 DEF StartAborted, IoOutcome
  <2>2. \A d \in Callers : CancelledWait(d)' <=> CancelledWait(d)
    BY <2>1, ReturnType DEF CancelledWait, ContractInv, SafetyInv
  <2>3. Surplus' = Surplus
    BY <2>1, <2>2, CallerSurplus
  <2>4. Contract!ReturnAborted(c)
    BY <1>2, <2>1, <2>3 DEF Contract!ReturnAborted, StartAborted, Return, Contract!OpOf, OpOf
  <2> QED
    BY <2>4 DEF Contract!Next, Contract!Callers, Callers
<1>3. ASSUME NEW c \in Callers, NEW result \in {"inflight", "completed", "failed"},
             StartPendingIo(c, result)
      PROVE Contract!Next
  <2>1. \A d \in Callers : CancelledWait(d)' <=> CancelledWait(d)
    BY <1>3 DEF StartPendingIo, CancelledWait, ContractInv, SafetyInv, TypeInv, TypeOK
  <2>2. Surplus' = Surplus
    BY <1>3, <2>1, CallerSurplus DEF StartPendingIo
  <2>3. Contract!Call(c)
    BY <1>3, <2>2 DEF Contract!Call, StartPendingIo, Contract!OpOf, OpOf
  <2> QED
    BY <2>3 DEF Contract!Next, Contract!Callers, Callers
<1>4. ASSUME NEW c \in Callers, Finish(c) PROVE Contract!Next
  <2>1. CASE FinishAtOnce(c)
    <3>1. FinishPendingIo(c, ResultOf[io[c]]) /\ io[c] \in IoFinal /\ ~CancelledWait(c)
      BY <2>1 DEF FinishAtOnce, CancelledWait, IoFinal, ContractInv, SafetyInv, TypeInv,
                       EndedAtOnce
    <3>2. ResultOf[io[c]] \in IoOutcome
      BY <3>1 DEF ResultOf, IoFinal, IoOutcome
    <3>3. ResultOf[io[c]] # "kAborted"
      BY <2>1 DEF FinishAtOnce, ResultOf, ContractInv, SafetyInv, TypeInv, EndedAtOnce
    <3> QED
      BY <3>1, <3>2, <3>3, FinishRefines
  <2>2. CASE FinishSignalled(c)
    <3>1. FinishPendingIo(c, ResultOf[io[c]]) /\ io[c] \in IoFinal /\ pc[c] = "wait"
      BY <2>2 DEF FinishSignalled
    <3>2. /\ ResultOf[io[c]] \in IoOutcome
          /\ ResultOf[io[c]] = "kAborted" <=> io[c] = "cancelled"
          /\ CancelledWait(c) <=> io[c] = "cancelled"
      BY <3>1 DEF ResultOf, IoFinal, IoOutcome, CancelledWait
    <3> QED
      BY <3>1, <3>2, FinishRefines
  <2>3. CASE FinishDrained(c)
    <3>1. /\ FinishPendingIo(c, IF pc[c] = "timedOutDrain" THEN "kTimedOut" ELSE "kError")
          /\ ~CancelledWait(c)
      BY <2>3 DEF FinishDrained, CancelledWait
    <3> QED
      BY <3>1, FinishRefines DEF IoOutcome
  <2> QED
    BY <1>4, <2>1, <2>2, <2>3 DEF Finish
<1>5. ASSUME NEW c \in Callers, WaitTimesOut(c) \/ WaitFails(c) \/ CancelOwnIo(c)
      PROVE  [Contract!Next]_Contract!vars
  <2>1. /\ UNCHANGED <<abortFlag, outcome, aborting>>
        /\ ~CancelledWait(c)'
        /\ \A d \in Callers \ {c} : CancelledWait(d)' <=> CancelledWait(d)
    BY <1>5 DEF WaitTimesOut, WaitFails, CancelOwnIo, CancelIoEx, CancelledWait,
                ContractInv, SafetyInv, TypeInv, TypeOK
  <2> QED
    BY <2>1, QuietCallerRefines
<1>6. ASSUME NEW c \in Callers, NEW result \in IoFinal, IoEnds(c, result)
      PROVE  [Contract!Next]_Contract!vars
  <2>1. /\ UNCHANGED <<abortFlag, outcome, aborting>>
        /\ CancelledWait(c)' => CancelledWait(c)
        /\ \A d \in Callers \ {c} : CancelledWait(d)' <=> CancelledWait(d)
    BY <1>6 DEF IoEnds, IoFinal, IoOwned, CancelledWait, ContractInv, SafetyInv, TypeInv, TypeOK
  <2> QED
    BY <2>1, QuietCallerRefines
<1>7. ASSUME NEW a \in Aborters, NEW op \in Operation, RequestAbort(a, op)
      PROVE  Contract!Next
  <2>1. /\ a \notin Requesting(op) /\ Requesting(op)' = Requesting(op) \cup {a}
        /\ \A o \in Operation \ {op} : Requesting(o)' = Requesting(o)
    BY <1>7 DEF RequestAbort, Requesting, Operation, ContractInv, SafetyInv, TypeInv, TypeOK
  <2>2. \A o \in Operation : CancelledWaits(o)' = CancelledWaits(o)
    BY <1>7 DEF RequestAbort, CancelledWaits, CancelledWait
  <2>3. Surplus' = [Surplus EXCEPT ![op] = @ + 1]
    BY <2>1, <2>2, SurplusMore
  <2>4. Contract!Request(op)
    BY <1>7, <2>3 DEF Contract!Request, RequestAbort
  <2> QED
    BY <2>4 DEF Contract!Next, Contract!Operation, Operation
<1>8. ASSUME NEW a \in Aborters, CancelPending(a) PROVE [Contract!Next]_Contract!vars
  BY <1>8, CancelPendingRefines
<1>9. CASE UNCHANGED vars
  <2>1. Surplus' = Surplus
    BY <1>9 DEF vars, Surplus, Requesting, CancelledWaits, CancelledWait
  <2> QED
    BY <1>9, <2>1 DEF vars, Contract!vars
<1> QED
  BY <1>1, <1>2, <1>3, <1>4, <1>5, <1>6, <1>7, <1>8, <1>9 DEF Next, Start

\* A port implements the abort contract, whatever the number of threads: n
\* requests abort at most 2n calls, all of their own side, and nothing passes
\* a standing request.
THEOREM PortImplementsContract == Spec => ImplementsContract
BY ContractInvInit, ContractInvStep, ContractInit, ContractStep, PTL
DEF Spec, ImplementsContract, Contract!Spec

=============================================================================
