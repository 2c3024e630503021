----------------------- MODULE EventRegistrationProofs -----------------------
(***************************************************************************)
(* Proofs about EventRegistration, for any number of threads and           *)
(* registrations: listeners deliver in turn, no dispatcher thread is left  *)
(* behind, and the joins of serialSetEventCallback cannot form a circle.   *)
(***************************************************************************)
EXTENDS EventRegistration, TLAPS

-----------------------------------------------------------------------------
(* The inductive invariant.                                                *)

\* Only a dispatcher in a callback calls serialSetEventCallback, and it was
\* activated before it took up anything.
CallersAct ==
    \A l \in Listeners : /\ at[l] # "outside" => dispatcher[l] = "callback"
                         /\ dispatcher[l] \in {"handle", "callback"} => active[l]

ActiveRuns == \A l \in Listeners : active[l] => dispatcher[l] # "none"

\* A replacement is in the hands of one call, which has yet to install it.
ReplacementsFresh ==
    \A a \in Actors : replacement[a] # NoListener =>
        /\ at[a] = "exchange"
        /\ ~active[replacement[a]] /\ dispatcher[replacement[a]] # "none"
        /\ \A b \in Actors : replacement[b] = replacement[a] => b = a

OneDelivers == \A l \in Listeners : active[l] /\ ~stopped[l] => installed = l

InstalledIsLatest ==
    installed # NoListener => active[installed] /\ generation[installed] = installations

\* No two installed listeners, past or present, share a generation.
GenerationsApart ==
    /\ \A l \in Listeners : generation[l] <= installations
    /\ \A k, l \in Listeners : active[k] /\ active[l] /\ generation[k] = generation[l] => k = l

\* What a call has yet to destroy was installed before.
PreviousStarted ==
    \A a \in Actors : /\ previous[a] # NoListener =>
                            active[previous[a]] /\ at[a] \in {"destroy", "join"}
                      /\ at[a] = "join" => previous[a] \notin {a, NoListener}

\* A callback has only its own listener to destroy, or a later one.
PreviousIsLater ==
    \A l \in Listeners :
        previous[l] \notin {l, NoListener} => generation[previous[l]] > generation[l]

IInv ==
    /\ TypeOK /\ CallersAct /\ ActiveRuns /\ ReplacementsFresh /\ OneDelivers
    /\ InstalledIsLatest /\ GenerationsApart /\ PreviousStarted /\ PreviousIsLater
    /\ RunningIsOwned

-----------------------------------------------------------------------------
\* A new listener is in the hands of the call that made it, and not active.
LEMMA PrepareStep ==
    ASSUME IInv, NEW a \in Actors, NEW l \in Listeners, Prepare(a, l)
    PROVE  IInv'
<1>1. TypeOK'
    BY DEF IInv, TypeOK, Prepare, At, Dispatcher, historyVars
<1>2. CallersAct'
    BY DEF IInv, CallersAct, MayCall, Prepare
<1>3. ActiveRuns'
    BY DEF IInv, ActiveRuns, Prepare
<1>4. ReplacementsFresh'
    BY DEF IInv, TypeOK, ActiveRuns, ReplacementsFresh, Prepare
<1>5. OneDelivers'
    BY DEF IInv, OneDelivers, Prepare
<1>6. InstalledIsLatest'
    BY DEF IInv, InstalledIsLatest, Prepare, historyVars
<1>7. GenerationsApart'
    BY DEF IInv, GenerationsApart, Prepare, historyVars
<1>8. PreviousStarted'
    BY DEF IInv, PreviousStarted, MayCall, Prepare
<1>9. PreviousIsLater'
    BY DEF IInv, PreviousIsLater, Prepare, historyVars
<1>10. RunningIsOwned'
    BY DEF IInv, TypeOK, ReplacementsFresh, PreviousStarted, RunningIsOwned, MayCall,
       Prepare, Running
<1> QED BY <1>1, <1>2, <1>3, <1>4, <1>5, <1>6, <1>7, <1>8, <1>9, <1>10 DEF IInv

\* A call that clears the registration has nothing in its hands.
LEMMA PrepareNothingStep ==
    ASSUME IInv, NEW a \in Actors, PrepareNothing(a)
    PROVE  IInv'
<1>1. TypeOK'
    BY DEF IInv, TypeOK, PrepareNothing, At, listenerVars, historyVars
<1>2. CallersAct'
    BY DEF IInv, CallersAct, MayCall, PrepareNothing, listenerVars
<1>3. ActiveRuns'
    BY DEF IInv, ActiveRuns, PrepareNothing, listenerVars
<1>4. ReplacementsFresh'
    BY DEF IInv, ReplacementsFresh, PrepareNothing, listenerVars
<1>5. OneDelivers'
    BY DEF IInv, OneDelivers, PrepareNothing, listenerVars
<1>6. InstalledIsLatest'
    BY DEF IInv, InstalledIsLatest, PrepareNothing, listenerVars, historyVars
<1>7. GenerationsApart'
    BY DEF IInv, GenerationsApart, PrepareNothing, listenerVars, historyVars
<1>8. PreviousStarted'
    BY DEF IInv, PreviousStarted, MayCall, PrepareNothing, listenerVars
<1>9. PreviousIsLater'
    BY DEF IInv, PreviousIsLater, PrepareNothing, historyVars
<1>10. RunningIsOwned'
    BY DEF IInv, RunningIsOwned, PrepareNothing, Running, listenerVars
<1> QED BY <1>1, <1>2, <1>3, <1>4, <1>5, <1>6, <1>7, <1>8, <1>9, <1>10 DEF IInv

\* The old listener was the latest, so it is later than the caller's own or is
\* it; the new one is later still.
LEMMA ExchangeStep ==
    ASSUME IInv, NEW a \in Actors, Exchange(a)
    PROVE  IInv'
<1>1. TypeOK'
    BY DEF IInv, TypeOK, Exchange, Stamp, At, historyVars
<1>2. CallersAct'
    BY DEF IInv, TypeOK, CallersAct, Exchange
<1>3. ActiveRuns'
    BY ActorsAssumption DEF IInv, TypeOK, ActiveRuns, ReplacementsFresh, Exchange
<1>4. ReplacementsFresh'
    BY DEF IInv, TypeOK, ReplacementsFresh, Exchange
<1>5. OneDelivers'
    BY DEF IInv, OneDelivers, Exchange
<1>6. InstalledIsLatest'
  <2>1. CASE replacement[a] = NoListener
    BY <2>1 DEF Exchange, InstalledIsLatest
  <2>2. CASE replacement[a] # NoListener
    <3>1. replacement[a] \in Listeners
      BY <2>2 DEF IInv, TypeOK
    <3>2. generation'[replacement[a]] = installations'
      BY <2>2, <3>1 DEF IInv, TypeOK, Exchange, Stamp
    <3>3. installed' = replacement[a]
      BY DEF Exchange
    <3>4. active'[replacement[a]]
      BY <3>1 DEF Exchange
    <3> QED BY <3>2, <3>3, <3>4 DEF InstalledIsLatest
  <2> QED BY <2>1, <2>2
<1>7. GenerationsApart'
    BY ActorsAssumption DEF IInv, TypeOK, GenerationsApart, Exchange, Stamp, historyVars
<1>8. PreviousStarted'
    BY DEF IInv, TypeOK, InstalledIsLatest, PreviousStarted, Exchange
<1>9. PreviousIsLater'
    BY DEF IInv, TypeOK, CallersAct, ReplacementsFresh, InstalledIsLatest, GenerationsApart,
       PreviousStarted, PreviousIsLater, Exchange, Stamp, Actors, historyVars
<1>10. RunningIsOwned'
    BY DEF IInv, TypeOK, PreviousStarted, RunningIsOwned, Exchange, Running
<1> QED BY <1>1, <1>2, <1>3, <1>4, <1>5, <1>6, <1>7, <1>8, <1>9, <1>10 DEF IInv

\* A call with nothing to destroy returns.
LEMMA DestroyNothingStep ==
    ASSUME IInv, NEW a \in Actors, DestroyNothing(a)
    PROVE  IInv'
<1>1. TypeOK'
    BY DEF IInv, TypeOK, DestroyNothing, Return, At, listenerVars, historyVars
<1>2. CallersAct'
    BY DEF IInv, CallersAct, DestroyNothing, Return, listenerVars
<1>3. ActiveRuns'
    BY DEF IInv, ActiveRuns, DestroyNothing, listenerVars
<1>4. ReplacementsFresh'
    BY DEF IInv, ReplacementsFresh, DestroyNothing, Return, listenerVars
<1>5. OneDelivers'
    BY DEF IInv, OneDelivers, DestroyNothing, listenerVars
<1>6. InstalledIsLatest'
    BY DEF IInv, InstalledIsLatest, DestroyNothing, listenerVars, historyVars
<1>7. GenerationsApart'
    BY DEF IInv, GenerationsApart, DestroyNothing, listenerVars, historyVars
<1>8. PreviousStarted'
    BY DEF IInv, PreviousStarted, DestroyNothing, Return, listenerVars
<1>9. PreviousIsLater'
    BY DEF IInv, PreviousIsLater, DestroyNothing, Return, historyVars
<1>10. RunningIsOwned'
    BY DEF IInv, RunningIsOwned, DestroyNothing, Return, Running, listenerVars
<1> QED BY <1>1, <1>2, <1>3, <1>4, <1>5, <1>6, <1>7, <1>8, <1>9, <1>10 DEF IInv

\* A detached dispatcher is stopped and needs no owner.
LEMMA DetachSelfStep ==
    ASSUME IInv, NEW a \in Actors, DetachSelf(a)
    PROVE  IInv'
<1>1. TypeOK'
    BY ActorsAssumption DEF IInv, TypeOK, DetachSelf, Return, Actors, At, historyVars
<1>2. CallersAct'
    BY DEF IInv, CallersAct, DetachSelf, Return
<1>3. ActiveRuns'
    BY DEF IInv, ActiveRuns, DetachSelf
<1>4. ReplacementsFresh'
    BY DEF IInv, ReplacementsFresh, DetachSelf, Return
<1>5. OneDelivers'
    BY DEF IInv, OneDelivers, DetachSelf
<1>6. InstalledIsLatest'
    BY DEF IInv, InstalledIsLatest, DetachSelf, historyVars
<1>7. GenerationsApart'
    BY DEF IInv, GenerationsApart, DetachSelf, historyVars
<1>8. PreviousStarted'
    BY DEF IInv, TypeOK, PreviousStarted, DetachSelf, Return
<1>9. PreviousIsLater'
    BY DEF IInv, PreviousIsLater, DetachSelf, Return, historyVars
<1>10. RunningIsOwned'
    BY DEF IInv, OneDelivers, PreviousStarted, RunningIsOwned, DetachSelf, Return, Running
<1> QED BY <1>1, <1>2, <1>3, <1>4, <1>5, <1>6, <1>7, <1>8, <1>9, <1>10 DEF IInv

\* Only the listener of another thread is joined.
LEMMA BeginJoinStep ==
    ASSUME IInv, NEW a \in Actors, BeginJoin(a)
    PROVE  IInv'
<1>1. TypeOK'
    BY DEF IInv, TypeOK, BeginJoin, At, historyVars
<1>2. CallersAct'
    BY DEF IInv, CallersAct, BeginJoin
<1>3. ActiveRuns'
    BY DEF IInv, ActiveRuns, BeginJoin
<1>4. ReplacementsFresh'
    BY DEF IInv, ReplacementsFresh, BeginJoin
<1>5. OneDelivers'
    BY DEF IInv, OneDelivers, BeginJoin
<1>6. InstalledIsLatest'
    BY DEF IInv, InstalledIsLatest, BeginJoin, historyVars
<1>7. GenerationsApart'
    BY DEF IInv, GenerationsApart, BeginJoin, historyVars
<1>8. PreviousStarted'
    BY DEF IInv, PreviousStarted, BeginJoin
<1>9. PreviousIsLater'
    BY DEF IInv, PreviousIsLater, BeginJoin, historyVars
<1>10. RunningIsOwned'
    BY DEF IInv, RunningIsOwned, BeginJoin, Running
<1> QED BY <1>1, <1>2, <1>3, <1>4, <1>5, <1>6, <1>7, <1>8, <1>9, <1>10 DEF IInv

\* The joined dispatcher has exited, so it may lose its owner.
LEMMA JoinedStep ==
    ASSUME IInv, NEW a \in Actors, Joined(a)
    PROVE  IInv'
<1>1. TypeOK'
    BY DEF IInv, TypeOK, Joined, Return, At, listenerVars, historyVars
<1>2. CallersAct'
    BY DEF IInv, CallersAct, Joined, Return, listenerVars
<1>3. ActiveRuns'
    BY DEF IInv, ActiveRuns, Joined, listenerVars
<1>4. ReplacementsFresh'
    BY DEF IInv, ReplacementsFresh, Joined, Return, listenerVars
<1>5. OneDelivers'
    BY DEF IInv, OneDelivers, Joined, listenerVars
<1>6. InstalledIsLatest'
    BY DEF IInv, InstalledIsLatest, Joined, listenerVars, historyVars
<1>7. GenerationsApart'
    BY DEF IInv, GenerationsApart, Joined, listenerVars, historyVars
<1>8. PreviousStarted'
    BY DEF IInv, TypeOK, PreviousStarted, Joined, Return, listenerVars
<1>9. PreviousIsLater'
    BY DEF IInv, PreviousIsLater, Joined, Return, historyVars
<1>10. RunningIsOwned'
    BY DEF IInv, RunningIsOwned, Joined, Return, Running, listenerVars
<1> QED BY <1>1, <1>2, <1>3, <1>4, <1>5, <1>6, <1>7, <1>8, <1>9, <1>10 DEF IInv

\* A dispatcher takes something up only after its activation.
LEMMA TakeStep ==
    ASSUME IInv, NEW l \in Listeners, Take(l)
    PROVE  IInv'
<1>1. TypeOK'
    BY DEF IInv, TypeOK, Take, Dispatcher, callVars, historyVars
<1>2. CallersAct'
    BY DEF IInv, TypeOK, CallersAct, Take, callVars
<1>3. ActiveRuns'
    BY DEF IInv, TypeOK, ActiveRuns, Take
<1>4. ReplacementsFresh'
    BY DEF IInv, TypeOK, ReplacementsFresh, Take, callVars
<1>5. OneDelivers'
    BY DEF IInv, OneDelivers, Take
<1>6. InstalledIsLatest'
    BY DEF IInv, InstalledIsLatest, Take, historyVars
<1>7. GenerationsApart'
    BY DEF IInv, GenerationsApart, Take, historyVars
<1>8. PreviousStarted'
    BY DEF IInv, PreviousStarted, Take, callVars
<1>9. PreviousIsLater'
    BY DEF IInv, PreviousIsLater, Take, callVars, historyVars
<1>10. RunningIsOwned'
    BY DEF IInv, TypeOK, RunningIsOwned, Take, Running, callVars
<1> QED BY <1>1, <1>2, <1>3, <1>4, <1>5, <1>6, <1>7, <1>8, <1>9, <1>10 DEF IInv

\* What it took up before a stop it delivers, whatever is installed by then.
LEMMA DeliverStep ==
    ASSUME IInv, NEW l \in Listeners, Deliver(l)
    PROVE  IInv'
<1>1. TypeOK'
    BY DEF IInv, TypeOK, Deliver, Dispatcher, callVars
<1>2. CallersAct'
    BY DEF IInv, TypeOK, CallersAct, Deliver, callVars
<1>3. ActiveRuns'
    BY DEF IInv, TypeOK, ActiveRuns, Deliver
<1>4. ReplacementsFresh'
    BY DEF IInv, TypeOK, ReplacementsFresh, Deliver, callVars
<1>5. OneDelivers'
    BY DEF IInv, OneDelivers, Deliver
<1>6. InstalledIsLatest'
    BY DEF IInv, InstalledIsLatest, Deliver
<1>7. GenerationsApart'
    BY DEF IInv, GenerationsApart, Deliver
<1>8. PreviousStarted'
    BY DEF IInv, PreviousStarted, Deliver, callVars
<1>9. PreviousIsLater'
    BY DEF IInv, PreviousIsLater, Deliver, callVars
<1>10. RunningIsOwned'
    BY DEF IInv, TypeOK, RunningIsOwned, Deliver, Running, callVars
<1> QED BY <1>1, <1>2, <1>3, <1>4, <1>5, <1>6, <1>7, <1>8, <1>9, <1>10 DEF IInv

\* What it need not deliver it drops.
LEMMA SkipStep ==
    ASSUME IInv, NEW l \in Listeners, Skip(l)
    PROVE  IInv'
<1>1. TypeOK'
    BY DEF IInv, TypeOK, Skip, Dispatcher, callVars, historyVars
<1>2. CallersAct'
    BY DEF IInv, TypeOK, CallersAct, Skip, callVars
<1>3. ActiveRuns'
    BY DEF IInv, TypeOK, ActiveRuns, Skip
<1>4. ReplacementsFresh'
    BY DEF IInv, TypeOK, ReplacementsFresh, Skip, callVars
<1>5. OneDelivers'
    BY DEF IInv, OneDelivers, Skip
<1>6. InstalledIsLatest'
    BY DEF IInv, InstalledIsLatest, Skip, historyVars
<1>7. GenerationsApart'
    BY DEF IInv, GenerationsApart, Skip, historyVars
<1>8. PreviousStarted'
    BY DEF IInv, PreviousStarted, Skip, callVars
<1>9. PreviousIsLater'
    BY DEF IInv, PreviousIsLater, Skip, callVars, historyVars
<1>10. RunningIsOwned'
    BY DEF IInv, TypeOK, RunningIsOwned, Skip, Running, callVars
<1> QED BY <1>1, <1>2, <1>3, <1>4, <1>5, <1>6, <1>7, <1>8, <1>9, <1>10 DEF IInv

\* A callback returns only outside serialSetEventCallback.
LEMMA CallbackReturnsStep ==
    ASSUME IInv, NEW l \in Listeners, CallbackReturns(l)
    PROVE  IInv'
<1>1. TypeOK'
    BY DEF IInv, TypeOK, CallbackReturns, Dispatcher, callVars, historyVars
<1>2. CallersAct'
    BY DEF IInv, CallersAct, CallbackReturns, callVars
<1>3. ActiveRuns'
    BY DEF IInv, ActiveRuns, CallbackReturns
<1>4. ReplacementsFresh'
    BY DEF IInv, ReplacementsFresh, CallbackReturns, callVars
<1>5. OneDelivers'
    BY DEF IInv, OneDelivers, CallbackReturns
<1>6. InstalledIsLatest'
    BY DEF IInv, InstalledIsLatest, CallbackReturns, historyVars
<1>7. GenerationsApart'
    BY DEF IInv, GenerationsApart, CallbackReturns, historyVars
<1>8. PreviousStarted'
    BY DEF IInv, PreviousStarted, CallbackReturns, callVars
<1>9. PreviousIsLater'
    BY DEF IInv, PreviousIsLater, CallbackReturns, callVars, historyVars
<1>10. RunningIsOwned'
    BY DEF IInv, RunningIsOwned, CallbackReturns, Running, callVars
<1> QED BY <1>1, <1>2, <1>3, <1>4, <1>5, <1>6, <1>7, <1>8, <1>9, <1>10 DEF IInv

\* A dispatcher that exits is nobody's concern any more.
LEMMA ExitStep ==
    ASSUME IInv, NEW l \in Listeners, Exit(l)
    PROVE  IInv'
<1>1. TypeOK'
    BY DEF IInv, TypeOK, Exit, Dispatcher, callVars, historyVars
<1>2. CallersAct'
    BY DEF IInv, CallersAct, Exit, callVars
<1>3. ActiveRuns'
    BY DEF IInv, ActiveRuns, Exit
<1>4. ReplacementsFresh'
    BY DEF IInv, ReplacementsFresh, Exit, callVars
<1>5. OneDelivers'
    BY DEF IInv, OneDelivers, Exit
<1>6. InstalledIsLatest'
    BY DEF IInv, InstalledIsLatest, Exit, historyVars
<1>7. GenerationsApart'
    BY DEF IInv, GenerationsApart, Exit, historyVars
<1>8. PreviousStarted'
    BY DEF IInv, PreviousStarted, Exit, callVars
<1>9. PreviousIsLater'
    BY DEF IInv, PreviousIsLater, Exit, callVars, historyVars
<1>10. RunningIsOwned'
    BY DEF IInv, RunningIsOwned, Exit, Running, callVars
<1> QED BY <1>1, <1>2, <1>3, <1>4, <1>5, <1>6, <1>7, <1>8, <1>9, <1>10 DEF IInv

-----------------------------------------------------------------------------
(* The invariant and the theorems.                                         *)

\* In the initial state no listener exists and every thread is outside.
LEMMA InitInv == Init => IInv
<1> SUFFICES ASSUME Init PROVE IInv
    OBVIOUS
<1>1. \A a \in Actors : at[a] = "outside" /\ replacement[a] = NoListener /\ previous[a] = NoListener
    BY DEF Init
<1>2. \A l \in Listeners : l \in Actors /\ ~active[l] /\ dispatcher[l] = "none" /\ generation[l] = 0
    BY DEF Init, Actors
<1>3. TypeOK
    BY DEF Init, TypeOK, Dispatcher, At
<1>4. CallersAct /\ ActiveRuns /\ OneDelivers /\ RunningIsOwned
    BY <1>1, <1>2 DEF CallersAct, ActiveRuns, OneDelivers, RunningIsOwned, Running
<1>5. ReplacementsFresh /\ PreviousStarted /\ PreviousIsLater
    BY <1>1, <1>2 DEF ReplacementsFresh, PreviousStarted, PreviousIsLater
<1>6. InstalledIsLatest /\ GenerationsApart
    BY <1>2 DEF Init, InstalledIsLatest, GenerationsApart
<1> QED BY <1>3, <1>4, <1>5, <1>6 DEF IInv

\* A step that changes no variable preserves the invariant.
LEMMA StutterInv ==
    ASSUME IInv, UNCHANGED vars
    PROVE  IInv'
<1> USE DEF vars, listenerVars, callVars, historyVars
<1>1. TypeOK' /\ CallersAct' /\ ActiveRuns'
    BY DEF IInv, TypeOK, CallersAct, ActiveRuns
<1>2. ReplacementsFresh' /\ OneDelivers' /\ InstalledIsLatest'
    BY DEF IInv, ReplacementsFresh, OneDelivers, InstalledIsLatest
<1>3. GenerationsApart' /\ PreviousStarted' /\ PreviousIsLater'
    BY DEF IInv, GenerationsApart, PreviousStarted, PreviousIsLater
<1>4. RunningIsOwned'
    BY DEF IInv, RunningIsOwned, Running
<1> QED BY <1>1, <1>2, <1>3, <1>4 DEF IInv

\* Every step preserves the invariant.
LEMMA NextInv == IInv /\ [Next]_vars => IInv'
<1> SUFFICES ASSUME IInv, [Next]_vars PROVE IInv'
    OBVIOUS
<1>1. ASSUME NEW a \in Actors, NEW l \in Listeners, Prepare(a, l) PROVE IInv'
    BY <1>1, PrepareStep
<1>2. ASSUME NEW a \in Actors, PrepareNothing(a) PROVE IInv'
    BY <1>2, PrepareNothingStep
<1>3. ASSUME NEW a \in Actors, SetterStep(a) PROVE IInv'
    BY <1>3, ExchangeStep, DestroyNothingStep, DetachSelfStep, BeginJoinStep, JoinedStep
       DEF SetterStep
<1>4. ASSUME NEW l \in Listeners,
             Take(l) \/ Deliver(l) \/ Skip(l) \/ CallbackReturns(l) \/ Exit(l)
      PROVE  IInv'
    BY <1>4, TakeStep, DeliverStep, SkipStep, CallbackReturnsStep, ExitStep
<1>5. CASE UNCHANGED vars
    BY <1>5, StutterInv
<1> QED BY <1>1, <1>2, <1>3, <1>4, <1>5 DEF Next

\* The invariant holds in every reachable state.
THEOREM Invariance == Spec => []IInv
<1>1. Init => IInv
    BY InitInv
<1>2. IInv /\ [Next]_vars => IInv'
    BY NextInv
<1> QED BY <1>1, <1>2, PTL DEF Spec

\* Type correctness.
THEOREM TypeAlwaysRight == Spec => []TypeOK
<1>1. IInv => TypeOK
    BY DEF IInv
<1> QED BY <1>1, Invariance, PTL

\* No circle of joins: ~EventListener, when a callback runs it, joins only a
\* dispatcher that was installed after the callback's own.
THEOREM JoinsAlwaysGoForward == Spec => []JoinsGoForward
<1>1. IInv => JoinsGoForward
    BY DEF IInv, PreviousStarted, PreviousIsLater, JoinsGoForward, Actors
<1> QED BY <1>1, Invariance, PTL

\* No dispatcher thread is left behind by any exchange of listeners.
THEOREM RunningAlwaysOwned == Spec => []RunningIsOwned
<1>1. IInv => RunningIsOwned
    BY DEF IInv
<1> QED BY <1>1, Invariance, PTL

\* A listener that had a callback begun too late, or lost its thread, is stopped
\* and has nothing taken up.
LateDone == \A l \in late \cup detached : stopped[l] /\ dispatcher[l] # "handle"

\* It stays so: a listener that is not installed any more was stopped before,
\* and a dispatcher detaches itself in a callback.
LEMMA LateAlwaysDone == Spec => []LateDone
<1>1. Init => LateDone
    BY DEF Init, LateDone
<1>2. IInv /\ LateDone /\ [Next]_vars => LateDone'
    <2> SUFFICES ASSUME IInv, LateDone, [Next]_vars PROVE LateDone'
        OBVIOUS
    <2>1. /\ stopped \in [Listeners -> BOOLEAN] /\ dispatcher \in [Listeners -> Dispatcher]
          /\ late \subseteq Listeners /\ detached \in SUBSET Listeners
        BY DEF IInv, TypeOK
    <2>2. ASSUME NEW a \in Actors, NEW l \in Listeners, Prepare(a, l) PROVE LateDone'
        BY <2>1, <2>2 DEF Prepare, LateDone, historyVars
    <2>3. ASSUME NEW a \in Actors, PrepareNothing(a) \/ DestroyNothing(a) \/ Joined(a)
          PROVE  LateDone'
        BY <2>3 DEF PrepareNothing, DestroyNothing, Joined, LateDone, listenerVars, historyVars
    <2>4. ASSUME NEW a \in Actors, Exchange(a) PROVE LateDone'
        BY <2>1, <2>4 DEF Exchange, LateDone
    <2>5. ASSUME NEW a \in Actors, DetachSelf(a) PROVE LateDone'
        <3>1. a \in Listeners /\ dispatcher[a] = "callback"
            BY <2>5, ActorsAssumption
               DEF DetachSelf, Actors, IInv, TypeOK, CallersAct
        <3> QED
            BY <2>1, <2>5, <3>1 DEF DetachSelf, LateDone, historyVars
    <2>6. ASSUME NEW a \in Actors, BeginJoin(a) PROVE LateDone'
        BY <2>1, <2>6 DEF BeginJoin, LateDone, historyVars
    <2>7. ASSUME NEW l \in Listeners, Take(l) \/ Skip(l) \/ CallbackReturns(l) \/ Exit(l)
          PROVE  LateDone'
        BY <2>1, <2>7 DEF Take, Skip, CallbackReturns, Exit, LateDone, historyVars
    <2>8. ASSUME NEW l \in Listeners, Deliver(l) PROVE LateDone'
        <3>1. active[l]
            BY <2>8 DEF Deliver, IInv, CallersAct
        <3>2. installed # l => stopped[l]
            BY <3>1 DEF IInv, OneDelivers
        <3> QED
            BY <2>1, <2>8, <3>2 DEF Deliver, LateDone
    <2>9. CASE UNCHANGED vars
        BY <2>9 DEF LateDone, vars, listenerVars, historyVars
    <2> QED
        BY <2>2, <2>3, <2>4, <2>5, <2>6, <2>7, <2>8, <2>9 DEF Next, SetterStep
<1> QED
    BY <1>1, <1>2, Invariance, PTL DEF Spec

\* A callback begins for the listener that g_event_listener holds, or once more
\* for one that a call is still taking away.
THEOREM CallbacksTakeTurns == Spec => DeliversInTurn
<1>1. IInv /\ LateDone /\ [Next]_vars => [DeliversInTurnStep]_vars
  <2> SUFFICES ASSUME IInv, LateDone, Next, NEW l \in Listeners,
                      dispatcher[l] # "callback", dispatcher'[l] = "callback"
               PROVE  \/ installed = l
                      \/ l \notin late /\ \E a \in Actors : previous[a] = l
      BY DEF DeliversInTurnStep
  <2>1. dispatcher \in [Listeners -> Dispatcher]
      BY DEF IInv, TypeOK
  <2>2. ASSUME NEW a \in Actors, NEW k \in Listeners, Prepare(a, k) PROVE FALSE
      BY <2>1, <2>2 DEF Prepare
  <2>3. ASSUME NEW a \in Actors, PrepareNothing(a) \/ SetterStep(a) PROVE FALSE
      BY <2>3 DEF PrepareNothing, SetterStep, Exchange, DestroyNothing, DetachSelf, BeginJoin,
                  Joined, listenerVars
  <2>4. ASSUME NEW k \in Listeners, Deliver(k)
        PROVE  \/ installed = l
               \/ l \notin late /\ \E a \in Actors : previous[a] = l
      <3>1. dispatcher[l] = "handle"
          BY <2>1, <2>4 DEF Deliver
      <3>2. active[l] /\ l \notin late \cup detached
          BY <3>1 DEF IInv, CallersAct, LateDone
      <3>3. \A a \in Actors : replacement[a] # l
          BY <3>2, ActorsAssumption DEF IInv, ReplacementsFresh
      <3> QED
          BY <3>1, <3>2, <3>3 DEF IInv, RunningIsOwned, Running
  <2>5. ASSUME NEW k \in Listeners, Take(k) \/ Skip(k) \/ CallbackReturns(k) \/ Exit(k)
        PROVE  FALSE
      BY <2>1, <2>5 DEF Take, Skip, CallbackReturns, Exit
  <2> QED BY <2>2, <2>3, <2>4, <2>5 DEF Next
<1> QED BY <1>1, Invariance, LateAlwaysDone, PTL DEF Spec, DeliversInTurn

\* What a call took away is silent when the call returns.
THEOREM ReplacedAlwaysSilent == Spec => ReplacedIsSilent
<1>1. IInv /\ [Next]_vars => [ReplacedIsSilentStep]_vars
  <2> SUFFICES ASSUME IInv, Next, NEW a \in Actors, at[a] # "outside", at'[a] = "outside"
               PROVE  previous[a] \in {a, NoListener} \/ dispatcher[previous[a]] = "exited"
      BY DEF ReplacedIsSilentStep
  <2>1. at \in [Actors -> At]
      BY DEF IInv, TypeOK
  <2>2. ASSUME NEW b \in Actors, NEW k \in Listeners, Prepare(b, k) PROVE FALSE
      BY <2>1, <2>2 DEF Prepare
  <2>3. ASSUME NEW b \in Actors, PrepareNothing(b) \/ Exchange(b) \/ BeginJoin(b) PROVE FALSE
      BY <2>1, <2>3 DEF PrepareNothing, Exchange, BeginJoin
  <2>4. ASSUME NEW b \in Actors, DestroyNothing(b) \/ DetachSelf(b) \/ Joined(b)
        PROVE  previous[a] \in {a, NoListener} \/ dispatcher[previous[a]] = "exited"
      BY <2>1, <2>4 DEF DestroyNothing, DetachSelf, Joined, Return
  <2>5. ASSUME NEW k \in Listeners,
               Take(k) \/ Deliver(k) \/ Skip(k) \/ CallbackReturns(k) \/ Exit(k)
        PROVE  FALSE
      BY <2>5 DEF Take, Deliver, Skip, CallbackReturns, Exit, callVars
  <2> QED BY <2>2, <2>3, <2>4, <2>5 DEF Next, SetterStep
<1> QED BY <1>1, Invariance, PTL DEF Spec, ReplacedIsSilent

-----------------------------------------------------------------------------
(* The threads of the listeners.                                           *)

\* A pass outside the lock, in the application's callback or not.
ThreadOf(l) == IF dispatcher[l] \in {"handle", "callback"} THEN "pass" ELSE dispatcher[l]

\* One listener as ListenerThread has it.
Listener(l) == INSTANCE ListenerThread WITH
    active <- active[l], stopped <- stopped[l], thread <- ThreadOf(l)

\* Until it is activated a listener is not stopped, and its thread waits.
InactiveWaits ==
    \A l \in Listeners : ~active[l] => ~stopped[l] /\ dispatcher[l] \in {"none", "wait"}

\* One step of one actor, seen from one listener: what happens to its flags
\* and thread is one of the things ListenerThread allows.
LEMMA StepOfListener ==
    ASSUME IInv, InactiveWaits, [Next]_vars, NEW l \in Listeners
    PROVE  Listener(l)!Next \/ UNCHANGED <<active[l], stopped[l], ThreadOf(l)>>
<1>1. /\ active \in [Listeners -> BOOLEAN] /\ stopped \in [Listeners -> BOOLEAN]
      /\ dispatcher \in [Listeners -> Dispatcher]
    BY DEF IInv, TypeOK
<1>2. ~active[l] => ~stopped[l] /\ dispatcher[l] \in {"none", "wait"}
    BY DEF InactiveWaits
<1>3. ASSUME NEW a \in Actors, NEW k \in Listeners, Prepare(a, k)
      PROVE  Listener(l)!Start \/ UNCHANGED <<active[l], stopped[l], ThreadOf(l)>>
    BY <1>1, <1>3 DEF Prepare, ThreadOf, Listener!Start
<1>4. ASSUME NEW a \in Actors, PrepareNothing(a) \/ DestroyNothing(a) \/ Joined(a)
      PROVE  UNCHANGED <<active[l], stopped[l], ThreadOf(l)>>
    BY <1>4 DEF PrepareNothing, DestroyNothing, Joined, ThreadOf, listenerVars
<1>5. ASSUME NEW a \in Actors, Exchange(a)
      PROVE  \/ Listener(l)!Activate \/ Listener(l)!Stop
             \/ UNCHANGED <<active[l], stopped[l], ThreadOf(l)>>
    <2>1. /\ active'[l] = (active[l] \/ l = replacement[a])
          /\ stopped'[l] = (stopped[l] \/ l = installed)
          /\ dispatcher' = dispatcher
        BY <1>5 DEF Exchange
    <2>2. l = replacement[a] => ~active[l] /\ dispatcher[l] = "wait"
        <3>1. l # NoListener
            BY ActorsAssumption
        <3>2. l = replacement[a] => ~active[l] /\ dispatcher[l] # "none"
            BY <3>1 DEF IInv, ReplacementsFresh
        <3> QED
            BY <1>2, <3>2
    <2>3. l = installed => active[l]
        BY ActorsAssumption DEF IInv, InstalledIsLatest
    <2>4. CASE l = replacement[a]
        <3>1. Listener(l)!Activate
            BY <1>1, <1>2, <2>1, <2>2, <2>3, <2>4 DEF ThreadOf, Listener!Activate
        <3> QED
            BY <3>1
    <2>5. CASE l # replacement[a] /\ l = installed /\ ~stopped[l]
        <3>1. Listener(l)!Stop
            BY <1>1, <2>1, <2>3, <2>5 DEF ThreadOf, Listener!Stop
        <3> QED
            BY <3>1
    <2>6. CASE l # replacement[a] /\ (l # installed \/ stopped[l])
        BY <1>1, <2>1, <2>6 DEF ThreadOf
    <2> QED
        BY <2>4, <2>5, <2>6
<1>6. ASSUME NEW a \in Actors, DetachSelf(a) \/ BeginJoin(a)
      PROVE  Listener(l)!Stop \/ UNCHANGED <<active[l], stopped[l], ThreadOf(l)>>
    <2>1. /\ previous[a] # NoListener /\ UNCHANGED <<active, dispatcher>>
          /\ stopped' = [stopped EXCEPT ![previous[a]] = TRUE]
        BY <1>6, ActorsAssumption DEF DetachSelf, BeginJoin, Actors
    <2>2. active[previous[a]]
        BY <2>1 DEF IInv, PreviousStarted
    <2>3. CASE l = previous[a] /\ ~stopped[l]
        <3>1. Listener(l)!Stop
            BY <1>1, <2>1, <2>2, <2>3 DEF ThreadOf, Listener!Stop
        <3> QED
            BY <3>1
    <2>4. CASE l # previous[a] \/ stopped[l]
        BY <1>1, <2>1, <2>4 DEF ThreadOf
    <2> QED
        BY <2>3, <2>4
<1>7. ASSUME NEW k \in Listeners,
             Take(k) \/ Deliver(k) \/ Skip(k) \/ CallbackReturns(k) \/ Exit(k)
      PROVE  \/ Listener(l)!Take \/ Listener(l)!Finish \/ Listener(l)!Exit
             \/ UNCHANGED <<active[l], stopped[l], ThreadOf(l)>>
    <2>1. CASE l = k
        <3>1. CASE Take(l)
            BY <1>1, <3>1 DEF Take, ThreadOf, Listener!Take
        <3>2. CASE Deliver(l)
            BY <1>1, <3>2 DEF Deliver, ThreadOf
        <3>3. CASE Skip(l) \/ CallbackReturns(l)
            BY <1>1, <3>3 DEF Skip, CallbackReturns, ThreadOf, Listener!Finish
        <3>4. CASE Exit(l)
            BY <1>1, <3>4 DEF Exit, ThreadOf, Listener!Exit
        <3> QED
            BY <1>7, <2>1, <3>1, <3>2, <3>3, <3>4
    <2>2. CASE l # k
        BY <1>1, <1>7, <2>2 DEF Take, Deliver, Skip, CallbackReturns, Exit, ThreadOf
    <2> QED
        BY <2>1, <2>2
<1>8. CASE UNCHANGED vars
    BY <1>8 DEF vars, listenerVars, ThreadOf
<1> QED
    BY <1>3, <1>4, <1>5, <1>6, <1>7, <1>8 DEF Next, SetterStep, Listener!Next

\* It stays so: only activated listeners are stopped, take anything up or exit.
LEMMA InactiveAlwaysWaits == Spec => []InactiveWaits
<1>1. Init => InactiveWaits
    BY DEF Init, InactiveWaits
<1>2. IInv /\ InactiveWaits /\ [Next]_vars => InactiveWaits'
    <2> SUFFICES ASSUME IInv, InactiveWaits, [Next]_vars, NEW l \in Listeners
                 PROVE  ~active'[l] => ~stopped'[l] /\ dispatcher'[l] \in {"none", "wait"}
        BY DEF InactiveWaits
    <2>1. ~active[l] => ~stopped[l] /\ dispatcher[l] \in {"none", "wait"}
        BY DEF InactiveWaits
    <2>2. Listener(l)!Next \/ UNCHANGED <<active[l], stopped[l], ThreadOf(l)>>
        BY StepOfListener
    <2>3. CASE Listener(l)!Next
        BY <2>1, <2>3 DEF Listener!Next, Listener!Start, Listener!Activate, Listener!Stop,
                          Listener!Take, Listener!Finish, Listener!Exit, ThreadOf
    <2> QED
        BY <2>1, <2>2, <2>3 DEF ThreadOf
<1> QED
    BY <1>1, <1>2, Invariance, PTL DEF Spec

\* What serialSetEventCallback does to a listener, and what it takes its
\* thread to do, is what ListenerThread says.
THEOREM ListenersKeepPromise ==
    ASSUME NEW l \in Listeners
    PROVE  Spec => Listener(l)!Spec
<1>1. Init => Listener(l)!Init
    BY DEF Init, ThreadOf, Listener!Init
<1>2. IInv /\ InactiveWaits /\ [Next]_vars => [Listener(l)!Next]_(Listener(l)!vars)
    BY StepOfListener DEF Listener!vars
<1> QED
    BY <1>1, <1>2, Invariance, InactiveAlwaysWaits, PTL DEF Spec, Listener!Spec

=============================================================================
