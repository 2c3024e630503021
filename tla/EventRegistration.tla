-------------------------- MODULE EventRegistration --------------------------
(***************************************************************************)
(* serialSetEventCallback called by several threads at once, the callbacks *)
(* of the registrations among them: the one g_event_listener, the exchange *)
(* of listeners under g_event_listener_mutex, and ~EventListener, which    *)
(* joins the dispatcher of the old listener or, called from that very      *)
(* dispatcher, detaches it.                                                *)
(*                                                                         *)
(* A listener's dispatcher thread bears the name of the listener.  Of what *)
(* EventDispatcher has in detail there remain the three stretches of a     *)
(* pass of run: under the lock, behind the unlock, in application code.    *)
(* There is always a notification that might be in the queue.  A           *)
(* registration that fails changes nothing here, its listener having no    *)
(* thread yet.                                                             *)
(***************************************************************************)
EXTENDS Naturals

CONSTANTS
    Threads,        \* the application's threads
    Listeners,      \* one for each registration
    NoListener      \* nullptr

ASSUME ActorsAssumption ==
    /\ Threads \cap Listeners = {}
    /\ NoListener \notin Threads \cup Listeners

VARIABLES
    installed,      \* g_event_listener
    active, stopped,    \* flags of each listener's state
    dispatcher,     \* what each listener's thread is doing
    detached,       \* listeners whose thread was detached
    at,             \* where each thread is in serialSetEventCallback
    replacement, previous,  \* its local variables
    installations,  \* history: how many listeners have been installed
    generation,     \* history: when each listener was installed, 0 for never
    late            \* history: listeners with a callback begun when not installed

listenerVars == <<active, stopped, dispatcher, detached>>
callVars == <<at, replacement, previous>>
historyVars == <<installations, generation, late>>
vars == <<installed, listenerVars, callVars, historyVars>>

Actors == Threads \cup Listeners

\* "handle" from the unlock of run on, with a notification or a queue
\* failure in hand; "callback" in the application's callback or, after an
\* error, its error callback.
Dispatcher == {"none", "wait", "handle", "callback", "exited"}

\* "exchange" with a replacement made, "destroy" in ~EventListener of the
\* previous one, "join" in its thread.join().
At == {"outside", "exchange", "destroy", "join"}

TypeOK ==
    /\ installed \in Listeners \cup {NoListener}
    /\ active \in [Listeners -> BOOLEAN]
    /\ stopped \in [Listeners -> BOOLEAN]
    /\ dispatcher \in [Listeners -> Dispatcher]
    /\ detached \in SUBSET Listeners
    /\ at \in [Actors -> At]
    /\ replacement \in [Actors -> Listeners \cup {NoListener}]
    /\ previous \in [Actors -> Listeners \cup {NoListener}]
    /\ installations \in Nat
    /\ generation \in [Listeners -> Nat]
    /\ late \subseteq Listeners

Init ==
    /\ installed = NoListener
    /\ active = [l \in Listeners |-> FALSE]
    /\ stopped = [l \in Listeners |-> FALSE]
    /\ dispatcher = [l \in Listeners |-> "none"]
    /\ detached = {}
    /\ at = [a \in Actors |-> "outside"]
    /\ replacement = [a \in Actors |-> NoListener]
    /\ previous = [a \in Actors |-> NoListener]
    /\ installations = 0
    /\ generation = [l \in Listeners |-> 0]
    /\ late = {}

-----------------------------------------------------------------------------
(* serialSetEventCallback.                                                 *)

\* An application thread, or a dispatcher in a callback, may make the call.
MayCall(a) == at[a] = "outside" /\ (a \in Listeners => dispatcher[a] = "callback")

\* A callback was given: a listener with a running thread, not yet active.
Prepare(a, l) ==
    /\ MayCall(a)
    /\ dispatcher[l] = "none"
    /\ dispatcher' = [dispatcher EXCEPT ![l] = "wait"]
    /\ replacement' = [replacement EXCEPT ![a] = l]
    /\ at' = [at EXCEPT ![a] = "exchange"]
    /\ UNCHANGED <<installed, active, stopped, detached, previous, historyVars>>

\* nullptr was given: the registration is cleared.
PrepareNothing(a) ==
    /\ MayCall(a)
    /\ at' = [at EXCEPT ![a] = "exchange"]
    /\ UNCHANGED <<installed, listenerVars, replacement, previous, historyVars>>

\* History: a new listener gets the next generation.
Stamp(new) ==
    IF new = NoListener THEN UNCHANGED <<installations, generation>>
    ELSE /\ installations' = installations + 1
         /\ generation' = [generation EXCEPT ![new] = installations + 1]

\* Mutant: the old listener is stopped only when it is destroyed.
ExchangeWithoutStop(a) ==
    LET old == installed
        new == replacement[a]
    IN  /\ at[a] = "exchange"
        /\ installed' = new
        /\ previous' = [previous EXCEPT ![a] = old]
        /\ replacement' = [replacement EXCEPT ![a] = NoListener]
        /\ stopped' = stopped
        /\ active' = [l \in Listeners |-> active[l] \/ l = new]
        /\ Stamp(new)
        /\ at' = [at EXCEPT ![a] = "destroy"]
        /\ UNCHANGED <<dispatcher, detached, late>>

\* Mutant: activate() is called without asking for a new listener.
ExchangeUnchecked(a) ==
    LET old == installed
        new == replacement[a]
    IN  /\ at[a] = "exchange"
        /\ installed' = new
        /\ previous' = [previous EXCEPT ![a] = old]
        /\ replacement' = [replacement EXCEPT ![a] = NoListener]
        /\ stopped' = [l \in Listeners |-> stopped[l] \/ l = old]
        /\ active' = [l \in Listeners \cup {new} |-> l = new \/ active[l]]
        /\ Stamp(new)
        /\ at' = [at EXCEPT ![a] = "destroy"]
        /\ UNCHANGED <<dispatcher, detached, late>>

\* Mutant: the old listener is stopped and then forgotten.
ExchangeForgetting(a) ==
    LET old == installed
        new == replacement[a]
    IN  /\ at[a] = "exchange"
        /\ installed' = new
        /\ previous' = [previous EXCEPT ![a] = NoListener]
        /\ replacement' = [replacement EXCEPT ![a] = NoListener]
        /\ stopped' = [l \in Listeners |-> stopped[l] \/ l = old]
        /\ active' = [l \in Listeners |-> active[l] \/ l = new]
        /\ Stamp(new)
        /\ at' = [at EXCEPT ![a] = "destroy"]
        /\ UNCHANGED <<dispatcher, detached, late>>

\* The locked section: the old listener is stopped and the new one becomes
\* the active registration in one step.
Exchange(a) ==
    LET old == installed
        new == replacement[a]
    IN  /\ at[a] = "exchange"
        /\ installed' = new
        /\ previous' = [previous EXCEPT ![a] = old]
        /\ replacement' = [replacement EXCEPT ![a] = NoListener]
        /\ stopped' = [l \in Listeners |-> stopped[l] \/ l = old]
        /\ active' = [l \in Listeners |-> active[l] \/ l = new]
        /\ Stamp(new)
        /\ at' = [at EXCEPT ![a] = "destroy"]
        /\ UNCHANGED <<dispatcher, detached, late>>

Return(a) ==
    /\ at' = [at EXCEPT ![a] = "outside"]
    /\ previous' = [previous EXCEPT ![a] = NoListener]

\* previous.reset() with nothing to destroy.
DestroyNothing(a) ==
    /\ at[a] = "destroy" /\ previous[a] = NoListener
    /\ Return(a)
    /\ UNCHANGED <<installed, listenerVars, replacement, historyVars>>

\* Mutant: a dispatcher is detached whoever destroys its listener.
DetachAny(a) ==
    /\ at[a] = "destroy" /\ previous[a] # NoListener
    /\ stopped' = [stopped EXCEPT ![previous[a]] = TRUE]
    /\ detached' = detached \cup {previous[a]}
    /\ Return(a)
    /\ UNCHANGED <<installed, active, dispatcher, replacement, historyVars>>

\* ~EventListener on the dispatcher itself.
DetachSelf(a) ==
    /\ at[a] = "destroy" /\ previous[a] = a
    /\ stopped' = [stopped EXCEPT ![a] = TRUE]
    /\ detached' = detached \cup {a}
    /\ Return(a)
    /\ UNCHANGED <<installed, active, dispatcher, replacement, historyVars>>

\* Mutant: a dispatcher that destroys its own listener joins itself.
BeginJoinSelf(a) ==
    /\ at[a] = "destroy" /\ previous[a] # NoListener
    /\ stopped' = [stopped EXCEPT ![previous[a]] = TRUE]
    /\ at' = [at EXCEPT ![a] = "join"]
    /\ UNCHANGED <<installed, active, dispatcher, detached, replacement, previous, historyVars>>

\* ~EventListener on any other thread.
BeginJoin(a) ==
    /\ at[a] = "destroy" /\ previous[a] \notin {a, NoListener}
    /\ stopped' = [stopped EXCEPT ![previous[a]] = TRUE]
    /\ at' = [at EXCEPT ![a] = "join"]
    /\ UNCHANGED <<installed, active, dispatcher, detached, replacement, previous, historyVars>>

Joined(a) ==
    /\ at[a] = "join" /\ dispatcher[previous[a]] = "exited"
    /\ Return(a)
    /\ UNCHANGED <<installed, listenerVars, replacement, historyVars>>

-----------------------------------------------------------------------------
(* The dispatcher of each listener.                                        *)

\* One pass of run takes something to do and gives up the lock.
Take(l) ==
    /\ dispatcher[l] = "wait" /\ active[l] /\ ~stopped[l]
    /\ dispatcher' = [dispatcher EXCEPT ![l] = "handle"]
    /\ UNCHANGED <<installed, active, stopped, detached, callVars, historyVars>>

\* Only now does it call the application, stopped or replaced meanwhile or
\* not.
Deliver(l) ==
    /\ dispatcher[l] = "handle"
    /\ dispatcher' = [dispatcher EXCEPT ![l] = "callback"]
    /\ late' = IF installed = l THEN late ELSE late \cup {l}
    /\ UNCHANGED <<installed, active, stopped, detached, callVars, installations, generation>>

\* What it took is no news, and the application is not called.
Skip(l) ==
    /\ dispatcher[l] = "handle"
    /\ dispatcher' = [dispatcher EXCEPT ![l] = "wait"]
    /\ UNCHANGED <<installed, active, stopped, detached, callVars, historyVars>>

CallbackReturns(l) ==
    /\ dispatcher[l] = "callback" /\ at[l] = "outside"
    /\ dispatcher' = [dispatcher EXCEPT ![l] = "wait"]
    /\ UNCHANGED <<installed, active, stopped, detached, callVars, historyVars>>

Exit(l) ==
    /\ dispatcher[l] = "wait" /\ stopped[l]
    /\ dispatcher' = [dispatcher EXCEPT ![l] = "exited"]
    /\ UNCHANGED <<installed, active, stopped, detached, callVars, historyVars>>

-----------------------------------------------------------------------------
SetterStep(a) ==
    Exchange(a) \/ DestroyNothing(a) \/ DetachSelf(a) \/ BeginJoin(a) \/ Joined(a)

Next ==
    \/ \E a \in Actors :
        \/ \E l \in Listeners : Prepare(a, l)
        \/ PrepareNothing(a)
        \/ SetterStep(a)
    \/ \E l \in Listeners :
        Take(l) \/ Deliver(l) \/ Skip(l) \/ CallbackReturns(l) \/ Exit(l)

Spec == Init /\ [][Next]_vars

\* Threads run and every callback of the application returns in the end,
\* however often it calls serialSetEventCallback on the way.
FairSpec ==
    /\ Spec
    /\ \A a \in Actors : WF_vars(SetterStep(a))
    /\ \A l \in Listeners :
        /\ WF_vars(Exit(l)) /\ WF_vars(Deliver(l) \/ Skip(l))
        /\ SF_vars(CallbackReturns(l))

-----------------------------------------------------------------------------
(* Properties.                                                             *)

DeliversInTurnStep ==
    \A l \in Listeners :
        dispatcher[l] # "callback" /\ dispatcher'[l] = "callback" =>
            \/ installed = l
            \/ l \notin late /\ \E a \in Actors : previous[a] = l

\* A callback begins for the listener that is installed, whichever threads
\* exchange listeners, with one exception: what a dispatcher had taken from
\* its queue when its listener was replaced or cleared is still delivered,
\* perhaps beside the next listener's callbacks.  That happens once at most
\* for each listener, and not after the call that took it away has returned.
DeliversInTurn == [][DeliversInTurnStep]_vars

ReplacedIsSilentStep ==
    \A a \in Actors :
        at[a] # "outside" /\ at'[a] = "outside" =>
            previous[a] \in {a, NoListener} \/ dispatcher[previous[a]] = "exited"

\* When serialSetEventCallback returns, the registration it took away runs
\* no callback and never will, unless it is the caller's own.
ReplacedIsSilent == [][ReplacedIsSilentStep]_vars

Running(l) == dispatcher[l] \in {"wait", "handle", "callback"}

\* No dispatcher is left behind: a running one belongs to the installed
\* listener, to one call that will install or has yet to destroy it, or is
\* detached in a callback of its own after a stop.
RunningIsOwned ==
    \A l \in Listeners : Running(l) =>
        \/ installed = l
        \/ \E a \in Actors : replacement[a] = l \/ previous[a] = l
        \/ l \in detached /\ stopped[l]

\* Callbacks that replace each other's registrations cannot wait for each
\* other in a circle: a dispatcher only ever joins a listener installed
\* after its own.
JoinsGoForward ==
    \A l \in Listeners : at[l] = "join" => generation[previous[l]] > generation[l]

\* serialSetEventCallback returns, on any thread, callbacks included.
SetReturns == \A a \in Actors : at[a] # "outside" ~> at[a] = "outside"

=============================================================================
