--------------------------- MODULE EventDispatcher ---------------------------
(***************************************************************************)
(* The life of one EventListener of serialSetEventCallback: registration   *)
(* with Plug and Play, the snapshot of the ports that exist, the queue and *)
(* flags of EventListenerState, and its dispatcher thread, while devices   *)
(* come and go at any moment.                                              *)
(*                                                                         *)
(* A device stands for its interface path.  A change of a device and the   *)
(* native callback it causes are one step: Plug and Play reports changes   *)
(* in order, so a report under way is as good as one in the queue.  The    *)
(* mutex of EventListenerState makes each of its functions, and each pass  *)
(* of run up to the unlock, one step.                                      *)
(***************************************************************************)
EXTENDS Naturals, Sequences

CONSTANTS
    Devices,
    Names,          \* COM names a device may get each time it arrives
    Absent,         \* no name: the device is not there, or not in the map
    Unknown,        \* the application has heard nothing of the device
    NoNotification, \* the dispatcher has no notification in hand
    MaxChanges      \* bound: arrivals and removals during the registration

ASSUME NamesAssumption ==
    /\ Absent \notin Names /\ Unknown \notin Names /\ Absent # Unknown
    /\ MaxChanges \in Nat

VARIABLES
    present,        \* the name each device has now
    changes,        \* how many changes there have been
    phase,          \* how far serialSetEventCallback has got
    toScan,         \* interfaces of the list that existingPorts has yet to name
    ports,          \* the port map
    pending,        \* the queue of notifications
    queueFailed, active, stopped,
    dispatcher,     \* what the dispatcher thread is doing
    notification,   \* the notification it has taken from the queue
    told,           \* history: the latest callback about each device
    changed,        \* history: devices that changed since the registration
    unnamed,        \* history: present devices that could not be named
    lost            \* history: a notification could not be queued

setterVars == <<phase, toScan>>
flagVars == <<queueFailed, active, stopped>>
deviceVars == <<present, changes, changed>>
vars == <<deviceVars, setterVars, flagVars, ports, pending, dispatcher, notification,
          told, unnamed, lost>>

PortEvent == {"kAttached", "kDetached"}

Notification == [event : PortEvent, path : Devices]

\* "starting" is between CM_Register_Notification and the device list,
\* "scanning" in the loop of existingPorts, "started" once the dispatcher
\* thread runs, "installed" from activate() on.
Phase == {"unregistered", "starting", "scanning", "started", "installed", "failed"}

\* "none" before the thread, "wait" in wakeup_.wait, "handle" with a
\* notification in hand; "callback" and "error" on the way into and in the
\* callbacks of the application.
DispatcherState == {"none", "wait", "handle", "callback", "error", "exited"}

TypeOK ==
    /\ present \in [Devices -> Names \cup {Absent}]
    /\ changes \in 0..MaxChanges
    /\ phase \in Phase
    /\ toScan \subseteq Devices
    /\ ports \in [Devices -> Names \cup {Absent}]
    /\ pending \in Seq(Notification)
    /\ {queueFailed, active, stopped} \subseteq BOOLEAN
    /\ dispatcher \in DispatcherState
    /\ notification \in Notification \cup {NoNotification}
    /\ told \in [Devices -> Names \cup {Absent, Unknown}]
    /\ changed \subseteq Devices
    /\ unnamed \subseteq Devices
    /\ lost \in BOOLEAN

Init ==
    /\ present \in [Devices -> Names \cup {Absent}]
    /\ changes = 0
    /\ phase = "unregistered" /\ toScan = {}
    /\ ports = [d \in Devices |-> Absent]
    /\ pending = << >>
    /\ queueFailed = FALSE /\ active = FALSE /\ stopped = FALSE
    /\ dispatcher = "none" /\ notification = NoNotification
    /\ told = [d \in Devices |-> Unknown]
    /\ changed = {} /\ unnamed = {} /\ lost = FALSE

-----------------------------------------------------------------------------
(* Devices, and the native callback that reports them once registered.     *)

\* Mutant: the registration follows the snapshot.
RegisteredLate == phase \in {"started", "installed"}

Registered == phase \notin {"unregistered", "failed"}

\* deviceNotification: the path is queued, or an allocation fails and only
\* queue_failed_ remembers that something happened.
Enqueue(event, d) ==
    \/ /\ pending' = IF stopped THEN pending
                     ELSE Append(pending, [event |-> event, path |-> d])
       /\ UNCHANGED <<queueFailed, lost>>
    \/ /\ queueFailed' = TRUE
       /\ lost' = TRUE
       /\ UNCHANGED pending

Change(d, name, event) ==
    /\ changes < MaxChanges
    /\ changes' = changes + 1
    /\ present' = [present EXCEPT ![d] = name]
    /\ IF Registered
       THEN Enqueue(event, d) /\ changed' = changed \cup {d}
       ELSE UNCHANGED <<pending, queueFailed, lost, changed>>
    /\ UNCHANGED <<setterVars, active, stopped, ports, dispatcher, notification, told,
                   unnamed>>

Arrive(d, name) == present[d] = Absent /\ Change(d, name, "kAttached")

Leave(d) == present[d] # Absent /\ Change(d, Absent, "kDetached")

-----------------------------------------------------------------------------
(* serialSetEventCallback, on the thread of the application.               *)

\* Registration comes first, so that no change is missed while listing.
Register ==
    /\ phase = "unregistered"
    /\ phase' = "starting"
    /\ UNCHANGED <<deviceVars, toScan, flagVars, ports, pending, dispatcher, notification,
                   told, unnamed, lost>>

\* Mutant: a port that is there already is queued as if it had just arrived.
ListInterfacesAsArrivals ==
    /\ phase = "starting"
    /\ phase' = "scanning"
    /\ UNCHANGED toScan
    /\ \E d \in Devices :
        present[d] # Absent /\ pending' = Append(pending, [event |-> "kAttached", path |-> d])
    /\ UNCHANGED <<deviceVars, flagVars, ports, dispatcher, notification,
                   told, unnamed, lost>>

ListInterfaces ==
    /\ phase = "starting"
    /\ phase' = "scanning"
    /\ toScan' = {d \in Devices : present[d] # Absent}
    /\ UNCHANGED <<deviceVars, flagVars, ports, pending, dispatcher, notification,
                   told, unnamed, lost>>

\* What portName may return for an interface: the name the device has or,
\* once it is gone, any name Windows still keeps for it.
PortNames(d) == IF present[d] = Absent THEN Names ELSE {present[d]}

\* Mutant: portName lets an empty name through.
ScanNameless(d) ==
    /\ phase = "scanning"
    /\ d \in toScan
    /\ toScan' = toScan \ {d}
    /\ ports' = [ports EXCEPT ![d] = Unknown]
    /\ UNCHANGED <<deviceVars, phase, flagVars, pending, dispatcher, notification,
                   told, unnamed, lost>>

\* portName of one listed interface.  The error codes of one that has gone,
\* or whose PortName value does not exist, are skipped.
Scan(d) ==
    /\ phase = "scanning"
    /\ d \in toScan
    /\ toScan' = toScan \ {d}
    /\ \/ /\ \E name \in PortNames(d) : ports' = [ports EXCEPT ![d] = name]
          /\ UNCHANGED unnamed
       \/ /\ unnamed' = IF present[d] = Absent THEN unnamed ELSE unnamed \cup {d}
          /\ UNCHANGED ports
    /\ UNCHANGED <<deviceVars, phase, flagVars, pending, dispatcher, notification,
                   told, lost>>

\* An error in registering, listing or creating the thread, or any other in
\* naming, undoes the registration and is returned to the caller.
RegistrationFails ==
    /\ phase \in {"unregistered", "starting", "scanning"}
    /\ phase' = "failed"
    /\ stopped' = TRUE
    /\ UNCHANGED <<deviceVars, toScan, queueFailed, active, ports, pending, dispatcher,
                   notification, told, unnamed, lost>>

StartThread ==
    /\ phase = "scanning" /\ toScan = {}
    /\ phase' = "started"
    /\ dispatcher' = "wait"
    /\ UNCHANGED <<deviceVars, toScan, flagVars, ports, pending, notification, told, unnamed, lost>>

\* Under g_event_listener_mutex: installed and activated.
Install ==
    /\ phase = "started"
    /\ phase' = "installed"
    /\ active' = TRUE
    /\ UNCHANGED <<deviceVars, toScan, queueFailed, stopped, ports, pending, dispatcher,
                   notification, told, unnamed, lost>>

\* A later call replaces or clears this listener.
Stop ==
    /\ phase = "installed" /\ ~stopped
    /\ stopped' = TRUE
    /\ UNCHANGED <<deviceVars, setterVars, queueFailed, active, ports, pending, dispatcher,
                   notification, told, unnamed, lost>>

-----------------------------------------------------------------------------
(* EventListenerState::run.                                                *)

Continue(next) ==
    /\ dispatcher' = next
    /\ UNCHANGED <<deviceVars, setterVars, active, stopped>>

\* Mutant: the predicate of the wait does not look at stopped_.
ExitIfWoken ==
    /\ dispatcher = "wait" /\ stopped
    /\ active /\ (queueFailed \/ pending # << >>)
    /\ Continue("exited")
    /\ UNCHANGED <<queueFailed, ports, pending, notification, told, unnamed, lost>>

Exit ==
    /\ dispatcher = "wait" /\ stopped
    /\ Continue("exited")
    /\ UNCHANGED <<queueFailed, ports, pending, notification, told, unnamed, lost>>

ReportQueueFailure ==
    /\ dispatcher = "wait" /\ ~stopped /\ active /\ queueFailed
    /\ queueFailed' = FALSE
    /\ Continue("error")
    /\ UNCHANGED <<ports, pending, notification, told, unnamed, lost>>

Take ==
    /\ dispatcher = "wait" /\ ~stopped /\ active /\ ~queueFailed /\ pending # << >>
    /\ notification' = Head(pending)
    /\ pending' = Tail(pending)
    /\ Continue("handle")
    /\ UNCHANGED <<queueFailed, ports, told, unnamed, lost>>

Handling(event) == dispatcher = "handle" /\ notification.event = event

Done == notification' = NoNotification /\ UNCHANGED <<queueFailed, pending, lost>>

\* An arrival the map has already, or a removal it has not: no callback.
HandleKnown ==
    /\ \/ Handling("kAttached") /\ ports[notification.path] # Absent
       \/ Handling("kDetached") /\ ports[notification.path] = Absent
    /\ Continue("wait") /\ Done
    /\ UNCHANGED <<ports, told, unnamed>>

\* Mutant: the callback is made whether or not the port is known.
HandleAttachedAgain ==
    /\ Handling("kAttached")
    /\ LET d == notification.path IN
        /\ \E name \in PortNames(d) :
            /\ ports' = [ports EXCEPT ![d] = name]
            /\ told' = [told EXCEPT ![d] = name]
        /\ unnamed' = unnamed \ {d}
    /\ Continue("callback") /\ Done

\* resolve_port finds a name: the one the device has by now, if it is there.
HandleAttached ==
    /\ Handling("kAttached")
    /\ LET d == notification.path IN
        /\ ports[d] = Absent
        /\ \E name \in PortNames(d) :
            /\ ports' = [ports EXCEPT ![d] = name]
            /\ told' = [told EXCEPT ![d] = name]
        /\ unnamed' = unnamed \ {d}
    /\ Continue("callback") /\ Done

\* resolve_port throws: the device has gone again, or Windows cannot name
\* it, and then the error is all that is ever said about it.
HandleUnnamed ==
    /\ Handling("kAttached")
    /\ LET d == notification.path IN
        /\ ports[d] = Absent
        /\ unnamed' = IF present[d] = Absent THEN unnamed ELSE unnamed \cup {d}
    /\ Continue("error") /\ Done
    /\ UNCHANGED <<ports, told>>

\* Mutant: the port stays in the map.
HandleDetachedKeeping ==
    /\ Handling("kDetached")
    /\ ports[notification.path] # Absent
    /\ told' = [told EXCEPT ![notification.path] = Absent]
    /\ Continue("callback") /\ Done
    /\ UNCHANGED <<ports, unnamed>>

\* The callback gets the remembered name.
HandleDetached ==
    /\ Handling("kDetached")
    /\ ports[notification.path] # Absent
    /\ ports' = [ports EXCEPT ![notification.path] = Absent]
    /\ told' = [told EXCEPT ![notification.path] = Absent]
    /\ Continue("callback") /\ Done
    /\ UNCHANGED unnamed

\* The application's callback returns, or throws a std::exception.
CallbackEnds(next) ==
    /\ dispatcher = "callback"
    /\ Continue(next)
    /\ UNCHANGED <<queueFailed, ports, pending, notification, told, unnamed, lost>>

ErrorReported ==
    /\ dispatcher = "error"
    /\ Continue("wait")
    /\ UNCHANGED <<queueFailed, ports, pending, notification, told, unnamed, lost>>

-----------------------------------------------------------------------------
(* The specification.                                                      *)

DeviceNext == \E d \in Devices : Leave(d) \/ \E name \in Names : Arrive(d, name)

SetterNext ==
    \/ Register \/ ListInterfaces \/ (\E d \in Devices : Scan(d))
    \/ RegistrationFails \/ StartThread \/ Install

DispatcherNext ==
    \/ Exit \/ ReportQueueFailure \/ Take
    \/ HandleKnown \/ HandleAttached \/ HandleUnnamed \/ HandleDetached
    \/ CallbackEnds("wait") \/ CallbackEnds("error") \/ ErrorReported

Next == DeviceNext \/ SetterNext \/ Stop \/ DispatcherNext

Spec == Init /\ [][Next]_vars

\* The two threads are scheduled and the callbacks of the application
\* return; devices and later registrations owe nothing.
FairSpec == Spec /\ WF_vars(SetterNext) /\ WF_vars(DispatcherNext)

-----------------------------------------------------------------------------
(* Properties.                                                             *)

Settled == dispatcher = "wait" /\ active /\ ~stopped /\ pending = << >> /\ ~queueFailed

MapFollows ==
    \A d \in Devices : ports[d] = present[d] \/ (d \in unnamed /\ ports[d] = Absent)

\* Registration, snapshot and queue together miss nothing, whatever changes
\* while they are under way: once the queue is empty the map has exactly the
\* devices that are there, under the names they have now, except devices that
\* could not be named and unless a notification could not be queued.
SettledMapIsRight == Settled /\ ~lost => MapFollows

\* A port that was there when the registration began is not reported: what
\* the application is told of has come or gone since.
ExistingPortsSilent == \A d \in Devices : told[d] # Unknown => d \in changed

\* Every callback is news: attached only what was not known to be there, and
\* detached only what was, under the very name it was attached with, even
\* when the device has come back under another.
CallbackIsNewsStep ==
    (dispatcher # "callback" /\ dispatcher' = "callback") =>
        LET d == notification.path IN
            IF notification.event = "kAttached"
            THEN told[d] \in {Absent, Unknown} /\ told'[d] \in Names
            ELSE told[d] # Absent /\ told'[d] = Absent
                 /\ told[d] \in {ports[d], Unknown} /\ ports'[d] = Absent

CallbackIsNews == [][CallbackIsNewsStep]_vars

\* When devices stop changing, an installed listener that is not replaced ends
\* up knowing them, unless a notification could not be queued; and that is
\* then not passed over in silence: the error callback has heard of it.
EventuallyRight ==
    <>[](stopped \/ (phase = "installed" /\ ~queueFailed /\ (lost \/ MapFollows)))

\* The thread of a listener that is stopped exits, so that ~EventListener,
\* which joins it, returns.
StoppedThreadExits == (stopped /\ dispatcher # "none") ~> dispatcher = "exited"

=============================================================================
