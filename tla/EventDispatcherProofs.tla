------------------------ MODULE EventDispatcherProofs ------------------------
(***************************************************************************)
(* Proofs about EventDispatcher, for any devices, any names and any number *)
(* of arrivals and removals at any moment of the registration.             *)
(***************************************************************************)
EXTENDS EventDispatcher, SequenceTheorems, TLAPS

-----------------------------------------------------------------------------
(* The inductive invariant.                                                *)

\* What the thread and the application can have seen at each phase.
PhaseInv ==
    /\ phase = "unregistered" => pending = << >>
    /\ phase \in {"unregistered", "starting"} => toScan = {} /\ \A d \in Devices : ports[d] = Absent
    /\ phase \in {"started", "installed"} => toScan = {}
    /\ phase \notin {"started", "installed"} =>
        dispatcher = "none" /\ \A d \in Devices : told[d] = Unknown
    /\ phase = "failed" => stopped

InHand == dispatcher = "handle" => notification \in Notification

\* The notifications that have yet to act on the map.
backlog == IF dispatcher = "handle" THEN <<notification>> \o pending ELSE pending

\* Only devices that have changed are ever queued.
QueuedChanged == \A i \in DOMAIN backlog : backlog[i].path \in changed

\* What the application knows of a device is what the map says of it.
ToldIsMapped == \A d \in Devices : told[d] \in {Unknown, ports[d]}

About(q, d) == {i \in DOMAIN q : q[i].path = d}

\* Between two arrivals of a device there is a removal.
Alternates(q, d) ==
    \A i, j \in About(q, d) :
        i < j /\ q[j].event = "kAttached" =>
            q[i].event = "kDetached" \/ \E k \in About(q, d) : i < k /\ k < j

\* The last notification about a device tells whether it is there.
LastIsTrue(q, d, name) ==
    \A i \in About(q, d) :
        (\A j \in About(q, d) : j <= i) => (q[i].event = "kAttached" <=> name # Absent)

\* An arrival that is alone will find no older name in the map.
LoneArrivalFits(q, d, name, mapped) ==
    \A i \in About(q, d) :
        About(q, d) = {i} /\ q[i].event = "kAttached" => mapped \in {Absent, name}

\* Without a notification the map has what it may have for good.
SilentFits(q, d, mapped, allowed) == About(q, d) = {} => mapped \in allowed

\* Queue and map together miss nothing of a device that has this name now,
\* that name in the map, and those that the map may have for good.
NothingMissed(q, d, name, mapped, allowed) ==
    /\ Alternates(q, d) /\ LastIsTrue(q, d, name)
    /\ LoneArrivalFits(q, d, name, mapped) /\ SilentFits(q, d, mapped, allowed)

Scanned(d) == phase \notin {"unregistered", "starting"} /\ d \notin toScan

\* Nothing is right for a listed device that has gone: its removal is queued.
Allowed(d) ==
    IF d \in toScan /\ present[d] = Absent THEN {}
    ELSE IF ~Scanned(d) THEN {Absent}
    ELSE IF d \in unnamed THEN {Absent, present[d]} ELSE {present[d]}

MapInv ==
    phase # "unregistered" /\ ~stopped /\ ~lost =>
        \A d \in Devices : NothingMissed(backlog, d, present[d], ports[d], Allowed(d))

IInv ==
    TypeOK /\ PhaseInv /\ InHand /\ QueuedChanged /\ ToldIsMapped /\ ExistingPortsSilent /\ MapInv

-----------------------------------------------------------------------------
(* Types.                                                                  *)

\* Arrivals and removals.
LEMMA DeviceType == TypeOK /\ DeviceNext => TypeOK'
<1> SUFFICES ASSUME TypeOK, NEW d \in Devices, NEW name \in Names \cup {Absent},
                    NEW event \in PortEvent, Change(d, name, event)
             PROVE  TypeOK'
    BY DEF DeviceNext, Arrive, Leave, PortEvent
<1>1. present' \in [Devices -> Names \cup {Absent}]
    BY DEF TypeOK, Change
<1>2. changes' \in 0..MaxChanges
    BY NamesAssumption DEF TypeOK, Change
<1>3. UNCHANGED <<setterVars, active, stopped, ports, dispatcher, notification, told, unnamed>>
    BY DEF Change
<1>4. pending' \in Seq(Notification)
    <2> DEFINE n == [event |-> event, path |-> d]
    <2>1. n \in Notification
        BY DEF Notification
    <2>2. pending' = pending \/ pending' = Append(pending, n)
        BY DEF Change, Enqueue
    <2>3. pending \in Seq(Notification)
        BY DEF TypeOK
    <2> HIDE DEF n
    <2> QED
        BY <2>1, <2>2, <2>3, AppendProperties
<1>5. changed' \subseteq Devices
    BY DEF TypeOK, Change
<1>6. lost' = lost \/ lost' = TRUE
    BY DEF Change, Enqueue
<1>7. queueFailed' = queueFailed \/ queueFailed' = TRUE
    BY DEF Change, Enqueue
<1>8. lost' \in BOOLEAN /\ queueFailed' \in BOOLEAN
    BY <1>6, <1>7 DEF TypeOK
<1> QED
    BY <1>1, <1>2, <1>3, <1>4, <1>5, <1>8 DEF TypeOK, setterVars

\* The thread of the application.
LEMMA SetterType == TypeOK /\ (SetterNext \/ Stop) => TypeOK'
<1> SUFFICES ASSUME TypeOK, SetterNext \/ Stop
             PROVE  TypeOK'
    OBVIOUS
<1> USE DEF TypeOK, Phase, DispatcherState, deviceVars, setterVars, flagVars
<1>1. CASE Register
    BY <1>1 DEF Register
<1>2. CASE ListInterfaces
    BY <1>2 DEF ListInterfaces
<1>3. ASSUME NEW d \in Devices, Scan(d)
      PROVE  TypeOK'
    BY <1>3 DEF Scan, PortNames
<1>4. CASE RegistrationFails
    BY <1>4 DEF RegistrationFails
<1>5. CASE StartThread
    BY <1>5 DEF StartThread
<1>6. CASE Install
    BY <1>6 DEF Install
<1>7. CASE Stop
    BY <1>7 DEF Stop
<1> QED
    BY <1>1, <1>2, <1>3, <1>4, <1>5, <1>6, <1>7 DEF SetterNext

\* The dispatcher thread.
LEMMA DispatcherType == TypeOK /\ InHand /\ DispatcherNext => TypeOK'
<1> SUFFICES ASSUME TypeOK, InHand, DispatcherNext
             PROVE  TypeOK'
    OBVIOUS
<1> USE DEF TypeOK, DispatcherState, Continue, deviceVars, setterVars
<1>1. CASE Exit
    BY <1>1 DEF Exit
<1>2. CASE ReportQueueFailure
    BY <1>2 DEF ReportQueueFailure
<1>3. CASE Take
    BY <1>3, HeadTailProperties DEF Take
<1>4. CASE HandleKnown
    BY <1>4 DEF HandleKnown, Done
<1>5. CASE HandleAttached
    BY <1>5 DEF HandleAttached, PortNames, Done, Handling, InHand, Notification
<1>6. CASE HandleUnnamed
    BY <1>6 DEF HandleUnnamed, Done, Handling, InHand, Notification
<1>7. CASE HandleDetached
    BY <1>7 DEF HandleDetached, Done, Handling, InHand, Notification
<1>8. CASE CallbackEnds("wait") \/ CallbackEnds("error")
    BY <1>8 DEF CallbackEnds
<1>9. CASE ErrorReported
    BY <1>9 DEF ErrorReported
<1> QED
    BY <1>1, <1>2, <1>3, <1>4, <1>5, <1>6, <1>7, <1>8, <1>9 DEF DispatcherNext

-----------------------------------------------------------------------------
(* Phases, and what the application has been told.                         *)

\* Devices change under any phase, and disturb only the queue.
LEMMA DevicePhase == TypeOK /\ PhaseInv /\ InHand /\ ToldIsMapped /\ DeviceNext
                        => PhaseInv' /\ InHand' /\ ToldIsMapped'
<1> SUFFICES ASSUME TypeOK, PhaseInv, InHand, ToldIsMapped, NEW d \in Devices, NEW name,
                    NEW event, Change(d, name, event)
             PROVE  PhaseInv' /\ InHand' /\ ToldIsMapped'
    BY DEF DeviceNext, Arrive, Leave
<1>1. UNCHANGED <<setterVars, active, stopped, ports, dispatcher, notification, told, unnamed>>
    BY DEF Change
<1>2. phase = "unregistered" => pending' = pending
    BY DEF Change, Registered
<1> QED
    BY <1>1, <1>2 DEF PhaseInv, InHand, ToldIsMapped, setterVars

\* serialSetEventCallback goes from one phase to the next; nothing is told
\* before the thread runs.
LEMMA SetterPhase == TypeOK /\ PhaseInv /\ InHand /\ ToldIsMapped /\ (SetterNext \/ Stop)
                        => PhaseInv' /\ InHand' /\ ToldIsMapped'
<1> SUFFICES ASSUME TypeOK, PhaseInv, InHand, ToldIsMapped, SetterNext \/ Stop
             PROVE  PhaseInv' /\ InHand' /\ ToldIsMapped'
    OBVIOUS
<1> USE DEF PhaseInv, InHand, ToldIsMapped, deviceVars, setterVars, flagVars
<1>1. CASE Register
    BY <1>1 DEF Register
<1>2. CASE ListInterfaces
    BY <1>2 DEF ListInterfaces
<1>3. ASSUME NEW d \in Devices, Scan(d)
      PROVE  PhaseInv' /\ InHand' /\ ToldIsMapped'
    BY <1>3 DEF Scan, TypeOK
<1>4. CASE RegistrationFails
    BY <1>4 DEF RegistrationFails
<1>5. CASE StartThread
    BY <1>5 DEF StartThread
<1>6. CASE Install
    BY <1>6 DEF Install
<1>7. CASE Stop
    BY <1>7 DEF Stop
<1> QED
    BY <1>1, <1>2, <1>3, <1>4, <1>5, <1>6, <1>7 DEF SetterNext

\* The dispatcher thread tells the application what it puts into the map.
LEMMA DispatcherPhase == TypeOK /\ PhaseInv /\ InHand /\ ToldIsMapped /\ DispatcherNext
                            => PhaseInv' /\ InHand' /\ ToldIsMapped'
<1> SUFFICES ASSUME TypeOK, PhaseInv, InHand, ToldIsMapped, DispatcherNext
             PROVE  PhaseInv' /\ InHand' /\ ToldIsMapped'
    OBVIOUS
<1>1. phase \in {"started", "installed"} /\ toScan = {} /\ UNCHANGED <<setterVars, stopped>>
    BY DEF PhaseInv, TypeOK, Phase, DispatcherNext, Exit, ReportQueueFailure, Take, HandleKnown,
           HandleAttached, HandleUnnamed, HandleDetached, CallbackEnds, ErrorReported, Handling,
           Continue
<1>2. PhaseInv'
    BY <1>1 DEF PhaseInv, setterVars
<1>3. InHand' /\ ToldIsMapped'
    <2>1. CASE Exit \/ ReportQueueFailure \/ CallbackEnds("wait") \/ CallbackEnds("error")
                \/ ErrorReported
        BY <2>1 DEF Exit, ReportQueueFailure, CallbackEnds, ErrorReported, Continue, InHand,
                    ToldIsMapped
    <2>2. CASE Take
        BY <2>2, HeadTailProperties DEF Take, InHand, ToldIsMapped, TypeOK
    <2>3. CASE HandleKnown
        BY <2>3 DEF HandleKnown, Continue, InHand, ToldIsMapped
    <2>4. CASE HandleAttached
        BY <2>4 DEF HandleAttached, Handling, Continue, InHand, ToldIsMapped, TypeOK, Notification
    <2>5. CASE HandleUnnamed
        BY <2>5 DEF HandleUnnamed, Continue, InHand, ToldIsMapped
    <2>6. CASE HandleDetached
        BY <2>6 DEF HandleDetached, Handling, Continue, InHand, ToldIsMapped, TypeOK, Notification
    <2> QED
        BY <2>1, <2>2, <2>3, <2>4, <2>5, <2>6 DEF DispatcherNext
<1> QED
    BY <1>2, <1>3

-----------------------------------------------------------------------------
(* The backlog.                                                            *)

\* The backlog is a queue of notifications.
LEMMA BacklogType == TypeOK /\ InHand => backlog \in Seq(Notification)
<1> SUFFICES ASSUME TypeOK, InHand
             PROVE  backlog \in Seq(Notification)
    OBVIOUS
<1>1. CASE dispatcher = "handle"
    <2>1. <<notification>> \in Seq(Notification)
        BY <1>1 DEF InHand
    <2> QED
        BY <1>1, <2>1, ConcatProperties DEF backlog, TypeOK
<1>2. CASE dispatcher # "handle"
    BY <1>2 DEF backlog, TypeOK
<1> QED
    BY <1>1, <1>2

\* A notification that is queued comes last in the backlog.
LEMMA BacklogGrows ==
    ASSUME TypeOK, InHand, NEW n \in Notification, pending' = Append(pending, n),
           UNCHANGED <<dispatcher, notification>>
    PROVE  backlog' = Append(backlog, n)
<1>1. CASE dispatcher = "handle"
    <2>1. <<notification>> \in Seq(Notification) /\ pending \in Seq(Notification)
        BY <1>1 DEF InHand, TypeOK
    <2>2. <<notification>> \o Append(pending, n) = Append(<<notification>> \o pending, n)
        BY <2>1, SMT
    <2> QED
        BY <1>1, <2>2 DEF backlog
<1>2. CASE dispatcher # "handle"
    BY <1>2 DEF backlog
<1> QED
    BY <1>1, <1>2

\* Taking a notification into the hand leaves the backlog as it is.
LEMMA BacklogTaken == TypeOK /\ Take => backlog' = backlog
<1> SUFFICES ASSUME TypeOK, Take
             PROVE  backlog' = backlog
    OBVIOUS
<1>1. pending \in Seq(Notification) /\ pending # << >>
    BY DEF TypeOK, Take
<1>2. <<Head(pending)>> \o Tail(pending) = pending
    BY <1>1, SMT
<1> QED
    BY <1>2 DEF backlog, Take, Continue

\* A notification that has been handled leaves the backlog at its front.
LEMMA BacklogShrinks ==
    ASSUME TypeOK, InHand, dispatcher = "handle", dispatcher' # "handle", pending' = pending
    PROVE  /\ backlog # << >>
           /\ backlog[1] = notification
           /\ backlog' = Tail(backlog)
<1>1. notification \in Notification /\ pending \in Seq(Notification)
    BY DEF InHand, TypeOK
<1>2. backlog = <<notification>> \o pending
    BY DEF backlog
<1>3. /\ <<notification>> \o pending # << >>
      /\ (<<notification>> \o pending)[1] = notification
      /\ Tail(<<notification>> \o pending) = pending
    BY <1>1, SMT
<1> QED
    BY <1>2, <1>3 DEF backlog

-----------------------------------------------------------------------------
(* Queues of notifications.                                                *)

\* r has what q has about d, and n behind it if that is about d too.
Extends(r, q, n, d) ==
    LET last == Len(q) + 1
    IN  /\ last \in Nat
        /\ \A i \in About(q, d) : i \in Nat /\ i < last /\ r[i] = q[i]
        /\ r[last] = n
        /\ n.path = d => About(r, d) = About(q, d) \cup {last}
        /\ n.path # d => About(r, d) = About(q, d)

\* What is appended to a queue comes behind everything in it.
LEMMA AboutAppend ==
    ASSUME NEW q \in Seq(Notification), NEW n \in Notification, NEW d
    PROVE  Extends(Append(q, n), q, n, d)
<1> DEFINE r == Append(q, n)
           last == Len(q) + 1
<1>1. /\ r \in Seq(Notification)
      /\ Len(r) = Len(q) + 1
      /\ \A i \in 1..Len(q) : r[i] = q[i]
      /\ r[last] = n
    BY AppendProperties
<1>2. last = Len(q) + 1 /\ Len(q) \in Nat /\ DOMAIN q = 1..Len(q)
    BY LenProperties
<1> HIDE DEF r, last
<1>3. DOMAIN r = 1..(Len(q) + 1)
    BY <1>1, LenProperties
<1>4. DOMAIN r = DOMAIN q \cup {last}
    BY <1>2, <1>3
<1>5. \A i \in DOMAIN q : r[i] = q[i] /\ i \in Nat /\ i < last
    BY <1>1, <1>2
<1>6. last \in Nat /\ \A i \in About(q, d) : i \in Nat /\ i < last /\ r[i] = q[i]
    BY <1>2, <1>5 DEF About
<1>7. n.path = d => About(r, d) = About(q, d) \cup {last}
    BY <1>1, <1>4, <1>5 DEF About
<1>8. n.path # d => About(r, d) = About(q, d)
    BY <1>1, <1>4, <1>5 DEF About
<1>9. Extends(r, q, n, d)
    BY <1>1, <1>2, <1>6, <1>7, <1>8 DEF Extends
<1> QED
    BY <1>9 DEF r

\* The rest of a queue is the queue one place on.
LEMMA AboutTail ==
    ASSUME NEW q \in Seq(Notification), q # << >>, NEW d
    PROVE  /\ 1 \in DOMAIN q
           /\ \A i \in About(q, d) : i \in Nat \ {0}
           /\ \A i \in About(Tail(q), d) :
                i \in Nat \ {0} /\ i + 1 \in About(q, d) /\ Tail(q)[i] = q[i + 1]
           /\ \A i \in About(q, d) \ {1} : i - 1 \in About(Tail(q), d)
<1>1. /\ Tail(q) \in Seq(Notification)
      /\ Len(Tail(q)) = Len(q) - 1
      /\ \A i \in 1..Len(Tail(q)) : Tail(q)[i] = q[i + 1]
    BY HeadTailProperties
<1>2. DOMAIN q = 1..Len(q) /\ Len(q) \in Nat \ {0} /\ DOMAIN Tail(q) = 1..(Len(q) - 1)
    BY <1>1, LenProperties, EmptySeq
<1> QED
    BY <1>1, <1>2 DEF About

\* A notification about another device changes nothing for this one.
LEMMA OtherQueued ==
    ASSUME NEW q \in Seq(Notification), NEW n \in Notification, NEW d, n.path # d,
           NEW name, NEW mapped, NEW allowed, NothingMissed(q, d, name, mapped, allowed)
    PROVE  NothingMissed(Append(q, n), d, name, mapped, allowed)
<1> DEFINE r == Append(q, n)
<1>0. Extends(r, q, n, d)
    BY AboutAppend
<1> HIDE DEF r
<1>1. About(r, d) = About(q, d) /\ \A i \in About(q, d) : r[i] = q[i]
    BY <1>0 DEF Extends
<1>2. Alternates(r, d)
    BY <1>1 DEF NothingMissed, Alternates
<1>3. LastIsTrue(r, d, name)
    BY <1>1 DEF NothingMissed, LastIsTrue
<1>4. LoneArrivalFits(r, d, name, mapped)
    BY <1>1 DEF NothingMissed, LoneArrivalFits
<1>5. SilentFits(r, d, mapped, allowed)
    BY <1>1 DEF NothingMissed, SilentFits
<1> QED
    BY <1>2, <1>3, <1>4, <1>5 DEF NothingMissed, r

\* A device that was not there arrives: the last notification before was a
\* removal, or there was none and the map has nothing.
LEMMA ArrivalQueued ==
    ASSUME NEW q \in Seq(Notification), NEW n \in Notification, n.event = "kAttached",
           NEW mapped, NEW allowed, allowed \subseteq {Absent},
           NothingMissed(q, n.path, Absent, mapped, allowed),
           NEW name, name # Absent, NEW later
    PROVE  NothingMissed(Append(q, n), n.path, name, mapped, later)
<1> DEFINE r == Append(q, n)
           d == n.path
           last == Len(q) + 1
<1>0. d = n.path /\ last = Len(q) + 1 /\ Extends(r, q, n, d)
    BY AboutAppend
<1> HIDE DEF r, d, last
<1>1. /\ \A i \in About(q, d) : i \in Nat /\ i < last /\ r[i] = q[i]
      /\ r[last] = n
      /\ About(r, d) = About(q, d) \cup {last}
      /\ last \in Nat
    BY <1>0 DEF Extends
<1>2. /\ Alternates(q, d) /\ LastIsTrue(q, d, Absent)
      /\ SilentFits(q, d, mapped, allowed)
    BY <1>0 DEF NothingMissed
<1>3. \A i \in About(q, d) : q[i] \in Notification
    BY LenProperties DEF About
<1>4. Alternates(r, d)
    <2> SUFFICES ASSUME NEW i \in About(r, d), NEW j \in About(r, d), i < j,
                        r[j].event = "kAttached", r[i].event # "kDetached"
                 PROVE  \E k \in About(r, d) : i < k /\ k < j
        BY DEF Alternates
    <2>1. CASE j # last
        BY <1>1, <1>2, <2>1 DEF Alternates
    <2>2. CASE j = last
        <3>1. i \in About(q, d) /\ q[i].event # "kDetached"
            <4>1. i # last
                BY <1>1, <2>2
            <4> QED
                BY <1>1, <4>1
        <3>2. q[i].event = "kAttached"
            BY <1>3, <3>1 DEF Notification, PortEvent
        <3>3. PICK k \in About(q, d) : ~(k <= i)
            BY <1>2, <3>1, <3>2 DEF LastIsTrue
        <3> QED
            BY <1>1, <2>2, <3>1, <3>3
    <2> QED
        BY <2>1, <2>2
<1>5. LastIsTrue(r, d, name)
    BY <1>1 DEF LastIsTrue
<1>6. LoneArrivalFits(r, d, name, mapped)
    <2> SUFFICES ASSUME NEW i \in About(r, d), About(r, d) = {i}
                 PROVE  mapped = Absent
        BY DEF LoneArrivalFits
    <2>1. About(q, d) = {}
        BY <1>1
    <2> QED
        BY <1>2, <2>1 DEF SilentFits
<1>7. SilentFits(r, d, mapped, later)
    BY <1>1 DEF SilentFits
<1> QED
    BY <1>4, <1>5, <1>6, <1>7 DEF NothingMissed, r, d

\* A device is removed.
LEMMA RemovalQueued ==
    ASSUME NEW q \in Seq(Notification), NEW n \in Notification, n.event = "kDetached",
           NEW mapped, NEW allowed, NEW name, NothingMissed(q, n.path, name, mapped, allowed),
           NEW later
    PROVE  NothingMissed(Append(q, n), n.path, Absent, mapped, later)
<1> DEFINE r == Append(q, n)
           d == n.path
           last == Len(q) + 1
<1>0. d = n.path /\ last = Len(q) + 1 /\ Extends(r, q, n, d)
    BY AboutAppend
<1> HIDE DEF r, d, last
<1>1. /\ \A i \in About(q, d) : i \in Nat /\ i < last /\ r[i] = q[i]
      /\ r[last] = n
      /\ About(r, d) = About(q, d) \cup {last}
      /\ last \in Nat
    BY <1>0 DEF Extends
<1>2. Alternates(q, d)
    BY <1>0 DEF NothingMissed
<1>3. Alternates(r, d)
    BY <1>1, <1>2 DEF Alternates
<1>4. LastIsTrue(r, d, Absent)
    BY <1>1 DEF LastIsTrue
<1>5. LoneArrivalFits(r, d, Absent, mapped)
    BY <1>1 DEF LoneArrivalFits
<1>6. SilentFits(r, d, mapped, later)
    BY <1>1 DEF SilentFits
<1> QED
    BY <1>3, <1>4, <1>5, <1>6 DEF NothingMissed, r, d

\* The first notification has been handled.  If it was about another device
\* nothing has changed for this one.  An arrival of a device that is there has
\* left the map with what it may have, a removal with nothing, and an arrival
\* that follows it and is alone then finds nothing.
LEMMA FirstHandled ==
    ASSUME NEW q \in Seq(Notification), q # << >>, NEW d,
           NEW name, NEW mapped, NEW allowed, NothingMissed(q, d, name, mapped, allowed),
           NEW mapped2, NEW allowed2,
           q[1].path # d => mapped2 = mapped /\ allowed2 = allowed,
           q[1].path = d /\ q[1].event = "kAttached" /\ name # Absent =>
                mapped2 \in allowed2 \/ (mapped # Absent /\ mapped2 = mapped),
           q[1].path = d /\ q[1].event = "kDetached" => mapped2 = Absent,
           {name} \subseteq allowed2
    PROVE  NothingMissed(Tail(q), d, name, mapped2, allowed2)
<1> DEFINE r == Tail(q)
<1>1. /\ 1 \in DOMAIN q
      /\ \A i \in About(q, d) : i \in Nat \ {0}
      /\ \A i \in About(r, d) :
            i \in Nat \ {0} /\ i + 1 \in About(q, d) /\ r[i] = q[i + 1]
      /\ \A i \in About(q, d) \ {1} : i - 1 \in About(r, d)
    BY AboutTail
<1>2. /\ Alternates(q, d) /\ LastIsTrue(q, d, name)
      /\ LoneArrivalFits(q, d, name, mapped) /\ SilentFits(q, d, mapped, allowed)
    BY DEF NothingMissed
<1>3. 1 \in About(q, d) <=> q[1].path = d
    BY <1>1 DEF About
<1>4. q[1].event \in PortEvent
    <2>1. q[1] \in Notification
        BY <1>1, LenProperties
    <2> QED
        BY <2>1 DEF Notification
<1> HIDE DEF r
<1>5. Alternates(r, d)
    <2> SUFFICES ASSUME NEW i \in About(r, d), NEW j \in About(r, d), i < j,
                        r[j].event = "kAttached", r[i].event # "kDetached"
                 PROVE  \E k \in About(r, d) : i < k /\ k < j
        BY DEF Alternates
    <2>1. PICK k \in About(q, d) : i + 1 < k /\ k < j + 1
        BY <1>1, <1>2 DEF Alternates
    <2>2. k - 1 \in About(r, d) /\ i < k - 1 /\ k - 1 < j
        BY <1>1, <2>1
    <2> QED
        BY <2>2
<1>6. LastIsTrue(r, d, name)
    <2> SUFFICES ASSUME NEW i \in About(r, d), \A j \in About(r, d) : j <= i
                 PROVE  r[i].event = "kAttached" <=> name # Absent
        BY DEF LastIsTrue
    <2>1. \A j \in About(q, d) : j <= i + 1
        BY <1>1
    <2> QED
        BY <1>1, <1>2, <2>1 DEF LastIsTrue
<1>7. LoneArrivalFits(r, d, name, mapped2)
    <2> SUFFICES ASSUME NEW i \in About(r, d), About(r, d) = {i}, r[i].event = "kAttached"
                 PROVE  mapped2 \in {Absent, name}
        BY DEF LoneArrivalFits
    <2>1. i + 1 \in About(q, d) /\ q[i + 1].event = "kAttached" /\ i \in Nat \ {0}
        BY <1>1
    <2>2. \A j \in About(q, d) : j \in {1, i + 1}
        BY <1>1
    <2>3. CASE q[1].path = d
        <3>1. q[1].event = "kDetached"
            BY <1>1, <1>2, <1>3, <2>1, <2>2, <2>3 DEF Alternates
        <3> QED
            BY <2>3, <3>1
    <2>4. CASE q[1].path # d
        <3>1. About(q, d) = {i + 1}
            BY <1>3, <2>1, <2>2, <2>4
        <3> QED
            BY <1>2, <2>1, <2>4, <3>1 DEF LoneArrivalFits
    <2> QED
        BY <2>3, <2>4
<1>8. SilentFits(r, d, mapped2, allowed2)
    <2> SUFFICES ASSUME About(r, d) = {}
                 PROVE  mapped2 \in allowed2
        BY DEF SilentFits
    <2>1. \A j \in About(q, d) : j = 1
        BY <1>1
    <2>2. CASE q[1].path # d
        BY <1>2, <1>3, <2>1, <2>2 DEF SilentFits
    <2>3. CASE q[1].path = d
        <3>1. About(q, d) = {1}
            BY <1>3, <2>1, <2>3
        <3>2. q[1].event = "kAttached" <=> name # Absent
            BY <1>2, <3>1 DEF LastIsTrue
        <3>3. q[1].event = "kAttached" => mapped \in {Absent, name}
            BY <1>2, <3>1 DEF LoneArrivalFits
        <3> QED
            BY <1>4, <2>3, <3>2, <3>3 DEF PortEvent
    <2> QED
        BY <2>2, <2>3
<1> QED
    BY <1>5, <1>6, <1>7, <1>8 DEF NothingMissed, r

-----------------------------------------------------------------------------
(* Steps.                                                                  *)

Lasting == MapInv /\ QueuedChanged /\ ExistingPortsSilent

\* A change of a device, queued as an arrival or a removal.
LEMMA ChangeKeeps ==
    ASSUME TypeOK, PhaseInv, InHand, Lasting, NEW d \in Devices,
           NEW name \in Names \cup {Absent}, NEW event \in PortEvent, Change(d, name, event),
           \/ event = "kAttached" /\ present[d] = Absent /\ name # Absent
           \/ event = "kDetached" /\ present[d] # Absent /\ name = Absent
    PROVE  Lasting'
<1> DEFINE n == [event |-> event, path |-> d]
<1>1. n \in Notification /\ n.event = event /\ n.path = d
    BY DEF Notification
<1> HIDE DEF n
<1>2. /\ UNCHANGED <<phase, toScan, stopped, ports, dispatcher, notification, told, unnamed>>
      /\ changed \subseteq changed'
      /\ present' = [present EXCEPT ![d] = name]
    BY DEF Change, setterVars
<1>3. present'[d] = name /\ \A other \in Devices \ {d} : present'[other] = present[other]
    BY <1>2 DEF TypeOK
<1>4. backlog \in Seq(Notification)
    BY BacklogType
<1>5. CASE pending' = pending
    <2>1. backlog' = backlog
        BY <1>2, <1>5 DEF backlog
    <2>2. phase \in {"unregistered", "failed"} \/ stopped \/ lost'
        <3>1. pending # Append(pending, n)
            BY <1>1 DEF TypeOK
        <3> QED
            BY <1>5, <3>1 DEF Change, Enqueue, Registered, n
    <2>3. MapInv'
        BY <1>2, <2>2 DEF MapInv, PhaseInv
    <2> QED
        BY <1>2, <2>1, <2>3 DEF Lasting, QueuedChanged, ExistingPortsSilent
<1>6. CASE pending' # pending
    <2>1. pending' = Append(pending, n) /\ UNCHANGED lost /\ d \in changed'
        BY <1>6 DEF Change, Enqueue, n
    <2>2. backlog' = Append(backlog, n)
        BY <1>1, <1>2, <2>1, BacklogGrows
    <2>3. QueuedChanged'
        <3> SUFFICES ASSUME NEW i \in DOMAIN Append(backlog, n)
                     PROVE  Append(backlog, n)[i].path \in changed'
            BY <2>2 DEF QueuedChanged
        <3>1. CASE i \in 1..Len(backlog)
            BY <1>1, <1>2, <1>4, <3>1, AppendProperties, LenProperties DEF Lasting, QueuedChanged
        <3>2. CASE i = Len(backlog) + 1
            BY <1>1, <1>4, <2>1, <3>2, AppendProperties
        <3>3. i \in 1..(Len(backlog) + 1)
            BY <1>1, <1>4, AppendProperties, LenProperties
        <3> QED
            BY <1>4, <3>1, <3>2, <3>3, LenProperties
    <2>4. ExistingPortsSilent'
        BY <1>2 DEF Lasting, ExistingPortsSilent
    <2>5. MapInv'
        <3> SUFFICES ASSUME phase # "unregistered", ~stopped, ~lost, NEW x \in Devices
                     PROVE  NothingMissed(Append(backlog, n), x, present'[x], ports[x], Allowed(x)')
            BY <1>2, <2>1, <2>2 DEF MapInv
        <3>1. NothingMissed(backlog, x, present[x], ports[x], Allowed(x))
            BY DEF Lasting, MapInv
        <3>2. CASE x # d
            <4>1. present'[x] = present[x] /\ Allowed(x)' = Allowed(x)
                BY <1>2, <1>3, <3>2 DEF Allowed, Scanned
            <4> QED
                BY <1>1, <1>4, <3>1, <3>2, <4>1, OtherQueued
        <3>3. CASE x = d /\ event = "kAttached"
            <4>1. Allowed(x) \subseteq {Absent}
                BY <3>3 DEF Allowed
            <4> QED
                BY <1>1, <1>3, <1>4, <3>1, <3>3, <4>1, ArrivalQueued
        <3>4. CASE x = d /\ event = "kDetached"
            BY <1>1, <1>3, <1>4, <3>1, <3>4, RemovalQueued
        <3> QED
            BY <3>2, <3>3, <3>4
    <2> QED
        BY <2>3, <2>4, <2>5 DEF Lasting
<1> QED
    BY <1>5, <1>6

\* Arrivals and removals.
LEMMA DeviceKeeps == TypeOK /\ PhaseInv /\ InHand /\ Lasting /\ DeviceNext => Lasting'
<1> SUFFICES ASSUME TypeOK, PhaseInv, InHand, Lasting, NEW d \in Devices,
                    Leave(d) \/ \E name \in Names : Arrive(d, name)
             PROVE  Lasting'
    BY DEF DeviceNext
<1>1. CASE Leave(d)
    BY <1>1, ChangeKeeps DEF Leave, PortEvent
<1>2. ASSUME NEW name \in Names, Arrive(d, name)
      PROVE  Lasting'
    BY <1>2, NamesAssumption, ChangeKeeps DEF Arrive, PortEvent
<1> QED
    BY <1>1, <1>2

\* The snapshot agrees with a queue that began before it.
LEMMA SetterKeeps == TypeOK /\ PhaseInv /\ InHand /\ Lasting /\ (SetterNext \/ Stop) => Lasting'
<1> SUFFICES ASSUME TypeOK, PhaseInv, InHand, Lasting, SetterNext \/ Stop
             PROVE  Lasting'
    OBVIOUS
<1> USE DEF deviceVars, setterVars, flagVars
<1>1. UNCHANGED <<present, changed, pending, notification, told, lost>>
    BY DEF SetterNext, Register, ListInterfaces, Scan, RegistrationFails, StartThread, Install, Stop
<1>2. backlog' = backlog
    BY <1>1 DEF PhaseInv, SetterNext, Register, ListInterfaces, Scan, RegistrationFails,
                StartThread, Install, Stop, backlog
<1>3. QueuedChanged' /\ ExistingPortsSilent'
    BY <1>1, <1>2 DEF Lasting, QueuedChanged, ExistingPortsSilent
<1>4. MapInv'
    <2>1. CASE Register
        <3>1. backlog = << >>
            BY <2>1 DEF Register, PhaseInv, backlog
        <3>2. \A d \in Devices :
                ports'[d] = Absent /\ Allowed(d)' = {Absent} /\ About(backlog, d) = {}
            BY <2>1, <3>1 DEF Register, PhaseInv, Allowed, Scanned, About
        <3>3. ASSUME NEW d \in Devices
              PROVE  NothingMissed(backlog, d, present'[d], ports'[d], Allowed(d)')
            BY <3>2 DEF NothingMissed, Alternates, LastIsTrue, LoneArrivalFits, SilentFits
        <3> QED
            BY <1>2, <3>3 DEF MapInv
    <2>2. CASE ListInterfaces
        <3> SUFFICES ASSUME ~stopped, ~lost, NEW d \in Devices
                     PROVE  NothingMissed(backlog, d, present[d], ports[d], Allowed(d)')
            BY <1>1, <1>2, <2>2 DEF MapInv, ListInterfaces
        <3>1. NothingMissed(backlog, d, present[d], ports[d], Allowed(d))
            BY <2>2 DEF Lasting, MapInv, ListInterfaces
        <3>2. ports[d] = Absent
            BY <2>2 DEF PhaseInv, ListInterfaces
        <3>3. Absent \in Allowed(d)'
            BY <1>1, <2>2 DEF Allowed, Scanned, ListInterfaces
        <3> QED
            BY <3>1, <3>2, <3>3 DEF NothingMissed, SilentFits
    <2>3. ASSUME NEW e \in Devices, Scan(e)
          PROVE  MapInv'
        <3> SUFFICES ASSUME ~stopped, ~lost, NEW d \in Devices
                     PROVE  NothingMissed(backlog, d, present[d], ports'[d], Allowed(d)')
            BY <1>1, <1>2, <2>3 DEF MapInv, Scan
        <3>1. NothingMissed(backlog, d, present[d], ports[d], Allowed(d))
            BY <2>3 DEF Lasting, MapInv, Scan
        <3>2. CASE d # e
            <4>1. ports'[d] = ports[d] /\ Allowed(d)' = Allowed(d)
                BY <1>1, <2>3, <3>2 DEF Scan, TypeOK, Allowed, Scanned
            <4> QED
                BY <3>1, <4>1
        <3>3. CASE d = e
            <4>0. CASE present[d] = Absent
                <5>1. About(backlog, d) # {}
                    BY <2>3, <3>1, <3>3, <4>0 DEF NothingMissed, SilentFits, Allowed, Scan
                <5>2. LoneArrivalFits(backlog, d, present[d], ports'[d])
                    <6>1. \A i \in About(backlog, d) : i <= i
                        BY BacklogType, LenProperties DEF About
                    <6> QED
                        BY <3>1, <4>0, <6>1 DEF NothingMissed, LastIsTrue, LoneArrivalFits
                <5> QED
                    BY <3>1, <5>1, <5>2 DEF NothingMissed, SilentFits
            <4> SUFFICES ASSUME present[d] # Absent
                         PROVE  NothingMissed(backlog, d, present[d], ports'[d], Allowed(d)')
                BY <4>0
            <4>1. ports[d] # ports'[d] => ports'[d] = present[d]
                BY <2>3, <3>3 DEF Scan, PortNames, TypeOK
            <4>2. About(backlog, d) = {} => ports[d] = Absent
                BY <2>3, <3>1, <3>3 DEF NothingMissed, SilentFits, Allowed, Scanned, Scan
            <4>3. /\ present[d] \in Allowed(d)'
                  /\ ports'[d] # present[d] => Absent \in Allowed(d)'
                BY <1>1, <2>3, <3>3 DEF Scan, PortNames, TypeOK, Allowed, Scanned
            <4> QED
                BY <3>1, <4>1, <4>2, <4>3 DEF NothingMissed, LoneArrivalFits, SilentFits
        <3> QED
            BY <3>2, <3>3
    <2>4. CASE RegistrationFails \/ Stop
        BY <2>4 DEF MapInv, RegistrationFails, Stop
    <2>5. CASE StartThread \/ Install
        <3>1. /\ UNCHANGED <<ports, unnamed, toScan, stopped>>
              /\ phase \notin {"unregistered", "starting"}
              /\ phase' \notin {"unregistered", "starting"}
            BY <2>5 DEF StartThread, Install
        <3>2. \A d \in Devices : Allowed(d)' = Allowed(d)
            BY <1>1, <3>1 DEF Allowed, Scanned
        <3> QED
            BY <1>1, <1>2, <3>1, <3>2 DEF Lasting, MapInv
    <2> QED
        BY <2>1, <2>2, <2>3, <2>4, <2>5 DEF SetterNext
<1> QED
    BY <1>3, <1>4 DEF Lasting

\* A handled notification has done to the map what FirstHandled asks for.
LEMMA HandlingKeeps ==
    ASSUME TypeOK, PhaseInv, InHand, Lasting,
           HandleKnown \/ HandleAttached \/ HandleUnnamed \/ HandleDetached
    PROVE  Lasting'
<1> USE DEF deviceVars, setterVars, Continue, Done, Handling
<1> DEFINE d == notification.path
           Handles == HandleKnown \/ HandleAttached \/ HandleUnnamed \/ HandleDetached
<1>1. /\ dispatcher = "handle" /\ dispatcher' # "handle"
      /\ UNCHANGED <<present, changed, phase, toScan, stopped, pending, lost>>
      /\ notification.event \in PortEvent
    BY DEF HandleKnown, HandleAttached, HandleUnnamed, HandleDetached, PortEvent
<1>2. /\ notification \in Notification /\ d \in Devices
    BY <1>1 DEF InHand, Notification
<1>3. /\ backlog # << >> /\ backlog[1] = notification
      /\ backlog' = Tail(backlog) /\ backlog \in Seq(Notification)
    BY <1>1, BacklogShrinks, BacklogType
<1>4. 1 \in DOMAIN backlog /\ Len(backlog) \in Nat \ {0} /\ DOMAIN backlog = 1..Len(backlog)
    BY <1>3, LenProperties, EmptySeq
<1>5. d \in changed
    BY <1>3, <1>4 DEF Lasting, QueuedChanged
<1>6. QueuedChanged'
    <2>1. Tail(backlog) \in Seq(Notification) /\ Len(Tail(backlog)) = Len(backlog) - 1
        BY <1>3, HeadTailProperties
    <2>2. \A i \in 1..Len(Tail(backlog)) : Tail(backlog)[i] = backlog[i + 1]
        BY <1>3, HeadTailProperties
    <2>3. DOMAIN Tail(backlog) = 1..(Len(backlog) - 1)
        BY <2>1, LenProperties
    <2> QED
        BY <1>1, <1>3, <1>4, <2>1, <2>2, <2>3 DEF Lasting, QueuedChanged
<1>7. \A e \in Devices \ {d} :
        /\ ports'[e] = ports[e] /\ told'[e] = told[e] /\ (e \in unnamed' <=> e \in unnamed)
    BY <1>2 DEF HandleKnown, HandleAttached, HandleUnnamed, HandleDetached, TypeOK
<1>8. ExistingPortsSilent'
    BY <1>1, <1>5, <1>7 DEF Lasting, ExistingPortsSilent
<1>9. MapInv'
    <2> SUFFICES ASSUME phase # "unregistered", ~stopped, ~lost, NEW e \in Devices
                 PROVE  NothingMissed(Tail(backlog), e, present[e], ports'[e], Allowed(e)')
        BY <1>1, <1>3 DEF MapInv
    <2>1. NothingMissed(backlog, e, present[e], ports[e], Allowed(e))
        BY DEF Lasting, MapInv
    <2>2. Scanned(e) /\ Scanned(e)'
        BY <1>1 DEF PhaseInv, TypeOK, Phase, Scanned
    <2>3. present[e] \in Allowed(e)'
        BY <1>1, <2>2 DEF Allowed, Scanned
    <2>4. e # d => ports'[e] = ports[e] /\ Allowed(e)' = Allowed(e)
        BY <1>1, <1>7, <2>2 DEF Allowed
    <2>5. ASSUME e = d, notification.event = "kAttached", present[e] # Absent
          PROVE  ports'[e] \in Allowed(e)' \/ (ports[e] # Absent /\ ports'[e] = ports[e])
        <3>1. CASE HandleKnown \/ HandleAttached
            BY <1>1, <2>2, <2>3, <2>5, <3>1
               DEF HandleKnown, HandleAttached, PortNames, Allowed, TypeOK
        <3>2. CASE HandleUnnamed
            BY <1>1, <2>2, <2>5, <3>2 DEF HandleUnnamed, Allowed, TypeOK
        <3>3. CASE HandleDetached
            BY <2>5, <3>3 DEF HandleDetached
        <3> QED
            BY <3>1, <3>2, <3>3
    <2>6. ASSUME e = d, notification.event = "kDetached"
          PROVE  ports'[e] = Absent
        BY <2>6 DEF HandleKnown, HandleAttached, HandleUnnamed, HandleDetached, TypeOK
    <2> QED
        BY <1>3, <2>1, <2>3, <2>4, <2>5, <2>6, FirstHandled
<1> QED
    BY <1>6, <1>8, <1>9 DEF Lasting

\* The dispatcher thread.
LEMMA DispatcherKeeps == TypeOK /\ PhaseInv /\ InHand /\ Lasting /\ DispatcherNext => Lasting'
<1> SUFFICES ASSUME TypeOK, PhaseInv, InHand, Lasting, DispatcherNext
             PROVE  Lasting'
    OBVIOUS
<1>1. CASE HandleKnown \/ HandleAttached \/ HandleUnnamed \/ HandleDetached
    BY <1>1, HandlingKeeps
<1>2. CASE Exit \/ ReportQueueFailure \/ Take \/ CallbackEnds("wait") \/ CallbackEnds("error")
           \/ ErrorReported
    <2>1. UNCHANGED <<present, changed, phase, toScan, stopped, ports, told, unnamed, lost>>
        BY <1>2 DEF Exit, ReportQueueFailure, Take, CallbackEnds, ErrorReported, Continue,
                    deviceVars, setterVars
    <2>2. backlog' = backlog
        <3>1. CASE Take
            BY <3>1, BacklogTaken
        <3>2. CASE ~Take
            BY <1>2, <3>2 DEF Exit, ReportQueueFailure, CallbackEnds, ErrorReported, Continue,
                              backlog
        <3> QED
            BY <3>1, <3>2
    <2>3. \A d \in Devices : Allowed(d)' = Allowed(d)
        BY <2>1 DEF Allowed, Scanned
    <2> QED
        BY <2>1, <2>2, <2>3 DEF Lasting, MapInv, QueuedChanged, ExistingPortsSilent
<1> QED
    BY <1>1, <1>2 DEF DispatcherNext

-----------------------------------------------------------------------------
(* Theorems.                                                               *)

\* A listener begins with empty hands.
LEMMA InitIInv == Init => IInv
<1> SUFFICES ASSUME Init
             PROVE  IInv
    OBVIOUS
<1>1. TypeOK
    <2>1. ports \in [Devices -> Names \cup {Absent}]
        BY DEF Init
    <2>2. told \in [Devices -> Names \cup {Absent, Unknown}]
        BY DEF Init
    <2>3. changes \in 0..MaxChanges
        BY NamesAssumption DEF Init
    <2>4. pending \in Seq(Notification)
        BY EmptySeq DEF Init
    <2>5. {queueFailed, active, stopped} \subseteq BOOLEAN /\ lost \in BOOLEAN
        BY DEF Init
    <2> QED
        BY <2>1, <2>2, <2>3, <2>4, <2>5 DEF Init, TypeOK, Phase, DispatcherState
<1>2. backlog = << >>
    BY DEF Init, backlog
<1>3. PhaseInv /\ InHand /\ ToldIsMapped
    BY DEF Init, PhaseInv, InHand, ToldIsMapped
<1>4. QueuedChanged
    BY <1>2 DEF QueuedChanged
<1>5. ExistingPortsSilent /\ MapInv
    BY DEF Init, ExistingPortsSilent, MapInv
<1> QED
    BY <1>1, <1>3, <1>4, <1>5 DEF IInv

\* Every step keeps the invariant.
LEMMA StepIInv == IInv /\ [Next]_vars => IInv'
<1> SUFFICES ASSUME IInv, [Next]_vars
             PROVE  IInv'
    OBVIOUS
<1>1. /\ TypeOK /\ PhaseInv /\ InHand /\ ToldIsMapped /\ Lasting
    BY DEF IInv, Lasting
<1>2. CASE DeviceNext
    BY <1>1, <1>2, DeviceType, DevicePhase, DeviceKeeps DEF IInv, Lasting
<1>3. CASE SetterNext \/ Stop
    BY <1>1, <1>3, SetterType, SetterPhase, SetterKeeps DEF IInv, Lasting
<1>4. CASE DispatcherNext
    BY <1>1, <1>4, DispatcherType, DispatcherPhase, DispatcherKeeps DEF IInv, Lasting
<1>5. CASE UNCHANGED vars
    <2>1. backlog' = backlog
        BY <1>5 DEF vars, deviceVars, setterVars, flagVars, backlog
    <2>2. \A d \in Devices : Allowed(d)' = Allowed(d)
        BY <1>5 DEF vars, deviceVars, setterVars, flagVars, Allowed, Scanned
    <2>3. TypeOK' /\ PhaseInv' /\ InHand' /\ ToldIsMapped'
        BY <1>1, <1>5 DEF vars, deviceVars, setterVars, flagVars, TypeOK, PhaseInv, InHand,
                          ToldIsMapped
    <2>4. Lasting'
        BY <1>1, <1>5, <2>1, <2>2 DEF vars, deviceVars, setterVars, flagVars, Lasting, MapInv,
                                      QueuedChanged, ExistingPortsSilent
    <2> QED
        BY <2>3, <2>4 DEF IInv, Lasting
<1> QED
    BY <1>2, <1>3, <1>4, <1>5 DEF Next

\* The invariant holds of a listener for all its life.
LEMMA InvariantAlways == Spec => []IInv
<1> QED
    BY InitIInv, StepIInv, PTL DEF Spec

\* Every state of the listener is of the types the model says.
THEOREM TypeCorrect == Spec => []TypeOK
<1>1. IInv => TypeOK
    BY DEF IInv
<1> QED
    BY <1>1, InvariantAlways, PTL

\* Registration, snapshot and queue together miss nothing.
THEOREM MapIsRight == Spec => []SettledMapIsRight
<1>1. IInv => SettledMapIsRight
    <2> SUFFICES ASSUME IInv, Settled, ~lost, NEW d \in Devices
                 PROVE  ports[d] = present[d] \/ (d \in unnamed /\ ports[d] = Absent)
        BY DEF SettledMapIsRight, MapFollows
    <2>1. phase \in {"started", "installed"} /\ toScan = {}
        BY DEF IInv, PhaseInv, Settled, DispatcherState
    <2>2. backlog = << >>
        BY DEF Settled, backlog
    <2>3. About(backlog, d) = {}
        BY <2>2 DEF About
    <2>4. ports[d] \in Allowed(d)
        BY <2>1, <2>3 DEF IInv, MapInv, Settled, NothingMissed, SilentFits
    <2> QED
        BY <2>1, <2>4 DEF Allowed, Scanned
<1> QED
    BY <1>1, InvariantAlways, PTL

\* A port that was there when the registration began is not reported.
THEOREM ExistingSilent == Spec => []ExistingPortsSilent
<1>1. IInv => ExistingPortsSilent
    BY DEF IInv
<1> QED
    BY <1>1, InvariantAlways, PTL

\* A callback begins only by handling a notification that is news.
LEMMA CallbackStep == IInv /\ [Next]_vars => CallbackIsNewsStep
<1> SUFFICES ASSUME IInv, Next, dispatcher # "callback", dispatcher' = "callback"
             PROVE  CallbackIsNewsStep
    BY DEF CallbackIsNewsStep, vars
<1>1. TypeOK /\ InHand /\ ToldIsMapped /\ PhaseInv
    BY DEF IInv
<1>2. HandleAttached \/ HandleDetached
    <2>1. ~DeviceNext
        BY DEF DeviceNext, Arrive, Leave, Change
    <2>2. ~(SetterNext \/ Stop)
        BY DEF SetterNext, Register, ListInterfaces, Scan, RegistrationFails, StartThread, Install,
               Stop
    <2>3. DispatcherNext
        BY <2>1, <2>2 DEF Next
    <2> QED
        BY <2>3 DEF DispatcherNext, Exit, ReportQueueFailure, Take, HandleKnown, HandleUnnamed,
                    CallbackEnds, ErrorReported, Continue
<1>3. notification \in Notification
    BY <1>1, <1>2 DEF HandleAttached, HandleDetached, Handling, InHand
<1> DEFINE d == notification.path
<1>4. d \in Devices /\ told[d] \in {Unknown, ports[d]}
    BY <1>1, <1>3 DEF Notification, ToldIsMapped
<1>5. CASE HandleAttached
    <2>1. told[d] \in {Absent, Unknown}
        BY <1>4, <1>5 DEF HandleAttached
    <2>2. told'[d] \in Names
        BY <1>1, <1>4, <1>5 DEF HandleAttached, PortNames, TypeOK
    <2>3. notification.event = "kAttached"
        BY <1>5 DEF HandleAttached, Handling
    <2> QED
        BY <2>1, <2>2, <2>3 DEF CallbackIsNewsStep
<1>6. CASE HandleDetached
    <2>1. told[d] # Absent
        BY <1>4, <1>6, NamesAssumption DEF HandleDetached
    <2>2. told'[d] = Absent /\ ports'[d] = Absent
        BY <1>1, <1>4, <1>6 DEF HandleDetached, TypeOK
    <2>3. notification.event = "kDetached"
        BY <1>6 DEF HandleDetached, Handling
    <2> QED
        BY <1>4, <2>1, <2>2, <2>3 DEF CallbackIsNewsStep
<1> QED
    BY <1>2, <1>5, <1>6

\* Every callback is news to the application.
THEOREM CallbacksAreNews == Spec => CallbackIsNews
<1> QED
    BY InvariantAlways, CallbackStep, PTL DEF Spec, CallbackIsNews

-----------------------------------------------------------------------------
(* The promise of the thread.                                              *)

\* A listener as serialSetEventCallback sees it: one whose registration
\* failed has no thread to stop.
Listener == INSTANCE ListenerThread WITH
    stopped <- stopped /\ phase # "failed",
    thread <- IF dispatcher \in {"handle", "callback", "error"} THEN "pass" ELSE dispatcher

\* How far the registration is, the flags and the thread go together.
LifeInv ==
    /\ active \in BOOLEAN /\ stopped \in BOOLEAN
    /\ active <=> phase = "installed"
    /\ stopped => phase \in {"installed", "failed"}
    /\ phase = "failed" => stopped
    /\ phase = "started" => dispatcher = "wait"
    /\ phase \notin {"started", "installed"} => dispatcher = "none"

\* They do so in every phase.
LEMMA LifeAlways == Spec => []LifeInv
<1>1. Init => LifeInv
    BY DEF Init, LifeInv
<1>2. LifeInv /\ [Next]_vars => LifeInv'
    <2> SUFFICES ASSUME LifeInv, [Next]_vars
                 PROVE  LifeInv'
        OBVIOUS
    <2>1. CASE DeviceNext
        BY <2>1 DEF LifeInv, DeviceNext, Arrive, Leave, Change, setterVars
    <2>2. CASE SetterNext \/ Stop
        <3>1. CASE Register \/ ListInterfaces \/ \E d \in Devices : Scan(d)
            BY <3>1 DEF LifeInv, Register, ListInterfaces, Scan, flagVars
        <3>2. CASE RegistrationFails
            BY <3>2 DEF LifeInv, RegistrationFails
        <3>3. CASE StartThread
            BY <3>3 DEF LifeInv, StartThread, flagVars
        <3>4. CASE Install \/ Stop
            BY <3>4 DEF LifeInv, Install, Stop, setterVars
        <3> QED
            BY <2>2, <3>1, <3>2, <3>3, <3>4 DEF SetterNext
    <2>3. CASE DispatcherNext
        BY <2>3 DEF LifeInv, DispatcherNext, Exit, ReportQueueFailure, Take, HandleKnown,
                    HandleAttached, HandleUnnamed, HandleDetached, CallbackEnds,
                    ErrorReported, Handling, Continue, setterVars
    <2>4. CASE UNCHANGED vars
        BY <2>4 DEF LifeInv, vars, setterVars, flagVars
    <2> QED
        BY <2>1, <2>2, <2>3, <2>4 DEF Next
<1> QED
    BY <1>1, <1>2, PTL DEF Spec

\* One step, seen by serialSetEventCallback: what the dispatcher does with a
\* notification between taking it and waiting again is one pass.
LEMMA StepOfListener == LifeInv /\ [Next]_vars => [Listener!Next]_(Listener!vars)
<1> SUFFICES ASSUME LifeInv, [Next]_vars
             PROVE  Listener!Next \/ UNCHANGED Listener!vars
    OBVIOUS
<1>1. CASE DeviceNext \/ Register \/ ListInterfaces \/ \E d \in Devices : Scan(d)
    <2>1. /\ UNCHANGED <<active, stopped, dispatcher>>
          /\ phase = "failed" <=> phase' = "failed"
        BY <1>1 DEF DeviceNext, Arrive, Leave, Change, Register, ListInterfaces, Scan,
                    flagVars, setterVars
    <2> QED
        BY <2>1 DEF Listener!vars
<1>2. CASE RegistrationFails
    BY <1>2 DEF RegistrationFails, LifeInv, Listener!vars
<1>3. CASE StartThread
    <2>1. Listener!Start
        BY <1>3 DEF StartThread, LifeInv, Listener!Start, flagVars
    <2> QED
        BY <2>1 DEF Listener!Next
<1>4. CASE Install
    <2>1. Listener!Activate
        BY <1>4 DEF Install, LifeInv, Listener!Activate
    <2> QED
        BY <2>1 DEF Listener!Next
<1>5. CASE Stop
    <2>1. Listener!Stop
        BY <1>5 DEF Stop, LifeInv, Listener!Stop, setterVars
    <2> QED
        BY <2>1 DEF Listener!Next
<1>6. CASE DispatcherNext
    <2> /\ UNCHANGED <<active, stopped, phase>>
        BY <1>6 DEF DispatcherNext, Exit, ReportQueueFailure, Take, HandleKnown,
                    HandleAttached, HandleUnnamed, HandleDetached, CallbackEnds,
                    ErrorReported, Continue, setterVars
    <2>1. CASE Take \/ ReportQueueFailure
        <3>1. Listener!Take
            BY <2>1 DEF Take, ReportQueueFailure, Continue, LifeInv, Listener!Take
        <3> QED
            BY <3>1 DEF Listener!Next
    <2>2. CASE Exit
        <3>1. Listener!Exit
            BY <2>2 DEF Exit, Continue, LifeInv, Listener!Exit
        <3> QED
            BY <3>1 DEF Listener!Next
    <2>3. CASE HandleKnown \/ CallbackEnds("wait") \/ ErrorReported
        <3>1. Listener!Finish
            BY <2>3 DEF HandleKnown, CallbackEnds, ErrorReported, Handling, Continue,
                        Listener!Finish
        <3> QED
            BY <3>1 DEF Listener!Next
    <2>4. CASE HandleAttached \/ HandleUnnamed \/ HandleDetached \/ CallbackEnds("error")
        BY <2>4 DEF HandleAttached, HandleUnnamed, HandleDetached, CallbackEnds, Handling,
                    Continue, Listener!vars
    <2> QED
        BY <1>6, <2>1, <2>2, <2>3, <2>4 DEF DispatcherNext
<1>7. CASE UNCHANGED vars
    BY <1>7 DEF vars, flagVars, setterVars, Listener!vars
<1> QED
    BY <1>1, <1>2, <1>3, <1>4, <1>5, <1>6, <1>7 DEF Next, SetterNext

\* The thread that run() makes keeps the promise of ListenerThread, on which
\* EventRegistration relies: it takes something up only while active and not
\* stopped, and exits only from its wait.
THEOREM ListenerKeepsPromise == Spec => Listener!Spec
<1>1. Init => Listener!Init
    BY DEF Init, Listener!Init
<1> QED
    BY <1>1, LifeAlways, StepOfListener, PTL DEF Spec, Listener!Spec

=============================================================================
