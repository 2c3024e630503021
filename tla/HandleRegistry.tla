--------------------------- MODULE HandleRegistry ---------------------------
(***************************************************************************)
(* g_handle_states: the map from handle values to shared HandleStates, and *)
(* the calls that open, use and close ports around it.  Windows hands out  *)
(* the value of a closed handle again, so a value stands for one opening   *)
(* after another, and a state must not outlive the opening it is for.      *)
(*                                                                         *)
(* A HandleState is its number in the order of creation.  What a call      *)
(* leaves in a state, an abort flag or a share of the byte totals, is a    *)
(* mark with the opening the call was for.  Calls that Windows refuses     *)
(* before the map is touched, such as CloseHandle of a value that is not   *)
(* open, are not steps.                                                    *)
(***************************************************************************)
EXTENDS Naturals, Sequences

CONSTANTS
    Threads,    \* threads of the application
    Handles,    \* handle values
    NoHandle,   \* a thread outside all calls has none
    MaxOpens    \* bound: how often CreateFileW succeeds

ASSUME OpensAssumption == MaxOpens \in Nat /\ NoHandle \notin Handles

VARIABLES
    opened,     \* how many openings there have been
    win,        \* the opening that Windows has behind each value, NoOpening if none
    returned,   \* openings whose value serialOpen has registered and returned
    registry,   \* g_handle_states: the state of each value, NoState if none
    marks,      \* by state: the openings whose calls left something in it
    at,         \* where each thread is
    value,      \* the handle value its call is about
    mine,       \* the opening its call is for
    ctx,        \* HandleContext::state, shared for the length of the call
    crossed,    \* history: openings that got their value during its serialClose
    stray       \* history: values used when the port was closed or another's

vars == <<opened, win, returned, registry, marks, at, value, mine, ctx, crossed, stray>>

NoOpening == 0
NoState == 0

Openings == 1..MaxOpens

TypeOK ==
    /\ opened \in 0..MaxOpens
    /\ win \in [Handles -> 0..opened]
    /\ returned \subseteq 1..opened
    /\ marks \in Seq(SUBSET (0..opened))
    /\ registry \in [Handles -> 0..Len(marks)]
    /\ at \in [Threads -> {"idle", "configure", "erase", "call"}]
    /\ value \in [Threads -> Handles \cup {NoHandle}]
    /\ mine \in [Threads -> 0..opened]
    /\ ctx \in [Threads -> 0..Len(marks)]
    /\ crossed \subseteq 1..opened
    /\ stray \subseteq Handles

Init ==
    /\ opened = 0
    /\ win = [h \in Handles |-> NoOpening]
    /\ returned = {}
    /\ registry = [h \in Handles |-> NoState]
    /\ marks = << >>
    /\ at = [t \in Threads |-> "idle"]
    /\ value = [t \in Threads |-> NoHandle]
    /\ mine = [t \in Threads |-> NoOpening]
    /\ ctx = [t \in Threads |-> NoState]
    /\ crossed = {} /\ stray = {}

\* The value is the handle of a port that is open and known as such.
Usable(h) == win[h] \in returned

Goes(t, where, h, opening, state) ==
    /\ at' = [at EXCEPT ![t] = where]
    /\ value' = [value EXCEPT ![t] = h]
    /\ mine' = [mine EXCEPT ![t] = opening]
    /\ ctx' = [ctx EXCEPT ![t] = state]

Returns(t) == Goes(t, "idle", NoHandle, NoOpening, NoState)

\* Mutant: the entry is made, the state is not.
EnsureHandleEntry(h) ==
    /\ registry' = [registry EXCEPT ![h] = IF @ = NoState THEN Len(marks) + 1 ELSE @]
    /\ UNCHANGED marks

\* ensureHandleState, under g_handle_states_mutex: the state the value has
\* already, or a new one.
EnsureHandleState(h) ==
    IF registry[h] = NoState
    THEN /\ registry' = [registry EXCEPT ![h] = Len(marks) + 1]
         /\ marks' = Append(marks, {})
    ELSE UNCHANGED <<registry, marks>>

-----------------------------------------------------------------------------
(* serialOpen.                                                             *)

\* CreateFileW gives a value that no open handle has.
CreateFile(t, h) ==
    /\ at[t] = "idle"
    /\ opened < MaxOpens
    /\ win[h] = NoOpening
    /\ opened' = opened + 1
    /\ win' = [win EXCEPT ![h] = opened']
    /\ crossed' = IF \E o \in Threads : at[o] = "erase" /\ value[o] = h
                  THEN crossed \cup {opened'} ELSE crossed
    /\ Goes(t, "configure", h, opened', NoState)
    /\ UNCHANGED <<returned, registry, marks, stray>>

\* Mutant: what fails has been registered before.
OpenFailsRegistered(t) ==
    /\ at[t] = "configure"
    /\ win' = [win EXCEPT ![value[t]] = NoOpening]
    /\ EnsureHandleState(value[t])
    /\ Returns(t)
    /\ UNCHANGED <<opened, returned, crossed, stray>>

\* applyLineSettings fails; UniqueHandle closes what the value stands for,
\* another's port if its own has been closed under it.
OpenFails(t) ==
    /\ at[t] = "configure"
    /\ win' = [win EXCEPT ![value[t]] = NoOpening]
    /\ stray' = IF win[value[t]] \in {mine[t], NoOpening} THEN stray ELSE stray \cup {value[t]}
    /\ Returns(t)
    /\ UNCHANGED <<opened, returned, registry, marks, crossed>>

\* registerOpenedHandle; the value goes to the application, whatever it
\* stands for by now.
Register(t) ==
    /\ at[t] = "configure"
    /\ EnsureHandleState(value[t])
    /\ returned' = returned \cup {mine[t]}
    /\ stray' = IF win[value[t]] = mine[t] THEN stray ELSE stray \cup {value[t]}
    /\ Returns(t)
    /\ UNCHANGED <<opened, win, crossed>>

-----------------------------------------------------------------------------
(* serialClose: CloseHandle, then the entry.                               *)

\* The value need not have been returned: an application that closes it a
\* second time may close what another thread's serialOpen has just got.
CloseHandle(t, h) ==
    /\ at[t] = "idle"
    /\ win[h] # NoOpening
    /\ win' = [win EXCEPT ![h] = NoOpening]
    /\ Goes(t, "erase", h, win[h], NoState)
    /\ UNCHANGED <<opened, returned, registry, marks, crossed, stray>>

\* Mutant: a state that a call still uses is left in the map.
RemoveHandleStateUnused(t) ==
    /\ at[t] = "erase"
    /\ registry' = [registry EXCEPT ![value[t]] =
                     IF \E o \in Threads : ctx[o] = @ THEN @ ELSE NoState]
    /\ stray' = stray \ {value[t]}
    /\ Returns(t)
    /\ UNCHANGED <<opened, win, returned, marks, crossed>>

\* removeHandleState, under the mutex, of whatever the value has by now.
RemoveHandleState(t) ==
    /\ at[t] = "erase"
    /\ registry' = [registry EXCEPT ![value[t]] = NoState]
    /\ stray' = stray \ {value[t]}
    /\ Returns(t)
    /\ UNCHANGED <<opened, win, returned, marks, crossed>>

-----------------------------------------------------------------------------
(* The calls that use the state: reading, writing, aborting, clearing,     *)
(* draining and the byte counts.  Those that only set or get a setting of  *)
(* the line do not come here.                                              *)

\* Any positive value passes validateWin32Handle and gets a state.
AcquireHandleContext(t, h) ==
    /\ at[t] = "idle"
    /\ EnsureHandleState(h)
    /\ stray' = IF Usable(h) THEN stray ELSE stray \cup {h}
    /\ Goes(t, "call", h, IF Usable(h) THEN win[h] ELSE NoOpening, registry'[h])
    /\ UNCHANGED <<opened, win, returned, crossed>>

\* An abort is requested, or bytes are counted.
CallMarks(t) ==
    /\ at[t] = "call"
    /\ marks' = [marks EXCEPT ![ctx[t]] = @ \cup {mine[t]}]
    /\ Returns(t)
    /\ UNCHANGED <<opened, win, returned, registry, crossed, stray>>

\* A query, an I/O without a byte, an error.
CallReturns(t) ==
    /\ at[t] = "call"
    /\ Returns(t)
    /\ UNCHANGED <<opened, win, returned, registry, marks, crossed, stray>>

-----------------------------------------------------------------------------
Next ==
    \E t \in Threads :
        \/ \E h \in Handles : CreateFile(t, h) \/ CloseHandle(t, h) \/ AcquireHandleContext(t, h)
        \/ OpenFails(t) \/ Register(t) \/ RemoveHandleState(t)
        \/ CallMarks(t) \/ CallReturns(t)

Spec == Init /\ [][Next]_vars

-----------------------------------------------------------------------------
(* Properties.                                                             *)

\* An opening that the map has served well so far: serialOpen did not cross
\* a serialClose of the same value on another thread, nobody has used the
\* value while it was closed, and no serialOpen has gone on with it after its
\* own port was closed.
Undisturbed(h) == Usable(h) /\ win[h] \notin crossed /\ h \notin stray

\* An opening has one state and has it to itself: it starts without the
\* abort flags and totals of earlier openings of its value, no call of theirs
\* that is still in progress leaves anything in it, and all of its own calls
\* meet in it, so that an abort finds the read it is for.
StateIsOwn ==
    \A h \in Handles : Undisturbed(h) =>
        /\ registry[h] # NoState
        /\ marks[registry[h]] \subseteq {win[h]}
        /\ \A t \in Threads : at[t] = "call" =>
            (mine[t] = win[h] <=> ctx[t] = registry[h])

\* The map does not grow with ports that are closed or failed to open: an
\* entry belongs to an open port, to a close in progress, or to a value that
\* was used, or returned by serialOpen, without being open.
EntriesHaveOwners ==
    \A h \in Handles : registry[h] # NoState =>
        \/ Usable(h)
        \/ \E t \in Threads : at[t] = "erase" /\ value[t] = h
        \/ h \in stray

=============================================================================
