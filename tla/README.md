# Formal models of cpp-bindings-windows

The library gives C programs (and, through FFI, other runtimes) serial ports on
Windows: open and configure a port, read and write with timeouts, abort a read or
a write from another thread, list the ports, and be told when a port is attached
or detached. These TLA+ modules model the parts of it that are hard to get right
by testing: threads that cross each other inside one port's state, I/O that the
kernel still owns, bytes that change hands between driver and caller, and devices
that come and go while somebody registers to hear of them. Paths are relative to
the repository root.

| module | what it is |
| --- | --- |
| `PendingIo` | one port's abort flags and pending pointers, every path of `readChunk`/`writeChunk`, `requestAbort`, the kernel |
| `AbortContract` | what a port promises about aborts, abstractly |
| `PendingIoProofs` | TLAPS proofs of the safety properties of `PendingIo` |
| `PendingIoRefinement` | TLAPS proof that `PendingIo` implements `AbortContract` |
| `SerialRead` | the loop of `readImpl` on top of `PendingIo`, with driver queue and device |
| `SerialReadProofs` | TLAPS proofs of the safety properties of `SerialRead` |
| `SerialWrite` | the loop of `writeImpl` on top of `PendingIo`, with chunk timeouts, transmit queue and line |
| `SerialWriteProofs` | TLAPS proofs of the safety properties of `SerialWrite` |
| `HandleRegistry` | `g_handle_states` under opening, closing and use on many threads, with handle values given out again |
| `HandleRegistryProofs` | TLAPS proofs of the safety properties of `HandleRegistry` |
| `LineSettings` | the DCB of one port, its setters and getters on many threads, `serialOpen` over old settings, breaks |
| `LineSettingsProofs` | TLAPS proofs of the safety properties of `LineSettings` |
| `EventDispatcher` | one `EventListener`: registration, snapshot, queue, dispatcher thread, devices |
| `EventDispatcherProofs` | TLAPS proofs of the safety properties of `EventDispatcher` |
| `EventRegistration` | many `serialSetEventCallback` calls at once: exchange, stop, join, detach |
| `EventRegistrationProofs` | TLAPS proofs of the safety properties of `EventRegistration` |
| `ListenerThread` | what a registration and a listener's thread promise each other, abstractly |
| `MC*` | constants and symmetry for TLC |

## 1. The system

### Components, state and operations

**Cancellable I/O** (`src/detail/start_pending_io.hpp`, `finish_pending_io.hpp`,
`wait_for_pending_io.hpp`, `request_abort.hpp`, `read_chunk.hpp`,
`write_chunk.hpp`, `serial_abort_read.cpp`, `serial_abort_write.cpp`).
State: in each `HandleState`, for reading and for writing, an atomic abort flag and
a pointer to the `OVERLAPPED` of the call in progress, both used under
`pending_io_mutex` except for the store that begins an abort. Operations: start an
I/O, wait for it with a timeout, cancel and drain it, finish; request an abort.
Hard: the `OVERLAPPED` lives on a stack; the flag is raised outside the mutex; the
kernel completes, fails or cancels whenever it likes; several callers may share a
side. Correct when nothing dangles, no abort is lost, and an abort decides the call
it meets.

**Read path** (`src/detail/read_impl.hpp`, `matches_suffix.hpp`,
`bytes_waiting.hpp`, `note_bytes_transferred.hpp`, `serial_read*.cpp`). State: a
call's buffer and count; `bytes_read_total`; beside it the driver's queue. It reads
in chunks, as many bytes as are waiting or one, one at a time up to a terminator.
Hard: the queue changes between `ClearCommError` and `ReadFile`; a timeout races
with completion; a call can end after some chunks. Correct when bytes are delivered
in order and once, within the buffer, up to the first match, and every call ends.

**Write path** (`src/detail/write_impl.hpp`, `write_chunk.hpp`,
`multiplier_timeout.hpp`, `serial_wait_for_drain.cpp`,
`serial_clear_buffer_out.cpp`). State: a call's count and its chunk's timeout;
`bytes_written_total`; beside it the driver's transmit queue. One `WriteFile` for all
that is left; chunks after the first get a multiple of the timeout. Hard: a timeout
after part of a chunk went out; a driver that ends chunks short, each of which then
waits anew; a line that stops. Correct when the counts let an application go on
without a gap, the waits of a call are bounded, and every call ends.

**Port events** (`src/detail/event_listener_state.hpp`,
`src/serial_set_event_callback.cpp`). State: `g_event_listener` under its mutex; in
each listener a queue and three flags under another, a dispatcher thread with its
port map, a Plug and Play registration. Operations: register, list, install,
replace, clear; enqueue and report a failure to enqueue, from native callbacks;
dispatch. Hard: devices change at every point of the registration and of the
dispatch; callbacks replace their own registration; threads exchange listeners at
once; joins. Correct when the application hears of every change once and in order, the
listeners take turns but for what a replaced one had in hand already, and every call
returns.

**Handle registry** (`ensure_handle_state.hpp`, `register_opened_handle.hpp`,
`remove_handle_state.hpp`, `acquire_handle_context.hpp`, `serial_open.cpp`,
`serial_close.cpp`). State: the map from handle values to shared `HandleState`s.
Hard: Windows reuses handle values; `CloseHandle` comes before the entry is erased;
any call recreates an entry; a call holds its state beyond the close; a second close of
a value may hit the port that another thread is just opening. Correct when a port has
one state, to itself, and none outlives the ports.

**Line settings and control lines** (`apply_line_settings.hpp`,
`apply_flow_control.hpp`, `serial_set_*.cpp`, `serial_get_*.cpp`,
`serial_send_break.cpp`). State: the driver's DCB and the break condition of the
line. Hard: setters read, change and write it whole, without a lock; `serialOpen`
overlays it on what the last user left. Correct when what was set last holds unless
setters crossed, no crossing mixes two settings, and a break lasts as long as its call.

**Without state of their own**: the callback pointers (three atomics), port
enumeration, text conversion and path normalisation, timeout arithmetic, version.
**Outside the library proper**: build, scripts, JSR package, FFI smoke tests; the
headers of cpp-core, which are fetched by the build.

### How they interact

The exported functions run on the caller's thread. `acquireHandleContext` finds the
`HandleState`; `readImpl` and `writeImpl` call `readChunk` and `writeChunk`, which
meet `requestAbort` of other threads in the abort flags, the pending pointers and
the mutex. Plug and Play calls `deviceNotification` on threads of its own; that
only enqueues. The dispatcher thread of the listener takes from the queue and calls
the application, which may call any exported function from there,
`serialSetEventCallback` included.

The hazards of the code, each at its line, are listed in `PROJECT.json` with the
properties that watch them. The one without a property, the unloading of the DLL,
is about the loader and not about this code.

## 2. The models

### PendingIo

| model | code |
| --- | --- |
| `abortFlag[op]`, `pending[op]` | `abort_read/abort_write`, `pending_read/pending_write`; a pointer is the caller whose stack it points into |
| `pc[c]` | where `c` is in `readChunk`/`writeChunk` |
| `io[c]` | what the kernel has done with `c`'s `OVERLAPPED` |
| `outcome[c]` | the `IoOutcome` of the latest chunk |
| `aborting[a]` | `a` is in `requestAbort`, between the store and the mutex |
| `StartAborted`, `StartPendingIo` | the locked `startPendingIo`, with the `ReadFile` or `WriteFile` it makes |
| `FinishAtOnce`, `FinishSignalled`, `FinishDrained` | the three ways into `finishPendingIo`, and the result |
| `WaitTimesOut`, `WaitFails`, `CancelOwnIo` | `waitForPendingIo` up to `GetOverlappedResult(..., TRUE)` |
| `RequestAbort`, `CancelPending` | the two steps of `requestAbort` |
| `CreateEventFails` | no event, nothing shared |
| `IoEnds`, `CancelIoEx` | the kernel (external) |

A critical section of `pending_io_mutex` is one step. The one access to its data
from outside is the atomic store in `requestAbort`. Within a section the flag is
read once, by the exchange of `consumeAbort`; a store before that exchange commutes
to before the section, one after it to after.

`CancelIoEx` marks a request; a marked request may still complete or fail. A
`ReadFile` that returns at once is `completed` or `failed` in the step that starts
it. `WAIT_FAILED` may come whatever the state of the I/O, `WAIT_TIMEOUT` only while
the event is not signalled.

### AbortContract

Each side of a port has at most one *standing* request, which the next call to
return must answer with "aborted", and a number of *surplus* ones, each good for at
most one more aborted call. A request adds one of each: `requestAbort` raises the
flag, and later cancels whatever is registered then, which can be a different call.
So n requests abort at most 2n calls, only calls of their side, and no call gets
past a standing request. `PendingIo!Contract` maps `standing` to the flags and
`surplus` to the threads on their way to the mutex plus the calls in
`WaitForSingleObject` whose I/O was cancelled.

### SerialRead

One thread reads, with buffers of `Sizes` and `Terminators`, through `IO`, an
instance of `PendingIo` with that reader and no writers. A byte is its position in
the device's `Stream`, so that loss, repetition and order show. `rx` is the
driver's queue, `got` what the current `ReadFile` has taken, `buf` the
caller's buffer, `delivered` what all calls have reported together, `readTotal`
`bytes_read_total`. `ChooseChunk` is the loop head with `ClearCommError`; between
it and `ChunkStarts` the queue may grow or be cleared. `ChunkFails`, `ChunkStarts`,
`ChunkTimesOut`, `ChunkWaitFails` and `ChunkFinishes` are the chunk; `ChunkEnds` and `ChunkEndsCall` what
the loop makes of it. `serialOpen` sets zero `COMMTIMEOUTS`
(`src/detail/apply_line_settings.hpp:66`), so `ReadFile` waits for all it
asked for; that a driver ends one short is allowed as well. A cancelled `ReadFile`
keeps the bytes it has taken, as `GetOverlappedResult` reports them and the code
ignores them. `ReadTotalCounts` ties `readTotal` to both sides: it is no less than what
calls have reported and the current one holds, although calls may end without a count,
and with the bytes in the queue and in the `ReadFile` no more than the device has sent.

### SerialWrite

An application sends a message with one `serialWrite` after another and goes on each
time behind the bytes that were reported. A configuration of timeouts that
`validateTimeoutConfig` of cpp-core refuses never gets into the loop:
`ValidTimeoutConfig` is what `src/serial_write.test.cpp:108` shows of it, nothing
negative and a product that an int holds. A byte is its position in the message, so
`accepted`, all bytes the driver ever took, shows a gap or a repetition at once; `tx`
is the part still in the transmit queue. `NextChunk` is the loop head with
`CurrentTimeout`, the ternary of `src/detail/write_impl.hpp:41`; it clamps the result
once more, as `waitForPendingIo` does. `ChunkStarts`, `ChunkTimesOut`,
`ChunkWaitFails` and `ChunkFinishes` are `writeChunk`, through `IO`, an instance of
`PendingIo` with this writer; `ChunkEnds` and `ChunkEndsCall` are what the loop makes of
it. `Flush`, `Flushed`, `FlushFails` and `Purge` are `serialWaitForDrain` and
`serialClearBufferOut` of another thread, which neither have a timeout nor can be
aborted: the line need never send, so nothing is claimed of their end.

`unreported` remembers the one way in which the counts stop short of what was sent: a
call that ended by a timeout, an abort or an error after part of its chunk had gone
out. From there on an application that goes on where the count says repeats bytes, and
it never skips any.

`waited` is history: the waits that the call has been ready for, chunk by chunk. Every
chunk that the driver ends short begins another, so the timeout is no limit for the
call as a whole. What does limit it is that each further wait has been paid for with a
byte: `WaitsBounded`.

### HandleRegistry

| model | code |
| --- | --- |
| `win[h]` | the opening Windows has behind a handle value (external) |
| `registry[h]` | the entry of `g_handle_states`, by the number of its `HandleState` |
| `marks[s]` | the openings whose calls have left something in a state: an abort flag, a share of a total |
| `ctx[t]` | `HandleContext::state`, held by a call to its end |
| `CreateFile`, `OpenFails`, `Register` | `serialOpen`: the value exists, the configuration fails, `registerOpenedHandle` |
| `CloseHandle`, `RemoveHandleState` | the two steps of `serialClose` |
| `AcquireHandleContext`, `CallMarks`, `CallReturns` | any other exported function with a handle |

Between the two steps of a close Windows may give the value to an opening on another
thread, whose fresh entry the close then erases; its calls make a second one, and an
abort may miss the read it is for. History variable `crossed` keeps such openings. The
order is deliberate nevertheless: were the entry erased first, a call in between would
make it again and leave it for the next opening. `stray` keeps the values that calls
have used while no port was behind them, for which `ensureHandleState` makes an entry
that the next opening inherits. `CloseHandle` takes any value that Windows has open,
also that of an opening another thread is still configuring: an application that closes
a value twice may hit it. `serialOpen` then goes on with a value that is closed or, by
then, another's, and registers or closes that; such values are in `stray` as well.
`StateIsOwn` holds for every other opening,
although calls of earlier openings may run on beyond their close.

### LineSettings

A setter is two steps, `ReadDcb` (called `SetBaudrate`, `SetDataBits` and so on, with
the change it makes in its copy) and `WriteDcb`, since `GetCommState` and
`SetCommState` are two calls and no lock is held across them. `Got` is the
five getters. The DCB has the fields the library reads or that decide whether bytes
flow; `fOutxDsrFlow` stands for those that `applyLineSettings` sets to constants.
`since` and `spoiled` are history: which kinds others have set since a thread read its
DCB, and which kinds a write of an old DCB may have undone. `LastSetHolds` says that
this is the only way to lose a setting, and that setting the kind again ends it.

Configurations pass `validateOpenParams` of cpp-core before they get here;
`ValidConfig` states its ranges as they are used. Within `serialOpen`,
`GetCommState` and `SetCommState` are one step: the handle is exclusive and not yet
known to anybody. `serialSendBreak` shares the module because it shares the line:
`SetCommBreak`, a sleep, `ClearCommBreak`, which also ends the breaks of others
(`cutShort`). The port is closed with no call in progress; what a close under a call
does to states is in `HandleRegistry`.

### EventDispatcher

| model | code |
| --- | --- |
| `present` | which devices are there, under which COM name (external) |
| `phase`, `toScan` | `serialSetEventCallback` up to the installation; the list `existingPorts` still has to name |
| `ports` | the port map, filled by the snapshot, then used by the dispatcher alone |
| `pending`, `queueFailed`, `active`, `stopped` | `EventListenerState` |
| `dispatcher`, `notification` | `run` |
| `Arrive`, `Leave` with `Enqueue` | a change and the native callback for it, one step |
| `Register`, `ListInterfaces`, `Scan`, `RegistrationFails`, `StartThread`, `Install`, `Stop` | the registering thread |
| `Take`, `Handle...`, `CallbackEnds`, `ReportQueueFailure`, `ErrorReported`, `Exit` | one pass of `run` |

Change and report are one step because reports come in the order of the changes:
one that is under way is as good as one at the end of the queue. An arrival is
named when it is handled, with the name the device has by then; of a device that has
gone, `portName` may fail or still find a name (`PortNames`), and its removal is then in
the queue. `existingPorts`
skips an interface whose naming fails with one of six error codes, whether it
has gone or merely has no `PortName`; history variable `unnamed` keeps such devices,
and `lost` whether a notification could not be queued: these are the two ways in
which the code gives up, and the properties allow for exactly them.

Assumed: the application's callbacks return or throw a `std::exception`, and the
error callback returns (anything else ends the process).

### EventRegistration

A listener is used for one registration; its dispatcher thread is an actor that may
call `serialSetEventCallback` from a callback. `Exchange` is the section under
`g_event_listener_mutex`; `DetachSelf`, `BeginJoin` and `Joined` are
`~EventListener`. What `EventDispatcher` has in detail is abstracted to "wait",
"handle", "callback", "exited": `Take` is a pass of `run` up to its unlock, `Deliver` the
call of the application that follows, `Skip` a notification that is no news. An
installed listener may always have something to take. Between `Take` and `Deliver` no
lock is held, and the listener may be stopped, another installed, and that one's
callbacks begin. So two listeners may be in their callbacks at once; what
`DeliversInTurn` says is how far this goes: a callback begins for the installed
listener or, once for each listener, for one that a call has taken away and not yet
finished destroying. `installations`, `generation` and `late` are history.

### ListenerThread

The interface between the two modules above, for one listener: its two flags and its
thread, which is started, takes something up while the listener is active and not
stopped, finishes it whatever happens to the listener meanwhile, and exits from its wait
once it is stopped. `EventDispatcher` implements it, "handle", "callback" and "error"
being one pass and a listener whose registration failed being
one that nobody ever stopped; each listener of `EventRegistration` implements it as well,
whatever concurrent registrations do. So what `EventRegistration` leaves out of a
dispatcher is what `EventDispatcher` has in detail, and nothing else.

## 3. What TLC checks

| run | instance | distinct states | shows |
| --- | --- | --- | --- |
| `pending_io` | 2 readers, 1 writer, 2 aborters, symmetric | 565,693 | safety, and `AbortContract` implemented |
| `pending_io_live` | 1 reader, 1 writer, 2 aborters, fair | 29,633 | `AbortEndsCall` |
| `serial_read` | 4 bytes, buffers of 2 and 3, terminators of length 0, 1, 2, 1 aborter | 1,156,436 | order, totals, bounds, terminator |
| `serial_read_live` | the same with buffers of 2, fair | 548,136 | `CallReturns` |
| `serial_read_timeout` | as `serial_read` | violation | `CountedReadKeepsAll` does not hold |
| `event_dispatcher` | 2 devices, 2 names, 5 changes, symmetric | 262,316 | nothing missed, repeated, early or late |
| `event_dispatcher_live` | 3 changes, fair | 98,527 | the map becomes right and failures are reported; the thread exits |
| `event_registration` | 2 threads, 3 registrations, symmetric | 62,648 | listeners take turns, the replaced is silent, nothing left, no circle |
| `event_registration_live` | 1 thread, 3 registrations, fair | 93,264 | every call returns |
| `line_settings` | 2 threads, 5 kinds of settings, refused values, old settings of others, symmetric | 1,454,795 | last set holds, nothing mixed, breaks on the line |
| `handle_registry` | 3 threads, 1 handle value, 3 openings, symmetric | 504,381 | one state per port and to itself; no entry left over |
| `serial_write` | 3 bytes, queue of 2, 2 calls, 1 aborter, 4-bit int, fair | 607,398 | counts, bounded waits, every call returns |

Every property of a passing run has a mutant of the code (definitions marked
`Mutant:`) under which TLC finds it violated.

### Bounds

`PendingIo` has no counters: the instance is exact for its threads. Two callers on
a side are needed for one to register over the other, two aborters for two requests
to overlap; a third of either adds no new pair. The other bounds are named in the
configurations. Four bytes and buffers of up to three give calls of several chunks,
a chunk of several bytes, a terminator across two chunks, and bytes left over for the
next call. Five changes let a device come, go and come again under another name while
another changes too. Three registrations let a callback's call replace a listener
that had itself replaced the callback's own, the shape from which a circle of
joins would have to grow.

One handle value is the worst case for the registry: every opening gets the value of
another, and three threads let a close, an opening and a call of an older opening be
under way together. Two threads suffice for settings, where each write undoes what the
other has set since; the proofs say the same for any number. `serial_write` has a
configuration with a multiplier, one without, and one (3 times 5) that an int of four
bits cannot hold and with which the call is refused. Three bytes over a queue of two and two calls give chunks that end short, a
chunk that cannot begin, and a second call behind a count that fell short.

### Fairness

Threads that can take a step of their own take it, and mutexes are granted (weak
fairness of the steps of callers, aborters, setters and dispatchers). The kernel ends
an I/O that it was asked to cancel. A wait has a finite timeout: `multiplierTimeout`
gives 0 to `INT_MAX` milliseconds and `clampTimeout`, of cpp-core, is taken to turn
negative values into 0, so `INFINITE` never reaches the wait. This is used for
`CallReturns` and `WriteReturns` only; `AbortEndsCall` does without it. That a wait
fails is possible, but never relied on; nor is a line that sends, a device that
answers, or the end of a drain. Callbacks of the
application return, also when they call `serialSetEventCallback` over and over
(strong fairness in `EventRegistration`). Nothing is assumed about devices, data,
aborts or later registrations.

The liveness of `PendingIo` is stated for one caller per side. With two, an abort
reaches the later registration only, and the earlier call waits out its timeout: the
code has one pending pointer per side.

`CHECK_DEADLOCK FALSE` is set for `EventDispatcher` alone, which rests when its
changes are used up and its dispatcher waits for the next, or has exited.

### A disagreement

`serial_read_timeout`: after `WAIT_TIMEOUT`, `waitForPendingIo` cancels the
`ReadFile` and ignores how many bytes it had transferred by then. A byte that arrives
between the end of the wait and `CancelIoEx`, or the first bytes of a longer chunk,
are in the caller's buffer but not in the count that `serialRead` returns, and no
longer in the driver's queue. The hardware test
(`tests/serial_arduino.test.cpp:39` and `:115`) reads in many calls with small
timeouts and expects every byte of the echo. What does hold is
`CompletedReadKeepsAll`: a call that ends with a completed chunk reports all.

## 4. What is proved

With TLAPS, for any sets of threads and listeners (finite ones where the contract
counts requests), streams, buffers, messages and queues of any length, ints of any width, and
devices, names and changes in any number, under the named assumptions on the constants
only: the kinds of actors are disjoint, the null value is none of them, sizes are
positive, a stream has a length. Every safety invariant and every action property of the
passing runs is a theorem, and so are the refinements.

`PendingIoProofs`: type correctness, `PendingIsLive`, `NoIoOutlivesFrame`,
`AbortNotLost`, `CallInReach`, `AbortDecidesResult`, `OnlyOwnerWithdraws`. The
properties are proved together: that a pointer leads to a live call needs that every
exit withdraws it, that no I/O outlives its frame needs that exits are reached only
with the kernel done, which for I/O that ended at once is the extra conjunct
`EndedAtOnce` (such a call has no I/O in the kernel's hands). Each action is a lemma.

`PendingIoRefinement`: every step of `PendingIo` is a step of `AbortContract` or
leaves its variables alone. The work is in `surplus`, a sum of two cardinalities:
lemmas say how it changes when one thread enters or leaves one of the sets.
`CancelPending` either lapses (nothing to cancel, or cancelled already) or moves a
request from the thread to the call, and the sum stays the same.

`EventRegistrationProofs`: type correctness, `RunningIsOwned`, `JoinsGoForward`,
`DeliversInTurn`, `ReplacedIsSilent`. The heart is `JoinsGoForward`: a
callback's call can only take away its own listener, which it then does not join, or
one installed later, so joins follow the order of installation and cannot close a
circle. It needs that the installed listener is the latest (`InstalledIsLatest`), that
generations are unique (`GenerationsApart`), that a replacement is held by one call
and not yet active (`ReplacementsFresh`), that only activated dispatchers make calls
(`CallersAct`) and that active listeners are a part of those with threads
(`ActiveRuns`). `IInv` is the conjunction. For `DeliversInTurn` one more invariant is
needed, that a listener with a late callback behind it never takes anything up again
(`LateDone`), being stopped for good.

`HandleRegistryProofs`: type correctness, `StateIsOwn`, `EntriesHaveOwners`. To the
properties `IInv` adds that openings have values apart (`WinApart`) and states are
apart (`StatesApart`), that the opening of a `serialOpen` in progress is its own,
known to nobody and behind no other value (`ConfiguringOwn`), that calls are for openings which were returned
(`CallsKnown`), and that a value which is open while a close of it is under way was
opened in its course (`OpenWhileErasing`), which is why only crossed openings can lose
their entry. `Ensured` is what all callers of `ensureHandleState` may rely on.

`LineSettingsProofs`: type correctness, `LastSetHolds`, `NeverMixed`, `BreakIsSent`. The
first part is about data: each setter `Overlays` one kind on a DCB, that is, its
getter reports the value, the other getters notice nothing, and a proper DCB
stays proper; `applyLineSettings` overlays them all on any DCB whatever. The second
part carries this through the threads: a copy has its change (`CopyHasChange`) and
is recent in every kind but those in `since` and `spoiled` (`CopyIsRecent`). Assumed of
the constants is that configurations are valid and that ports begin with a DCB.

`SerialReadProofs`: type correctness, `StaysInBuffer`, `InOrder`, `StopsAtFirstMatch`,
`SeveralBytesNeverWait`, `ReadTotalCounts`, `CompletedReadKeepsAll`, and that the chunks
are calls of `PendingIo`, which no run states. No property of
the bytes a caller sees is inductive, for it says nothing of those on their way. `Ordered`
says it of all: what was delivered, what the call holds, what its `ReadFile` has and what
is in the queue lie behind one another in the stream (`InLine`, with a lemma for each way
in which bytes move). A byte that arrives may overtake the queue into the `ReadFile`
unless the queue is empty then, which is `Fetches`: a `ReadFile` short of bytes has
emptied the queue. `InCall` ties `chunk_size` to the room in the buffer and, up to a
terminator, to one byte, so a chunk cannot carry a match and something behind it.

`SerialWriteProofs`: type correctness, `CountsWhatWasSent`, `WaitsBounded`, and
that the chunks are calls of `PendingIo`. `Counted` follows the application's position
through call and chunk: up to it `accepted` has no gap, and it is the message itself as
long as every count was complete. `InCall` keeps the position within the message.
`TimeoutOfChunk` is the arithmetic of a valid configuration, at every width of an int; a
call in its loop has waited one timeout and a product for every byte but the first that
it has behind it, and one more product once it waits again (`WaitedHolds`), whence
`WaitsBounded`.

`EventDispatcherProofs`: type correctness, `SettledMapIsRight`, `ExistingPortsSilent`,
`CallbackIsNews`, and that `ListenerThread` is implemented. That the map is right when the
queue is empty follows from what `NothingMissed` says of each device at all other times,
relating the queue with the notification in hand (`backlog`), the map and the device:
arrivals of a device have removals between them (`Alternates`), the last notification is
true (`LastIsTrue`), an arrival that is alone finds no older name in the map
(`LoneArrivalFits`), and a device that nobody speaks of has in the map what it may have
for good (`SilentFits`), as far as the snapshot has got. The last is why registration has
to come before the snapshot, and why a notification that could not be queued, or a device
that could not be named, are excepted. `ToldIsMapped` gives `CallbackIsNews`.

The refinements of `ListenerThread`: in `EventDispatcher`, `LifeInv` ties the phase of the
registration to flags and thread; in `EventRegistration`, `InactiveWaits` says that only
activated listeners are stopped, deliver or exit. They are proved and no run states them.

Only model-checked: all liveness (`AbortEndsCall`, `CallReturns`, `WriteReturns`,
`EventuallyRight`, `StoppedThreadExits`, `SetReturns`), since fairness and ENABLED are
beyond the prover. The proofs about reads treat `MatchesSuffix` as a black box that finds
nothing for an empty terminator; that it compares suffixes is its definition, through
`IsSuffix` of the community modules.

## 5. Not modelled

What a close does to the I/O of a call in progress (the registry part of it is
modelled); how long a wait really takes (its limit is, in `SerialWrite`); the overflow of the driver's
receive queue; two threads that read, or write, one port's bytes (their `PendingIo` part
is modelled, their sharing of the stream is not); the read, write and error callbacks,
three atomic pointers; unloading the DLL with a registration in place; the retry loop of
`existingPorts` on `CR_BUFFER_SMALL`; conversion of names; upper-casing of interface
paths (a device is its path). `serialSetDtr`, `serialSetRts` and the four queries of
modem lines are single calls of the driver. Enumeration, version, build and packaging
have no behaviour worth a model.

## 6. Plan

1. That the safety of `PendingIo` holds of readers and writers by way of their
   refinements, stated as theorems of `SerialRead` and `SerialWrite`.
2. `PendingIo` under `HandleRegistry`: a close under a call whose I/O the kernel owns.
3. `serialListPorts` as an operator on a small device tree, against a definition of
   the list it promises.
