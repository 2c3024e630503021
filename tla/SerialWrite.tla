---------------------------- MODULE SerialWrite ----------------------------
(***************************************************************************)
(* An application sends a message with one call of serialWrite after       *)
(* another, going on each time behind the bytes that were reported: the    *)
(* loop of writeImpl over the chunks of module PendingIo, the timeout each *)
(* chunk gets, the transmit queue of the driver, a line whose flow control *)
(* may stop it for ever, and the threads that abort, drain or clear the    *)
(* output meanwhile.                                                       *)
(*                                                                         *)
(* A byte is its position in the message.  An int holds -IntMax-1..IntMax. *)
(* The port was opened with zero COMMTIMEOUTS, so a WriteFile ends when    *)
(* the driver has all its bytes; a driver that ends one short is allowed   *)
(* too, for writeImpl provides for it.                                     *)
(***************************************************************************)
EXTENDS Integers, Sequences, SequencesExt

CONSTANTS
    Writer,         \* the thread that sends the message
    Aborters,       \* threads that call serialAbortWrite
    NullPtr,
    NoCall,         \* the writer is outside serialWrite
    MessageLength,
    TxSize,         \* room in the driver's transmit queue
    IntMax,         \* INT_MAX
    TimeoutConfigs, \* the SerialTimeoutConfigs of the calls
    MaxCalls        \* bound: calls of serialWrite

ASSUME WriteAssumption ==
    /\ Writer # NullPtr
    /\ {MessageLength, TxSize, IntMax, MaxCalls} \subseteq Nat \ {0}
    /\ TimeoutConfigs \subseteq [timeout_ms : -IntMax..IntMax, multiplier : -IntMax..IntMax]

VARIABLES
    abortFlag, pending, pc, io, outcome, aborting,   \* of PendingIo
    moved,      \* bytes the driver has taken of the WriteFile in progress
    tx,         \* the driver's transmit queue
    accepted,   \* history: all bytes the driver has taken, in order
    call,       \* the arguments of the current call
    calls,      \* how many calls there have been
    total,      \* total_written
    limit,      \* the timeout of the current chunk
    waited,     \* history: the timeouts of the chunks of the call, added up
    at,         \* where the call is in writeImpl
    reported,   \* the sum of the counts that calls have returned
    writtenTotal,   \* bytes_written_total
    unreported, \* history: a call returned and left out bytes the driver took
    flushing,   \* the thread in serialWaitForDrain or serialClearBufferOut
    owed        \* bytes in the queue that its FlushFileBuffers still waits for

ioVars == <<abortFlag, pending, pc, io, outcome, aborting>>
callVars == <<call, calls, total, limit, waited, at, reported, writtenTotal, unreported>>
flushVars == <<flushing, owed>>
vars == <<ioVars, moved, tx, accepted, callVars, flushVars>>

IO == INSTANCE PendingIo WITH Readers <- {}, Writers <- {Writer}

Bytes == 1..MessageLength

TypeOK ==
    /\ IO!TypeOK
    /\ moved \in 0..MessageLength
    /\ tx \in Seq(Bytes) /\ Len(tx) <= TxSize
    /\ accepted \in Seq(Bytes)
    /\ call \in [size : Bytes, config : TimeoutConfigs] \cup {NoCall}
    /\ calls \in 0..MaxCalls
    /\ total \in 0..MessageLength
    /\ limit \in 0..IntMax
    /\ waited \in Nat
    /\ at \in {"idle", "loop", "start", "chunk"}
    /\ reported \in 0..MessageLength
    /\ writtenTotal \in Nat
    /\ unreported \in BOOLEAN
    /\ flushing \in {"none", "drain", "clear", "purge"}
    /\ owed \in 0..Len(tx)

Init ==
    /\ IO!Init
    /\ moved = 0 /\ tx = << >> /\ accepted = << >>
    /\ call = NoCall /\ calls = 0 /\ total = 0 /\ limit = 0 /\ waited = 0 /\ at = "idle"
    /\ reported = 0 /\ writtenTotal = 0 /\ unreported = FALSE
    /\ flushing = "none" /\ owed = 0

-----------------------------------------------------------------------------
(* Timeouts.                                                               *)

ClampTimeout(timeout_ms) == Max({timeout_ms, 0})

\* What writeImpl asks of a configuration before anything else: nothing
\* negative, and a product that an int holds.
ValidTimeoutConfig(config) ==
    /\ config.timeout_ms >= 0 /\ config.multiplier >= 0
    /\ config.timeout_ms * config.multiplier <= IntMax

\* No waiting without a multiplier; otherwise the product, saturated.
MultiplierTimeout(timeout_ms, multiplier) ==
    IF multiplier <= 0 THEN 0 ELSE Min({ClampTimeout(timeout_ms) * multiplier, IntMax})

\* Mutant: every chunk gets the timeout itself.
CurrentTimeoutAlways(written, config) == ClampTimeout(config.timeout_ms)

\* The first chunk gets the timeout itself.
CurrentTimeout(written, config) ==
    IF written = 0 THEN ClampTimeout(config.timeout_ms)
    ELSE MultiplierTimeout(config.timeout_ms, config.multiplier)

-----------------------------------------------------------------------------
(* The loop of writeImpl.                                                  *)

\* A call with valid arguments; the others return before they touch anything.
CallWrite(size, config) ==
    /\ at = "idle"
    /\ calls < MaxCalls
    /\ ValidTimeoutConfig(config)
    /\ reported + size <= MessageLength
    /\ calls' = calls + 1
    /\ call' = [size |-> size, config |-> config]
    /\ at' = "loop"
    /\ UNCHANGED <<ioVars, moved, tx, accepted, total, limit, waited, reported,
                   writtenTotal, unreported, flushVars>>

\* The call returns and its locals go; only a count tells the application
\* where to go on.
Return(count) ==
    /\ at' = "idle"
    /\ call' = NoCall /\ total' = 0 /\ limit' = 0 /\ waited' = 0
    /\ reported' = reported + count

\* The rest of the buffer is the next chunk; waitForPendingIo clamps again.
NextChunk ==
    /\ at = "loop" /\ total < call.size
    /\ limit' = ClampTimeout(CurrentTimeout(total, call.config))
    /\ waited' = waited + limit'
    /\ at' = "start"
    /\ UNCHANGED <<ioVars, moved, tx, accepted, call, calls, total, reported,
                   writtenTotal, unreported, flushVars>>

AllWritten ==
    /\ at = "loop" /\ total >= call.size
    /\ Return(total)
    /\ UNCHANGED <<ioVars, moved, tx, accepted, calls, writtenTotal, unreported, flushVars>>

\* CreateEventW fails, or an abort is waiting: nothing is written.
ChunkFails ==
    /\ at = "start"
    /\ IO!CreateEventFails(Writer) \/ IO!StartAborted(Writer)
    /\ at' = "chunk"
    /\ UNCHANGED <<moved, tx, accepted, call, calls, total, limit, waited, reported,
                   writtenTotal, unreported, flushVars>>

\* Mutant: every chunk begins with the first byte of the buffer.
ByteAtRestarting(n) == reported + n

\* The n-th byte of the chunk that begins at input + total_written.
ByteAt(n) == reported + total + n

\* The driver takes bytes of the chunk while it wants them and has room.
Take(n) ==
    /\ moved + n <= call.size - total
    /\ Len(tx) + n <= TxSize
    /\ moved' = moved + n
    /\ LET taken == [i \in 1..n |-> ByteAt(moved + i)] IN
        /\ tx' = tx \o taken
        /\ accepted' = accepted \o taken

\* WriteFile ends at once, with what the driver has taken by then, or stays
\* pending.
ChunkStarts(ended) ==
    /\ at = "start"
    /\ IO!StartPendingIo(Writer, ended)
    /\ at' = "chunk"
    /\ \E n \in (IF ended = "completed" THEN 0..(call.size - total) ELSE {0}) : Take(n)
    /\ UNCHANGED <<call, calls, total, limit, waited, reported, writtenTotal, unreported,
                   flushVars>>

\* The wait ends after the timeout, which is never INFINITE; PendingIo
\* cancels the WriteFile and waits for its end.
ChunkTimesOut ==
    /\ at = "chunk"
    /\ IO!WaitTimesOut(Writer) \/ IO!CancelOwnIo(Writer)
    /\ UNCHANGED <<moved, tx, accepted, callVars, flushVars>>

ChunkWaitFails ==
    /\ at = "chunk"
    /\ IO!WaitFails(Writer)
    /\ UNCHANGED <<moved, tx, accepted, callVars, flushVars>>

ChunkFinishes ==
    /\ at = "chunk"
    /\ IO!Finish(Writer)
    /\ UNCHANGED <<moved, tx, accepted, callVars, flushVars>>

\* bytes_written_total; the write callback keeps nothing.
NoteBytesTransferred(count) == writtenTotal' = writtenTotal + count

\* Mutant: a chunk that moved nothing does not end the call.
ChunkEndsInsisting ==
    /\ at = "chunk" /\ pc[Writer] = "idle" /\ outcome[Writer] = "kCompleted"
    /\ moved' = 0
    /\ NoteBytesTransferred(moved)
    /\ total' = total + moved
    /\ at' = "loop"
    /\ UNCHANGED <<ioVars, tx, accepted, call, calls, limit, waited, reported, unreported,
                   flushVars>>

\* Bytes are counted and the loop goes on; none at all end the call.
ChunkEnds ==
    /\ at = "chunk" /\ pc[Writer] = "idle" /\ outcome[Writer] = "kCompleted"
    /\ moved' = 0
    /\ NoteBytesTransferred(moved)
    /\ \/ moved = 0 /\ Return(total)
       \/ moved > 0 /\ total' = total + moved /\ at' = "loop"
            /\ UNCHANGED <<call, limit, waited, reported>>
    /\ UNCHANGED <<ioVars, tx, accepted, calls, unreported, flushVars>>

\* A chunk that did not complete ends the call: a timeout with the count of
\* the chunks before it, an abort or an error without any count.
ChunkEndsCall ==
    /\ at = "chunk" /\ pc[Writer] = "idle" /\ outcome[Writer] # "kCompleted"
    /\ moved' = 0
    /\ LET count == IF outcome[Writer] = "kTimedOut" THEN total ELSE 0 IN
        /\ Return(count)
        /\ unreported' = (unreported \/ total + moved > count)
    /\ UNCHANGED <<ioVars, tx, accepted, calls, writtenTotal, flushVars>>

-----------------------------------------------------------------------------
(* The driver and the line.                                                *)

TakeByte ==
    /\ io[Writer] \in IO!IoOwned
    /\ Take(1)
    /\ UNCHANGED <<ioVars, callVars, flushVars>>

\* A WriteFile that has given all its bytes is past cancelling or failing.
WriteEnds(ended) ==
    /\ IO!IoEnds(Writer, ended)
    /\ ended # "completed" => moved < call.size - total
    /\ UNCHANGED <<moved, tx, accepted, callVars, flushVars>>

LineSends ==
    /\ tx # << >>
    /\ tx' = Tail(tx)
    /\ owed' = Max({owed - 1, 0})
    /\ UNCHANGED <<ioVars, moved, accepted, callVars, flushing>>

-----------------------------------------------------------------------------
(* Other threads.                                                          *)

Abort(a) ==
    /\ IO!RequestAbort(a, "kWrite") \/ IO!CancelPending(a)
    /\ UNCHANGED <<moved, tx, accepted, callVars, flushVars>>

\* FlushFileBuffers of serialWaitForDrain or serialClearBufferOut.
Flush(operation) ==
    /\ flushing = "none"
    /\ flushing' = operation
    /\ owed' = Len(tx)
    /\ UNCHANGED <<ioVars, moved, tx, accepted, callVars>>

\* Mutant: the queue is purged before it has been flushed.
FlushedAtOnce ==
    /\ flushing \in {"drain", "clear"}
    /\ flushing' = IF flushing = "clear" THEN "purge" ELSE "none"
    /\ UNCHANGED <<ioVars, moved, tx, accepted, callVars, owed>>

\* What was in the queue is on the line: serialWaitForDrain returns and
\* serialClearBufferOut goes on.
Flushed ==
    /\ flushing \in {"drain", "clear"} /\ owed = 0
    /\ flushing' = IF flushing = "clear" THEN "purge" ELSE "none"
    /\ UNCHANGED <<ioVars, moved, tx, accepted, callVars, owed>>

\* FlushFileBuffers or PurgeComm fails and the call with it.
FlushFails ==
    /\ flushing # "none"
    /\ flushing' = "none" /\ owed' = 0
    /\ UNCHANGED <<ioVars, moved, tx, accepted, callVars>>

\* PurgeComm(PURGE_TXCLEAR): what came after the flush began is dropped.
Purge ==
    /\ flushing = "purge"
    /\ flushing' = "none"
    /\ tx' = << >>
    /\ UNCHANGED <<ioVars, moved, accepted, callVars, owed>>

-----------------------------------------------------------------------------
WriterStep ==
    \/ NextChunk \/ AllWritten
    \/ ChunkFails \/ \E ended \in {"inflight", "completed", "failed"} : ChunkStarts(ended)
    \/ ChunkFinishes \/ ChunkEnds \/ ChunkEndsCall

Next ==
    \/ \E size \in Bytes, config \in TimeoutConfigs : CallWrite(size, config)
    \/ WriterStep
    \/ ChunkTimesOut \/ ChunkWaitFails
    \/ TakeByte \/ LineSends
    \/ \E ended \in IO!IoFinal : WriteEnds(ended)
    \/ \E a \in Aborters : Abort(a)
    \/ \E operation \in {"drain", "clear"} : Flush(operation)
    \/ Flushed \/ FlushFails \/ Purge

Spec == Init /\ [][Next]_vars

CancelledWriteEnds == io[Writer] = "cancelling" /\ \E ended \in IO!IoFinal : WriteEnds(ended)

\* The writing thread runs, its timeout, at most INT_MAX milliseconds,
\* elapses, and a cancelled WriteFile ends.  The line need never send.
FairSpec ==
    /\ Spec
    /\ WF_vars(WriterStep)
    /\ WF_vars(ChunkTimesOut)
    /\ WF_vars(CancelledWriteEnds)

-----------------------------------------------------------------------------
(* Properties.                                                             *)

\* An application that goes on behind the counts it is given skips no byte,
\* and every byte it believes sent has been taken by the driver.  It repeats
\* bytes only after a call that ended without counting what the driver had
\* taken; up to then the driver has got exactly the message, in order and
\* once, and bytes_written_total agrees with the counts.
CountsWhatWasSent ==
    /\ \A i \in DOMAIN accepted :
        accepted[i] = 1 \/ \E j \in 1..(i - 1) : accepted[j] = accepted[i] - 1
    /\ 1..reported \subseteq ToSet(accepted)
    /\ reported <= writtenTotal
    /\ ~unreported =>
        LET counted == reported + IF at = "idle" THEN 0 ELSE total
        IN  /\ writtenTotal = counted
            /\ accepted = [i \in 1..(counted + moved) |-> i]

\* However short the pieces in which the driver takes the data, the chunks of
\* a call wait no longer in all than the timeout, for the first byte, and the
\* timeout times the multiplier for every byte behind it: a chunk that took
\* less begins another wait, and has paid for it with a byte.
WaitsBounded ==
    at # "idle" =>
        LET timeout_ms == call.config.timeout_ms
        IN  waited <= timeout_ms + (call.size - 1) * (timeout_ms * call.config.multiplier)

\* Every call returns, though flow control stop the line for good, the queue
\* be full and other threads abort, drain or clear the output.
WriteReturns == at # "idle" ~> at = "idle"

=============================================================================
