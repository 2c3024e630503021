----------------------------- MODULE SerialRead -----------------------------
(***************************************************************************)
(* One call of serialRead or serialReadUntilSequence after another on an   *)
(* open port: the loop of readImpl over the chunks of module PendingIo,    *)
(* the receive queue of the driver that the chunks drain, the device that  *)
(* fills it, and the threads that abort the read or clear the queue        *)
(* meanwhile.                                                              *)
(*                                                                         *)
(* A byte is its position in the device's stream; its value matters to the *)
(* terminator alone.  The port was opened with zero COMMTIMEOUTS, so a     *)
(* ReadFile waits for all the bytes it asks for; a driver that ends one    *)
(* short is allowed too, for readImpl provides for it.  The driver's queue *)
(* does not overflow.                                                      *)
(***************************************************************************)
EXTENDS Naturals, Sequences, SequencesExt

CONSTANTS
    Reader,         \* the thread that reads
    Aborters,       \* threads that call serialAbortRead
    NullPtr,
    Stream,         \* the values the device sends, in order
    Sizes,          \* buffer sizes callers use
    Terminators     \* terminators callers use, << >> for none

ASSUME StreamAssumption ==
    /\ Reader # NullPtr
    /\ Len(Stream) \in Nat
    /\ Sizes \subseteq Nat \ {0}
    /\ << >> \in Terminators

VARIABLES
    abortFlag, pending, pc, io, outcome, aborting,   \* of PendingIo
    sent,       \* how many bytes the device has sent
    rx,         \* the driver's receive queue
    got,        \* bytes the current ReadFile has put into the caller's buffer
    want,       \* chunk_size
    call,       \* the arguments of the current call
    buf,        \* output[0 .. total_read), of the current or the latest call
    at,         \* where the call is in readImpl
    result,     \* what the latest call returned
    delivered,  \* all bytes that calls have reported, in order
    readTotal,  \* bytes_read_total
    cleared     \* history: the queue was cleared since chunk_size was chosen

ioVars == <<abortFlag, pending, pc, io, outcome, aborting>>
lineVars == <<sent, rx, got>>
callVars == <<want, call, buf, at, result, delivered, readTotal>>
vars == <<ioVars, lineVars, callVars, cleared>>

IO == INSTANCE PendingIo WITH Readers <- {Reader}, Writers <- {}

Bytes == 1..Len(Stream)

Status == {"ok", "kAbortReadError", "kReadError", "kGetStateError"}

TypeOK ==
    /\ IO!TypeOK
    /\ sent \in 0..Len(Stream)
    /\ {rx, got, buf, delivered} \subseteq Seq(Bytes)
    /\ want \in Nat
    /\ call \in [size : Sizes, terminator : Terminators]
    /\ at \in {"idle", "query", "start", "chunk"}
    /\ result \in [status : Status, count : Nat]
    /\ readTotal \in Nat
    /\ cleared \in BOOLEAN

Init ==
    /\ IO!Init
    /\ sent = 0 /\ rx = << >> /\ got = << >>
    /\ want = 0 /\ buf = << >> /\ at = "idle"
    /\ call \in [size : Sizes, terminator : {<< >>}]
    /\ result = [status |-> "ok", count |-> 0]
    /\ delivered = << >> /\ readTotal = 0 /\ cleared = FALSE

-----------------------------------------------------------------------------
(* The loop of readImpl.                                                   *)

\* matchesSuffix, on the bytes of the current call.
MatchesSuffix(output, terminator) ==
    /\ terminator # << >>
    /\ IsSuffix(terminator, [i \in DOMAIN output |-> Stream[output[i]]])

\* A call with valid arguments; the others return before they touch anything.
CallRead(size, terminator) ==
    /\ at = "idle"
    /\ call' = [size |-> size, terminator |-> terminator]
    /\ buf' = << >>
    /\ at' = "query"
    /\ UNCHANGED <<ioVars, lineVars, want, result, delivered, readTotal, cleared>>

\* The call returns; only a count tells the caller which bytes are valid.
Return(status, output) ==
    /\ at' = "idle"
    /\ result' = [status |-> status, count |-> IF status = "ok" THEN Len(output) ELSE 0]
    /\ delivered' = IF status = "ok" THEN delivered \o output ELSE delivered

\* Mutant: a whole queue is fetched, terminator or not.
ChunkSizeAhead == IF rx = << >> THEN 1 ELSE Min({Len(rx), call.size - Len(buf)})

\* Mutant: the chunk is as large as the rest of the buffer.
ChunkSizeGreedy == IF call.terminator # << >> THEN 1 ELSE call.size - Len(buf)

\* Mutant: what is already in the buffer is forgotten.
ChunkSizeUnbounded ==
    IF call.terminator # << >> \/ rx = << >> THEN 1 ELSE Min({Len(rx), call.size})

\* One byte at a time up to a terminator, or as many as are waiting.
ChunkSize ==
    IF call.terminator # << >> \/ rx = << >> THEN 1
    ELSE Min({Len(rx), call.size - Len(buf)})

\* The size is chosen from the queue as ClearCommError reports it now.
ChooseChunk ==
    /\ at = "query"
    /\ want' = ChunkSize
    /\ at' = "start"
    /\ cleared' = FALSE
    /\ UNCHANGED <<ioVars, lineVars, call, buf, result, delivered, readTotal>>

\* ClearCommError fails; it is asked only when there is no terminator.
QueryFails ==
    /\ at = "query"
    /\ call.terminator = << >>
    /\ Return("kGetStateError", buf)
    /\ UNCHANGED <<ioVars, lineVars, want, call, buf, readTotal, cleared>>

\* CreateEventW fails, or an abort is waiting: nothing is read.
ChunkFails ==
    /\ at = "start"
    /\ IO!CreateEventFails(Reader) \/ IO!StartAborted(Reader)
    /\ at' = "chunk"
    /\ got' = << >>
    /\ UNCHANGED <<sent, rx, want, call, buf, result, delivered, readTotal, cleared>>

\* ReadFile takes what is in the queue, up to chunk_size, and ends at once
\* or leaves the rest to the driver.
ChunkStarts(ended) ==
    /\ at = "start"
    /\ IO!StartPendingIo(Reader, ended)
    /\ at' = "chunk"
    /\ LET taken == IF ended = "failed" THEN 0 ELSE Min({want, Len(rx)}) IN
        /\ got' = SubSeq(rx, 1, taken)
        /\ rx' = SubSeq(rx, taken + 1, Len(rx))
    /\ UNCHANGED <<sent, want, call, buf, result, delivered, readTotal, cleared>>

\* The end of the wait and the cancellation, which touch no data.
ChunkTimesOut ==
    /\ at = "chunk"
    /\ IO!WaitTimesOut(Reader) \/ IO!CancelOwnIo(Reader)
    /\ UNCHANGED <<lineVars, callVars, cleared>>

ChunkWaitFails ==
    /\ at = "chunk"
    /\ IO!WaitFails(Reader)
    /\ UNCHANGED <<lineVars, callVars, cleared>>

ChunkFinishes ==
    /\ at = "chunk"
    /\ IO!Finish(Reader)
    /\ UNCHANGED <<lineVars, callVars, cleared>>

\* A completed chunk: counted bytes, the buffer they make, the count of the
\* call if it returns, and when it does.
ChunkDone(counted, output, reported, done) ==
    /\ at = "chunk" /\ pc[Reader] = "idle" /\ outcome[Reader] = "kCompleted"
    /\ got' = << >>
    /\ buf' = output
    /\ readTotal' = readTotal + counted
    /\ IF done THEN Return("ok", reported) ELSE at' = "query" /\ UNCHANGED <<result, delivered>>
    /\ UNCHANGED <<ioVars, sent, rx, want, call, cleared>>

FullOrMatched(output) == Len(output) >= call.size \/ MatchesSuffix(output, call.terminator)

\* Mutant: a chunk is put in front of the earlier ones.
ChunkEndsInFront ==
    ChunkDone(Len(got), got \o buf, got \o buf, got = << >> \/ FullOrMatched(got \o buf))

\* Mutant: the last chunk is not in the returned count.
ChunkEndsShort ==
    ChunkDone(Len(got), buf \o got, buf, got = << >> \/ FullOrMatched(buf \o got))

\* Mutant: a chunk that got nothing does not end the call.
ChunkEndsInsisting ==
    ChunkDone(Len(got), buf \o got, buf \o got, FullOrMatched(buf \o got))

\* Mutant: the count so far is counted again with every chunk.
ChunkEndsCountingAll ==
    ChunkDone(Len(buf \o got), buf \o got, buf \o got, got = << >> \/ FullOrMatched(buf \o got))

\* A completed chunk is counted and added; the call returns when it got
\* nothing, when the terminator is there or when the buffer is full.
ChunkEnds ==
    ChunkDone(Len(got), buf \o got, buf \o got, got = << >> \/ FullOrMatched(buf \o got))

\* Mutant: the outcome is returned without translation.
ChunkEndsCallRaw ==
    /\ at = "chunk" /\ pc[Reader] = "idle" /\ outcome[Reader] # "kCompleted"
    /\ got' = << >>
    /\ Return(outcome[Reader], buf)
    /\ UNCHANGED <<ioVars, sent, rx, want, call, buf, readTotal, cleared>>

\* A chunk that did not complete ends the call: a timeout with the count so
\* far, an abort or an error with its status and no count.
ChunkEndsCall ==
    /\ at = "chunk" /\ pc[Reader] = "idle" /\ outcome[Reader] # "kCompleted"
    /\ got' = << >>
    /\ Return(CASE outcome[Reader] = "kTimedOut" -> "ok"
                [] outcome[Reader] = "kAborted" -> "kAbortReadError"
                [] outcome[Reader] = "kError" -> "kReadError", buf)
    /\ UNCHANGED <<ioVars, sent, rx, want, call, buf, readTotal, cleared>>

-----------------------------------------------------------------------------
(* The driver and the other threads.                                       *)

\* A byte goes to the ReadFile in progress while that wants more, and into
\* the queue otherwise.
ByteArrives ==
    /\ sent < Len(Stream)
    /\ sent' = sent + 1
    /\ IF io[Reader] \in {"inflight", "cancelling"} /\ Len(got) < want
       THEN got' = Append(got, sent') /\ UNCHANGED rx
       ELSE rx' = Append(rx, sent') /\ UNCHANGED got
    /\ UNCHANGED <<ioVars, callVars, cleared>>

\* A ReadFile that has all its bytes is past cancelling or failing.
ReadEnds(ended) ==
    /\ IO!IoEnds(Reader, ended)
    /\ ended # "completed" => Len(got) < want
    /\ UNCHANGED <<lineVars, callVars, cleared>>

Abort(a) ==
    /\ IO!RequestAbort(a, "kRead") \/ IO!CancelPending(a)
    /\ UNCHANGED <<lineVars, callVars, cleared>>

\* serialClearBufferIn: PURGE_RXCLEAR empties the queue, not the ReadFile.
ClearBufferIn ==
    /\ rx # << >>
    /\ rx' = << >>
    /\ cleared' = TRUE
    /\ UNCHANGED <<ioVars, sent, got, callVars>>

-----------------------------------------------------------------------------
ReaderStep ==
    \/ ChooseChunk \/ QueryFails
    \/ ChunkFails \/ \E ended \in {"inflight", "completed", "failed"} : ChunkStarts(ended)
    \/ ChunkFinishes \/ ChunkEnds \/ ChunkEndsCall

Next ==
    \/ \E size \in Sizes, terminator \in Terminators : CallRead(size, terminator)
    \/ ReaderStep
    \/ ChunkTimesOut \/ ChunkWaitFails
    \/ ByteArrives
    \/ \E ended \in IO!IoFinal : ReadEnds(ended)
    \/ \E a \in Aborters : Abort(a)
    \/ ClearBufferIn

Spec == Init /\ [][Next]_vars

CancelledReadEnds == io[Reader] = "cancelling" /\ \E ended \in IO!IoFinal : ReadEnds(ended)

\* The reading thread runs, its timeout, at most INT_MAX milliseconds,
\* elapses, and a cancelled ReadFile ends.  No byte need ever arrive.
FairSpec ==
    /\ Spec
    /\ WF_vars(ReaderStep)
    /\ WF_vars(ChunkTimesOut)
    /\ WF_vars(CancelledReadEnds)

-----------------------------------------------------------------------------
(* Properties.                                                             *)

\* ReadFile never writes behind the caller's buffer, though chunk_size was
\* chosen from a queue that has changed since.
StaysInBuffer == at \in {"start", "chunk"} => Len(buf) + want <= call.size

\* The bytes of the call in progress.
held == IF at = "idle" THEN << >> ELSE buf

\* Callers see the device's bytes in order and none twice, over any number
\* of calls, aborted, timed out or not.
InOrder ==
    LET seen == delivered \o held
    IN  \A i, j \in DOMAIN seen : i < j => seen[i] < seen[j]

\* bytes_read_total counts at least what calls have reported and the current
\* one holds, and no byte twice: there are as many bytes that the device has
\* sent and that are neither in the queue nor with a ReadFile.
ReadTotalCounts ==
    /\ Len(delivered) + Len(held) <= readTotal
    /\ readTotal + Len(got) + Len(rx) <= sent

\* serialReadUntilSequence stops at the first match: no byte behind a
\* terminator reaches the buffer of the call that found it.
StopsAtFirstMatch ==
    \A n \in 1..Len(buf) :
        MatchesSuffix(SubSeq(buf, 1, n), call.terminator) => n = Len(buf) /\ at = "idle"

\* The buffer is filled from what is there or byte by byte: a ReadFile for
\* several bytes never waits for the last of them, for it finds them all in
\* the queue, unless that was cleared between the choice of its size and its
\* start.
SeveralBytesNeverWait ==
    io[Reader] = "inflight" /\ want > 1 /\ ~cleared => Len(got) = want

\* Where a byte is while somebody can still get at it.
Kept == ToSet(rx) \cup ToSet(got) \cup ToSet(delivered) \cup IF at = "idle" THEN {} ELSE ToSet(buf)

\* A call that returns after a completed chunk has reported every byte it
\* took from the queue.
CompletedReadKeepsAll ==
    [][at = "chunk" /\ at' = "idle" /\ outcome[Reader] = "kCompleted"
        => Kept \subseteq Kept']_vars

\* Every call returns, whatever the device, the driver and other threads do.
CallReturns == at # "idle" ~> at = "idle"

\* What tests/serial_arduino.test.cpp relies on: a call that returns a count
\* rather than an error leaves the bytes it does not report to the next call.
CountedReadKeepsAll ==
    [][at # "idle" /\ at' = "idle" /\ result'.status = "ok" => Kept \subseteq Kept']_vars

=============================================================================
