-------------------------- MODULE SerialWriteProofs --------------------------
(***************************************************************************)
(* Proofs about SerialWrite, for messages, transmit queues and ints of any *)
(* size, any timeouts, any number of calls and of aborting threads.        *)
(***************************************************************************)
EXTENDS SerialWrite, SequenceTheorems, TLAPS

-----------------------------------------------------------------------------
(* The inductive invariant.                                                *)

\* Of PendingIo: an I/O that ended at once has a result to translate, and
\* none outlives its frame.
IoSound ==
    /\ pc[Writer] = "finish" => io[Writer] \in {"completed", "failed"}
    /\ pc[Writer] = "idle" => io[Writer] \notin IO!IoOwned

Calls == [size : Bytes, config : TimeoutConfigs]

\* The WriteFile runs inside the chunk, the chunk within the call, and the
\* call within the message.
InCall ==
    /\ at # "chunk" => pc[Writer] = "idle" /\ moved = 0
    /\ at = "idle" => total = 0
    /\ at # "idle" => call \in Calls /\ reported + call.size <= MessageLength
                      /\ total + moved <= call.size

\* How far into the message the application and the current chunk are.
position == reported + total + moved

NoGap(sequence) ==
    \A i \in DOMAIN sequence :
        sequence[i] = 1 \/ \E j \in 1..(i - 1) : sequence[j] = sequence[i] - 1

InOrderTo(sequence, n) == NoGap(sequence) /\ 1..n \subseteq ToSet(sequence)

\* The counts and the history up to the current chunk.
Counted ==
    /\ InOrderTo(accepted, position)
    /\ reported + total <= writtenTotal
    /\ ~unreported =>
        writtenTotal = reported + total /\ accepted = [i \in 1..position |-> i]

\* Only a flush under way is owed bytes.
Owing == flushing \in {"none", "purge"} => owed = 0

\* What the configuration of the call gives one more byte.
ByteTimeout == call.config.timeout_ms * call.config.multiplier

\* The chunks that ended have brought a byte each, and one is under way only
\* while a byte is left.
WaitedHolds ==
    /\ at = "idle" => waited = 0
    /\ at # "idle" => ValidTimeoutConfig(call.config)
    /\ at = "loop" => IF total = 0 THEN waited = 0
                      ELSE waited <= call.config.timeout_ms + (total - 1) * ByteTimeout
    /\ at \in {"start", "chunk"} =>
        total < call.size /\ waited <= call.config.timeout_ms + total * ByteTimeout

IInv == TypeOK /\ IoSound /\ InCall /\ Counted /\ Owing /\ WaitedHolds

-----------------------------------------------------------------------------
(* Numbers and sequences.                                                  *)

\* The larger of two integers.
LEMMA MaxOfTwo ==
    ASSUME NEW a \in Int, NEW b \in Int
    PROVE  Max({a, b}) \in {a, b} /\ Max({a, b}) >= a /\ Max({a, b}) >= b
<1>1. \E x \in {a, b} : \A y \in {a, b} : x >= y
    OBVIOUS
<1>2. Max({a, b}) \in {a, b} /\ \A y \in {a, b} : Max({a, b}) >= y
    BY <1>1 DEF Max
<1> QED
    BY <1>2

\* The smaller of two integers.
LEMMA MinOfTwo ==
    ASSUME NEW a \in Int, NEW b \in Int
    PROVE  Min({a, b}) \in {a, b} /\ Min({a, b}) <= a /\ Min({a, b}) <= b
<1>1. \E x \in {a, b} : \A y \in {a, b} : x =< y
    OBVIOUS
<1>2. Min({a, b}) \in {a, b} /\ \A y \in {a, b} : Min({a, b}) =< y
    BY <1>1 DEF Min
<1> QED
    BY <1>2

\* Timeouts that are not negative are left alone.
LEMMA ClampKeeps == \A t \in Nat : ClampTimeout(t) = t
<1> SUFFICES ASSUME NEW t \in Nat
             PROVE  ClampTimeout(t) = t
    OBVIOUS
<1>1. Max({t, 0}) \in {t, 0} /\ Max({t, 0}) >= t
    BY MaxOfTwo
<1> QED
    BY <1>1 DEF ClampTimeout

\* What a valid configuration holds.
LEMMA ValidConfig ==
    ASSUME NEW config \in TimeoutConfigs, ValidTimeoutConfig(config)
    PROVE  /\ IntMax \in Nat
           /\ config.timeout_ms \in Nat /\ config.timeout_ms <= IntMax
           /\ config.multiplier \in Nat
           /\ config.timeout_ms * config.multiplier \in Nat
           /\ config.timeout_ms * config.multiplier <= IntMax
<1>1. /\ IntMax \in Nat /\ config.timeout_ms \in Nat /\ config.multiplier \in Nat
      /\ config.timeout_ms <= IntMax /\ config.timeout_ms * config.multiplier <= IntMax
    BY WriteAssumption DEF ValidTimeoutConfig
<1>2. \A a, b \in Nat : a * b \in Nat
    OBVIOUS
<1> QED
    BY <1>1, <1>2

\* With a valid configuration the first chunk gets the timeout, and a later
\* one no more than one more byte allows.
LEMMA TimeoutOfChunk ==
    ASSUME NEW config \in TimeoutConfigs, ValidTimeoutConfig(config), NEW written \in Nat
    PROVE  /\ CurrentTimeout(written, config) \in 0..IntMax
           /\ written = 0 => CurrentTimeout(written, config) = config.timeout_ms
           /\ written # 0 =>
                CurrentTimeout(written, config) <= config.timeout_ms * config.multiplier
<1> DEFINE t == config.timeout_ms
           m == config.multiplier
           product == t * m
<1>1. /\ IntMax \in Nat /\ t \in Nat /\ t <= IntMax /\ m \in Nat
      /\ product \in Nat /\ product <= IntMax
    BY ValidConfig
<1> HIDE DEF product, t, m
<1>2. ClampTimeout(t) = t
    BY <1>1, ClampKeeps
<1>3. CASE written = 0
    BY <1>1, <1>2, <1>3 DEF CurrentTimeout, t
<1>4. CASE written # 0 /\ m <= 0
    <2>1. CurrentTimeout(written, config) = 0
        BY <1>4 DEF CurrentTimeout, MultiplierTimeout, m
    <2> QED
        BY <1>1, <1>4, <2>1 DEF product, t, m
<1>5. CASE written # 0 /\ ~(m <= 0)
    <2>1. CurrentTimeout(written, config) = Min({product, IntMax})
        BY <1>2, <1>5 DEF CurrentTimeout, MultiplierTimeout, t, m, product
    <2>2. Min({product, IntMax}) \in {product, IntMax} /\ Min({product, IntMax}) <= product
        BY <1>1, MinOfTwo
    <2> QED
        BY <1>1, <1>5, <2>1, <2>2 DEF product, t, m
<1> QED
    BY <1>1, <1>3, <1>4, <1>5

\* A byte more allows a wait more.
LEMMA MoreBytes ==
    ASSUME NEW a \in Nat, NEW b \in Nat, NEW p \in Nat, a <= b
    PROVE  /\ a * p \in Nat /\ b * p \in Nat
           /\ a * p <= b * p /\ (a + 1) * p = a * p + p
<1>1. \A x, y, z \in Nat : x * z \in Nat /\ (x + y) * z = x * z + y * z
    OBVIOUS
<1>2. b - a \in Nat /\ b = a + (b - a)
    OBVIOUS
<1>3. b * p = a * p + (b - a) * p /\ (b - a) * p \in Nat /\ a * p \in Nat
    BY <1>1, <1>2
<1>4. (a + 1) * p = a * p + 1 * p
    BY <1>1
<1> QED
    BY <1>3, <1>4

\* Where the elements of a sequence with a run behind it are.
LEMMA RunAppended ==
    ASSUME NEW S, NEW s \in Seq(S), NEW k \in Nat, NEW n \in Nat, (k + 1)..(k + n) \subseteq S,
           NEW t, t = s \o [i \in 1..n |-> k + i]
    PROVE  /\ t \in Seq(S) /\ DOMAIN t = 1..(Len(s) + n)
           /\ \A i \in 1..Len(s) : t[i] = s[i]
           /\ \A i \in 1..n : t[Len(s) + i] = k + i
<1> DEFINE run == [i \in 1..n |-> k + i]
<1>1. run \in Seq(S) /\ Len(run) = n /\ \A i \in 1..n : run[i] = k + i
    OBVIOUS
<1>2. Len(s) \in Nat
    BY LenProperties
<1> HIDE DEF run
<1>3. /\ t \in Seq(S) /\ Len(t) = Len(s) + n
      /\ \A i \in 1..(Len(s) + n) : t[i] = IF i <= Len(s) THEN s[i] ELSE run[i - Len(s)]
    BY <1>1, ConcatProperties DEF run
<1>4. \A i \in 1..Len(s) : t[i] = s[i]
    BY <1>2, <1>3
<1>5. \A i \in 1..n : t[Len(s) + i] = k + i
    BY <1>1, <1>2, <1>3
<1>6. DOMAIN t = 1..(Len(s) + n)
    BY <1>3, LenProperties
<1> QED
    BY <1>3, <1>4, <1>5, <1>6

\* t is s, of l elements, and a run of n bytes behind k.
HasRun(t, s, l, k, n) ==
    /\ DOMAIN s = 1..l /\ (\A i \in 1..l : s[i] \in Nat)
    /\ DOMAIN t = 1..(l + n)
    /\ (\A i \in 1..l : t[i] = s[i])
    /\ (\A i \in 1..n : t[l + i] = k + i)

\* Bytes k + 1 to k + n behind bytes 1 to k leave no gap either.
LEMMA RunExtends ==
    ASSUME NEW s, NEW l \in Nat, NEW k \in Nat, NEW n \in Nat, NEW t,
           HasRun(t, s, l, k, n), InOrderTo(s, k)
    PROVE  InOrderTo(t, k + n)
<1>0. /\ DOMAIN s = 1..l /\ \A i \in 1..l : s[i] \in Nat
      /\ DOMAIN t = 1..(l + n)
      /\ \A i \in 1..l : t[i] = s[i]
      /\ \A i \in 1..n : t[l + i] = k + i
    BY DEF HasRun
<1>1. NoGap(s) /\ 1..k \subseteq ToSet(s)
    BY DEF InOrderTo
<1>2. \A b \in 1..k : \E j \in 1..l : t[j] = b
    BY <1>0, <1>1 DEF ToSet
<1>3. NoGap(t)
    <2> SUFFICES ASSUME NEW i \in 1..(l + n), t[i] # 1
                 PROVE  \E j \in 1..(i - 1) : t[j] = t[i] - 1
        BY <1>0 DEF NoGap
    <2>1. CASE i <= l
        <3>1. i \in 1..l /\ t[i] = s[i]
            BY <1>0, <2>1
        <3>2. PICK j \in 1..(i - 1) : s[j] = s[i] - 1
            BY <1>0, <1>1, <3>1 DEF NoGap
        <3>3. j \in 1..l
            BY <3>1
        <3> QED
            BY <1>0, <3>1, <3>2, <3>3
    <2>2. CASE i = l + 1
        <3>1. 1 \in 1..n /\ t[i] = k + 1
            BY <1>0, <2>2
        <3>2. PICK j \in 1..l : t[j] = k
            BY <1>2, <3>1
        <3> QED
            BY <2>2, <3>1, <3>2
    <2>3. CASE i > l + 1
        <3>1. i - l \in 1..n /\ i - l - 1 \in 1..n /\ l + (i - l) = i /\ l + (i - l - 1) = i - 1
            BY <2>3
        <3>2. t[i] = k + (i - l) /\ t[i - 1] = k + (i - l - 1)
            BY <1>0, <3>1
        <3>3. i - 1 \in 1..(i - 1) /\ t[i - 1] = t[i] - 1
            BY <2>3, <3>2
        <3> QED
            BY <3>3
    <2> QED
        BY <2>1, <2>2, <2>3
<1>4. ASSUME NEW b \in 1..(k + n)
      PROVE  b \in ToSet(t)
    <2>1. CASE b <= k
        <3>1. b \in 1..k
            BY <2>1
        <3>2. PICK j \in 1..l : t[j] = b
            BY <1>2, <3>1
        <3>3. j \in DOMAIN t
            BY <1>0
        <3> QED
            BY <3>2, <3>3 DEF ToSet
    <2>2. CASE b > k
        <3>1. b - k \in 1..n /\ k + (b - k) = b /\ l + (b - k) \in 1..(l + n)
            BY <2>2
        <3>2. t[l + (b - k)] = b
            BY <1>0, <3>1
        <3> QED
            BY <1>0, <3>1, <3>2 DEF ToSet
    <2> QED
        BY <2>1, <2>2
<1> QED
    BY <1>3, <1>4 DEF InOrderTo

\* The message as far as k, with bytes k + 1 to k + n, is the message as far
\* as k + n.
LEMMA MessageExtends ==
    ASSUME NEW k \in Nat, NEW n \in Nat,
           NEW t, t = [i \in 1..k |-> i] \o [i \in 1..n |-> k + i]
    PROVE  t = [i \in 1..(k + n) |-> i]
<1> DEFINE s == [i \in 1..k |-> i]
<1>1. s \in Seq(Nat) /\ Len(s) = k
    OBVIOUS
<1>2. \A i \in 1..k : s[i] = i
    OBVIOUS
<1>3. t = s \o [i \in 1..n |-> k + i]
    OBVIOUS
<1> HIDE DEF s
<1>4. /\ t \in Seq(Nat) /\ DOMAIN t = 1..(k + n)
      /\ \A i \in 1..k : t[i] = i
      /\ \A i \in 1..n : t[k + i] = k + i
    BY <1>1, <1>2, <1>3, RunAppended
<1>5. \A i \in 1..(k + n) : t[i] = i
    <2> SUFFICES ASSUME NEW i \in 1..(k + n)
                 PROVE  t[i] = i
        OBVIOUS
    <2>1. i \in 1..k \/ (i - k \in 1..n /\ k + (i - k) = i)
        OBVIOUS
    <2> QED
        BY <1>4, <2>1
<1> DEFINE u == [i \in 1..(k + n) |-> i]
<1>6. u \in Seq(Nat) /\ Len(u) = k + n /\ \A i \in 1..(k + n) : u[i] = i
    OBVIOUS
<1> HIDE DEF u
<1>7. Len(t) = k + n
    BY <1>4, LenProperties
<1>8. t = u
    BY <1>4, <1>5, <1>6, <1>7, SeqEqual
<1> QED
    BY <1>8 DEF u

-----------------------------------------------------------------------------
(* The chunk of module PendingIo, with its side of the port to itself.     *)

\* The writer is the only caller and works on the write side.
LEMMA SoleWriter == IO!Callers = {Writer} /\ IO!OpOf(Writer) = "kWrite" /\ "kWrite" \in IO!Operation
BY DEF IO!Callers, IO!OpOf, IO!Operation

IoInv == IO!TypeOK /\ IoSound

\* A chunk that never issues its I/O.
LEMMA IoFailsToStart ==
    ASSUME IoInv, IO!CreateEventFails(Writer) \/ IO!StartAborted(Writer)
    PROVE  IoInv' /\ pc'[Writer] = "idle"
<1> USE SoleWriter DEF IO!CreateEventFails, IO!StartAborted, IO!Return
<1>1. abortFlag' \in [IO!Operation -> BOOLEAN] /\ UNCHANGED <<pending, aborting>>
    BY DEF IoInv, IO!TypeOK
<1>2. /\ pc' \in [IO!Callers -> IO!CallerPc]
      /\ outcome' \in [IO!Callers -> IO!IoOutcome \cup {"none", "running"}]
      /\ io' \in [IO!Callers -> IO!IoOwned \cup IO!IoFinal \cup {"none"}]
    BY DEF IoInv, IO!TypeOK, IO!CallerPc, IO!IoOutcome
<1>3. pc'[Writer] = "idle" /\ io'[Writer] \notin IO!IoOwned
    BY DEF IoInv, IoSound, IO!TypeOK, IO!IoOwned
<1> QED
    BY <1>1, <1>2, <1>3 DEF IoInv, IoSound, IO!TypeOK

\* A chunk that issues it.
LEMMA IoStarts ==
    ASSUME IoInv, NEW ended \in {"inflight", "completed", "failed"},
           IO!StartPendingIo(Writer, ended)
    PROVE  IoInv'
BY SoleWriter DEF IoInv, IoSound, IO!TypeOK, IO!StartPendingIo, IO!CallerPc, IO!IoOutcome,
                  IO!IoOwned, IO!IoFinal

\* A wait that is over, and the cancelling that follows it.
LEMMA IoWaitEnds ==
    ASSUME IoInv,
           IO!WaitTimesOut(Writer) \/ IO!WaitFails(Writer) \/ IO!CancelOwnIo(Writer)
    PROVE  IoInv'
<1>1. CASE IO!WaitTimesOut(Writer) \/ IO!WaitFails(Writer)
    BY <1>1, SoleWriter DEF IO!WaitTimesOut, IO!WaitFails, IoInv, IoSound, IO!TypeOK, IO!CallerPc
<1>2. CASE IO!CancelOwnIo(Writer)
    BY <1>2, SoleWriter DEF IO!CancelOwnIo, IO!CancelIoEx, IoInv, IoSound, IO!TypeOK,
                            IO!CallerPc, IO!IoOwned
<1> QED
    BY <1>1, <1>2

\* finishPendingIo returns only when the kernel is done.
LEMMA IoFinishes ==
    ASSUME IoInv, IO!Finish(Writer)
    PROVE  IoInv'
<1>1. PICK verdict \in IO!IoOutcome :
        IO!FinishPendingIo(Writer, verdict) /\ io[Writer] \in IO!IoFinal
    BY SoleWriter DEF IO!Finish, IO!FinishAtOnce, IO!FinishSignalled, IO!FinishDrained,
                      IO!ResultOf, IO!IoFinal, IO!IoOutcome, IoInv, IoSound
<1>2. PICK actual \in IO!IoOutcome : IO!Return(Writer, actual)
    BY <1>1 DEF IO!FinishPendingIo, IO!IoOutcome
<1>3. /\ abortFlag' \in [IO!Operation -> BOOLEAN]
      /\ pending' \in [IO!Operation -> IO!Callers \cup {NullPtr}]
      /\ UNCHANGED aborting
    BY <1>1, SoleWriter DEF IO!FinishPendingIo, IoInv, IO!TypeOK
<1>4. /\ pc' \in [IO!Callers -> IO!CallerPc]
      /\ outcome' \in [IO!Callers -> IO!IoOutcome \cup {"none", "running"}]
      /\ io' \in [IO!Callers -> IO!IoOwned \cup IO!IoFinal \cup {"none"}]
      /\ pc'[Writer] = "idle" /\ io'[Writer] = "none"
    BY <1>1, <1>2, SoleWriter DEF IO!Return, IoInv, IO!TypeOK, IO!CallerPc
<1> QED
    BY <1>3, <1>4 DEF IoInv, IoSound, IO!TypeOK, IO!IoOwned

\* The kernel ends the I/O.
LEMMA IoIsEnded ==
    ASSUME IoInv, NEW ended \in IO!IoFinal, IO!IoEnds(Writer, ended)
    PROVE  IoInv'
BY SoleWriter DEF IO!IoEnds, IoInv, IoSound, IO!TypeOK, IO!IoFinal, IO!IoOwned

\* Another thread asks for an abort.
LEMMA IoIsAborted ==
    ASSUME IoInv, NEW a \in Aborters, IO!RequestAbort(a, "kWrite") \/ IO!CancelPending(a)
    PROVE  IoInv' /\ UNCHANGED pc
<1>1. CASE IO!RequestAbort(a, "kWrite")
    BY <1>1, SoleWriter DEF IO!RequestAbort, IoInv, IoSound, IO!TypeOK
<1>2. CASE IO!CancelPending(a)
    <2>1. /\ aborting' \in [Aborters -> IO!Operation \cup {"none"}]
          /\ UNCHANGED <<abortFlag, pending, pc, outcome>>
        BY <1>2 DEF IO!CancelPending, IoInv, IO!TypeOK
    <2>2. io' = io \/ \E c : IO!CancelIoEx(c)
        BY <1>2 DEF IO!CancelPending
    <2>3. /\ io' \in [IO!Callers -> IO!IoOwned \cup IO!IoFinal \cup {"none"}]
          /\ io'[Writer] = io[Writer] \/ (io[Writer] = "inflight" /\ io'[Writer] = "cancelling")
        BY <2>2, SoleWriter DEF IO!CancelIoEx, IoInv, IO!TypeOK, IO!IoOwned
    <2> QED
        BY <2>1, <2>3 DEF IoInv, IoSound, IO!TypeOK, IO!IoOwned
<1> QED
    BY <1>1, <1>2

-----------------------------------------------------------------------------
(* Steps.                                                                  *)

\* The sizes are positive.
LEMMA Sizes == {MessageLength, TxSize, IntMax, MaxCalls} \subseteq Nat \ {0}
BY WriteAssumption

\* What the invariant says of a call in progress, in numbers.
LEMMA CallNumbers ==
    ASSUME TypeOK, InCall
    PROVE  /\ MessageLength \in Nat /\ TxSize \in Nat
           /\ reported \in Nat /\ total \in Nat /\ moved \in Nat /\ writtenTotal \in Nat
           /\ at # "idle" => /\ call.size \in Nat /\ call.size >= 1
                             /\ call.config \in TimeoutConfigs
                             /\ reported + call.size <= MessageLength
                             /\ total + moved <= call.size
<1>1. MessageLength \in Nat /\ TxSize \in Nat
    BY Sizes
<1>2. reported \in Nat /\ total \in Nat /\ moved \in Nat /\ writtenTotal \in Nat
    BY <1>1 DEF TypeOK
<1>3. at # "idle" => call.size \in 1..MessageLength /\ call.config \in TimeoutConfigs
    BY DEF InCall, Calls, Bytes
<1> QED
    BY <1>1, <1>2, <1>3 DEF InCall

\* The driver takes the next n bytes of the message.
LEMMA TakeCounts ==
    ASSUME TypeOK, InCall, Counted, at # "idle", NEW n \in Nat, Take(n),
           UNCHANGED <<reported, total, writtenTotal, unreported>>
    PROVE  /\ moved' \in 0..MessageLength /\ total + moved' <= call.size
           /\ tx' \in Seq(Bytes) /\ Len(tx') = Len(tx) + n /\ Len(tx') <= TxSize
           /\ accepted' \in Seq(Bytes) /\ Counted'
<1> DEFINE run == [i \in 1..n |-> position + i]
           runs == [i \in 1..n |-> ByteAt(moved + i)]
<1>1. /\ MessageLength \in Nat /\ call.size \in Nat /\ TxSize \in Nat
      /\ reported \in Nat /\ total \in Nat /\ moved \in Nat
      /\ reported + call.size <= MessageLength
    BY CallNumbers
<1>2. /\ moved + n <= call.size - total /\ moved' = moved + n /\ Len(tx) + n <= TxSize
      /\ tx' = tx \o runs /\ accepted' = accepted \o runs
    BY DEF Take
<1>3. runs = run
    <2>1. \A i \in 1..n : ByteAt(moved + i) = position + i
        BY <1>1 DEF ByteAt, position
    <2> QED
        BY <2>1
<1>4. position \in Nat /\ position' = position + n /\ position + n <= MessageLength
    BY <1>1, <1>2 DEF position
<1>5. (position + 1)..(position + n) \subseteq Bytes
    BY <1>1, <1>4 DEF Bytes
<1>6. accepted \in Seq(Bytes) /\ tx \in Seq(Bytes)
    BY DEF TypeOK
<1>7. moved' \in 0..MessageLength /\ total + moved' <= call.size
    BY <1>1, <1>2
<1> HIDE DEF run, runs
<1>8. run \in Seq(Bytes) /\ Len(run) = n
    <2>1. \A i \in 1..n : position + i \in Bytes
        BY <1>4, <1>5
    <2> QED
        BY <2>1 DEF run
<1>9. tx' \in Seq(Bytes) /\ Len(tx') = Len(tx) + n
    BY <1>2, <1>3, <1>6, <1>8, ConcatProperties
<1> DEFINE was == accepted
           now == accepted'
           k == position
<1>10. was \in Seq(Bytes) /\ now = was \o [i \in 1..n |-> k + i] /\ k \in Nat
    BY <1>2, <1>3, <1>4, <1>6 DEF run
<1>11. Len(was) \in Nat /\ DOMAIN was = 1..Len(was) /\ \A i \in 1..Len(was) : was[i] \in Nat
    <2>1. \A i \in 1..Len(accepted) : accepted[i] \in Bytes
        BY <1>6, LenProperties
    <2>2. Bytes \subseteq Nat
        BY <1>1 DEF Bytes
    <2> QED
        BY <1>6, <2>1, <2>2, LenProperties
<1>12. /\ InOrderTo(was, k) /\ reported + total <= writtenTotal
       /\ ~unreported => writtenTotal = reported + total /\ was = [i \in 1..k |-> i]
    BY DEF Counted
<1>13. position' = k + n
    BY <1>4
<1> HIDE DEF was, now, k
<1>14. /\ now \in Seq(Bytes) /\ DOMAIN now = 1..(Len(was) + n)
       /\ \A i \in 1..Len(was) : now[i] = was[i]
       /\ \A i \in 1..n : now[Len(was) + i] = k + i
    BY <1>5, <1>10, RunAppended DEF k
<1>15. InOrderTo(now, k + n)
    <2>1. HasRun(now, was, Len(was), k, n)
        BY <1>11, <1>14 DEF HasRun
    <2> QED
        BY <1>10, <1>11, <1>12, <2>1, RunExtends
<1>16. ~unreported => now = [i \in 1..(k + n) |-> i]
    <2> SUFFICES ASSUME ~unreported
                 PROVE  now = [i \in 1..(k + n) |-> i]
        OBVIOUS
    <2>1. now = [i \in 1..k |-> i] \o [i \in 1..n |-> k + i]
        BY <1>10, <1>12
    <2> QED
        BY <1>10, <2>1, MessageExtends
<1>17. Counted'
    BY <1>12, <1>13, <1>15, <1>16 DEF Counted, now
<1> QED
    BY <1>2, <1>7, <1>9, <1>14, <1>17 DEF now

\* A step of the I/O alone.
LEMMA IoOnly ==
    ASSUME IInv, IoInv', UNCHANGED <<moved, tx, accepted, callVars, flushVars>>,
           at = "chunk" \/ UNCHANGED pc
    PROVE  IInv'
<1> USE DEF callVars, flushVars
<1>1. TypeOK'
    BY DEF IInv, IoInv, TypeOK
<1>2. InCall'
    BY DEF IInv, InCall
<1>3. Counted'
    <2>1. position' = position
        BY DEF position
    <2> QED
        BY <2>1 DEF IInv, Counted
<1>4. Owing' /\ WaitedHolds'
    BY DEF IInv, Owing, WaitedHolds, ByteTimeout, ValidTimeoutConfig
<1> QED
    BY <1>1, <1>2, <1>3, <1>4 DEF IInv, IoInv

\* A step of the driver, the line or a flush: the I/O and the call stay.
LEMMA QueueOnly ==
    ASSUME IInv, UNCHANGED <<ioVars, callVars>>,
           moved' \in 0..MessageLength, at # "idle" => total + moved' <= call.size,
           at # "chunk" => moved' = moved,
           tx' \in Seq(Bytes), Len(tx') <= TxSize, accepted' \in Seq(Bytes), Counted',
           flushing' \in {"none", "drain", "clear", "purge"}, owed' \in 0..Len(tx'), Owing'
    PROVE  IInv'
<1> USE DEF callVars, ioVars
<1>1. IO!TypeOK'
    BY DEF IInv, TypeOK, IO!TypeOK
<1>2. TypeOK'
    BY <1>1 DEF IInv, TypeOK
<1>3. InCall' /\ IoSound' /\ WaitedHolds'
    BY DEF IInv, InCall, IoSound, WaitedHolds, ByteTimeout, ValidTimeoutConfig
<1> QED
    BY <1>2, <1>3 DEF IInv

\* Counts that stay count the same bytes.
LEMMA CountedStays ==
    ASSUME Counted, UNCHANGED <<accepted, moved, reported, total, writtenTotal, unreported>>
    PROVE  Counted'
<1>1. position' = position
    BY DEF position
<1> QED
    BY <1>1 DEF Counted

\* Transmitting, flushing and purging.
LEMMA LineStep ==
    ASSUME IInv,
           \/ TakeByte \/ LineSends \/ Flushed \/ FlushFails \/ Purge
           \/ \E operation \in {"drain", "clear"} : Flush(operation)
    PROVE  IInv'
<1>1. /\ TypeOK /\ InCall /\ Counted /\ Owing
      /\ tx \in Seq(Bytes) /\ Len(tx) <= TxSize /\ accepted \in Seq(Bytes)
      /\ moved \in 0..MessageLength /\ owed \in 0..Len(tx) /\ Len(tx) \in Nat /\ TxSize \in Nat
      /\ flushing \in {"none", "drain", "clear", "purge"}
      /\ at # "idle" => total + moved <= call.size
    BY CallNumbers, LenProperties DEF IInv, TypeOK
<1>2. CASE TakeByte
    <2>1. at = "chunk"
        BY <1>2, SoleWriter DEF TakeByte, IInv, IoSound, InCall
    <2>2. Take(1) /\ UNCHANGED <<ioVars, callVars, flushVars>>
        BY <1>2 DEF TakeByte
    <2>3. UNCHANGED <<reported, total, writtenTotal, unreported, at, flushing, owed>>
        BY <2>2 DEF callVars, flushVars
    <2>4. /\ moved' \in 0..MessageLength /\ total + moved' <= call.size
          /\ tx' \in Seq(Bytes) /\ Len(tx') = Len(tx) + 1 /\ Len(tx') <= TxSize
          /\ accepted' \in Seq(Bytes) /\ Counted'
        BY <1>1, <2>1, <2>2, <2>3, TakeCounts
    <2>5. owed' \in 0..Len(tx') /\ Owing'
        BY <1>1, <2>3, <2>4 DEF Owing
    <2> QED
        BY <1>1, <2>1, <2>2, <2>3, <2>4, <2>5, QueueOnly
<1>3. CASE LineSends
    <2>1. /\ tx' = Tail(tx) /\ tx # << >> /\ owed' = Max({owed - 1, 0})
          /\ UNCHANGED <<ioVars, moved, accepted, callVars, flushing>>
        BY <1>3 DEF LineSends
    <2>2. tx' \in Seq(Bytes) /\ Len(tx') = Len(tx) - 1
        BY <1>1, <2>1, HeadTailProperties
    <2>3. Len(tx) > 0
        BY <1>1, <2>1, EmptySeq
    <2>4. owed' \in {owed - 1, 0} /\ owed' >= 0
        <3> DEFINE less == owed - 1
        <3>1. less \in Int /\ owed' = Max({less, 0})
            BY <1>1, <2>1
        <3> HIDE DEF less
        <3>2. owed' \in {less, 0} /\ owed' >= 0
            BY <3>1, MaxOfTwo
        <3> QED
            BY <3>2 DEF less
    <2>5. owed' \in 0..Len(tx') /\ Owing'
        BY <1>1, <2>1, <2>2, <2>3, <2>4 DEF Owing
    <2>6. Counted'
        BY <1>1, <2>1, CountedStays DEF callVars
    <2> QED
        BY <1>1, <2>1, <2>2, <2>5, <2>6, QueueOnly
<1>4. ASSUME UNCHANGED <<ioVars, moved, accepted, callVars>>,
             tx' \in Seq(Bytes), Len(tx') <= TxSize,
             flushing' \in {"none", "drain", "clear", "purge"}, owed' \in 0..Len(tx'), Owing'
      PROVE  IInv'
    <2>1. Counted'
        BY <1>1, <1>4, CountedStays DEF callVars
    <2> QED
        BY <1>1, <1>4, <2>1, QueueOnly
<1>5. CASE Purge
    <2>1. tx' = << >> /\ tx' \in Seq(Bytes) /\ Len(tx') = 0 /\ owed' = 0 /\ flushing' = "none"
        BY <1>1, <1>5, EmptySeq DEF Purge, Owing
    <2> QED
        BY <1>1, <1>4, <1>5, <2>1 DEF Purge, Owing
<1>6. CASE Flushed \/ FlushFails \/ \E operation \in {"drain", "clear"} : Flush(operation)
    BY <1>1, <1>4, <1>6 DEF Flushed, FlushFails, Flush, Owing
<1> QED
    BY <1>2, <1>3, <1>5, <1>6

\* A step of writeImpl itself: the driver's queue and the flushes stay, and
\* the types of what it assigns are left to show.
LEMMA LoopOnly ==
    ASSUME IInv, IoInv', UNCHANGED <<tx, flushVars, accepted>>,
           moved' \in 0..MessageLength,
           call' \in Calls \cup {NoCall}, calls' \in 0..MaxCalls, total' \in 0..MessageLength,
           limit' \in 0..IntMax, waited' \in Nat, at' \in {"idle", "loop", "start", "chunk"},
           reported' \in 0..MessageLength, writtenTotal' \in Nat, unreported' \in BOOLEAN,
           InCall', Counted', WaitedHolds'
    PROVE  IInv'
<1> USE DEF flushVars
<1>1. TypeOK'
    BY DEF IInv, TypeOK, IoInv, Calls
<1> QED
    BY <1>1 DEF IInv, IoInv, Owing

\* A call begins.
LEMMA CallStep ==
    ASSUME IInv, NEW size \in Bytes, NEW config \in TimeoutConfigs, CallWrite(size, config)
    PROVE  IInv'
<1>1. TypeOK /\ IoInv /\ InCall /\ Counted /\ calls \in Nat /\ MaxCalls \in Nat
    BY Sizes DEF IInv, IoInv, TypeOK
<1>2. /\ at = "idle" /\ at' = "loop" /\ calls < MaxCalls /\ calls' = calls + 1
      /\ reported + size <= MessageLength
      /\ call' = [size |-> size, config |-> config]
      /\ UNCHANGED <<ioVars, moved, tx, accepted, total, limit, waited, reported, writtenTotal,
                     unreported, flushVars>>
      /\ ValidTimeoutConfig(config)
    BY DEF CallWrite
<1>3. IoInv'
    BY <1>1, <1>2 DEF IoInv, IoSound, IO!TypeOK, ioVars
<1>4. call' \in Calls /\ call'.size = size
    BY <1>2 DEF Calls
<1>5. InCall'
    <2>1. moved = 0 /\ total = 0 /\ pc[Writer] = "idle" /\ size >= 0
        BY <1>1, <1>2, Sizes DEF InCall, Bytes
    <2> QED
        BY <1>2, <1>4, <2>1 DEF InCall, ioVars
<1>6. Counted'
    BY <1>1, <1>2, CountedStays
<1>7. WaitedHolds'
    <2>1. waited = 0 /\ total = 0 /\ call'.config = config
        BY <1>1, <1>2 DEF IInv, WaitedHolds, InCall
    <2> QED
        BY <1>2, <2>1 DEF WaitedHolds
<1>8. calls' \in 0..MaxCalls
    BY <1>1, <1>2
<1> QED
    BY <1>1, <1>2, <1>3, <1>4, <1>5, <1>6, <1>7, <1>8, LoopOnly DEF TypeOK

\* A chunk is given its timeout.
LEMMA NextChunkStep ==
    ASSUME IInv, NextChunk
    PROVE  IInv'
<1>1. TypeOK /\ IoInv /\ InCall /\ Counted /\ call \in Calls
    BY DEF IInv, IoInv, TypeOK, NextChunk, InCall
<1>2. /\ at = "loop" /\ at' = "start"
      /\ limit' = ClampTimeout(CurrentTimeout(total, call.config))
      /\ waited' = waited + limit' /\ total < call.size
      /\ UNCHANGED <<ioVars, moved, tx, accepted, call, calls, total, reported,
                     writtenTotal, unreported, flushVars>>
    BY DEF NextChunk
<1>3. IoInv'
    BY <1>1, <1>2 DEF IoInv, IoSound, IO!TypeOK, ioVars
<1> DEFINE t == call.config.timeout_ms
           p == call.config.timeout_ms * call.config.multiplier
<1>4. /\ total \in Nat /\ call.config \in TimeoutConfigs /\ ValidTimeoutConfig(call.config)
      /\ waited \in Nat /\ t \in Nat /\ p \in Nat /\ IntMax \in Nat
    <2>1. /\ total \in Nat /\ call.config \in TimeoutConfigs /\ ValidTimeoutConfig(call.config)
          /\ waited \in Nat
        BY <1>1, <1>2, CallNumbers DEF IInv, WaitedHolds, TypeOK
    <2> QED
        BY <2>1, ValidConfig
<1>5. /\ limit' \in 0..IntMax
      /\ total = 0 => limit' = t
      /\ total # 0 => limit' <= p
    <2>1. /\ CurrentTimeout(total, call.config) \in 0..IntMax
          /\ total = 0 => CurrentTimeout(total, call.config) = t
          /\ total # 0 => CurrentTimeout(total, call.config) <= p
        BY <1>4, TimeoutOfChunk
    <2>2. CurrentTimeout(total, call.config) \in Nat
        BY <1>4, <2>1
    <2>3. limit' = CurrentTimeout(total, call.config)
        BY <1>2, <2>2, ClampKeeps
    <2> QED
        BY <2>1, <2>3
<1>6. InCall'
    BY <1>1, <1>2 DEF InCall, ioVars
<1>7. Counted'
    BY <1>1, <1>2, CountedStays
<1>8. waited' \in Nat
    BY <1>2, <1>4, <1>5
<1>9. waited' <= t + total * p
    <2>1. CASE total = 0
        <3>1. waited = 0 /\ 0 * p = 0
            BY <1>2, <1>4, <2>1 DEF IInv, WaitedHolds
        <3> QED
            BY <1>2, <1>4, <1>5, <2>1, <3>1
    <2>2. CASE total # 0
        <3> DEFINE n == total - 1
        <3>1. n \in Nat /\ total = n + 1
            BY <1>4, <2>2
        <3>2. waited <= t + n * p
            BY <1>2, <2>2 DEF IInv, WaitedHolds, ByteTimeout
        <3> HIDE DEF n, p, t
        <3>3. n * p \in Nat /\ (n + 1) * p = n * p + p
            BY <1>4, <3>1, MoreBytes
        <3>4. total * p = n * p + p
            BY <3>1, <3>3
        <3> DEFINE np == n * p
        <3>5. np \in Nat /\ waited <= t + np /\ total * p = np + p
            BY <3>2, <3>3, <3>4
        <3> HIDE DEF np
        <3> QED
            BY <1>2, <1>4, <1>5, <2>2, <3>5
    <2> QED
        BY <2>1, <2>2
<1>10. WaitedHolds'
    <2>1. t' = t /\ p' = p
        BY <1>2
    <2> QED
        BY <1>2, <1>4, <1>9 DEF WaitedHolds, ByteTimeout, ValidTimeoutConfig
<1> QED
    BY <1>1, <1>2, <1>3, <1>5, <1>6, <1>7, <1>8, <1>10, LoopOnly DEF TypeOK

\* A chunk that fails to start, and one that starts.
LEMMA ChunkStep ==
    ASSUME IInv,
           ChunkFails \/ \E ended \in {"inflight", "completed", "failed"} : ChunkStarts(ended)
    PROVE  IInv'
<1>1. /\ TypeOK /\ IoInv /\ InCall /\ Counted /\ WaitedHolds /\ Owing
      /\ at = "start" /\ at' = "chunk" /\ moved = 0
      /\ UNCHANGED <<call, calls, total, limit, waited, reported, writtenTotal, unreported,
                     flushVars>>
    BY DEF IInv, IoInv, TypeOK, InCall, ChunkFails, ChunkStarts
<1>2. IoInv'
    BY <1>1, IoFailsToStart, IoStarts DEF ChunkFails, ChunkStarts
<1>3. WaitedHolds'
    BY <1>1 DEF WaitedHolds, ByteTimeout, ValidTimeoutConfig
<1>4. CASE ChunkFails
    <2>1. UNCHANGED <<moved, tx, accepted>>
        BY <1>4 DEF ChunkFails
    <2>2. InCall' /\ Counted'
        BY <1>1, <2>1, CountedStays DEF InCall
    <2> QED
        BY <1>1, <1>2, <1>3, <2>1, <2>2, LoopOnly DEF TypeOK, Calls
<1>5. ASSUME NEW ended \in {"inflight", "completed", "failed"}, ChunkStarts(ended)
      PROVE  IInv'
    <2>1. call.size \in Nat /\ total \in Nat /\ total + moved <= call.size
        BY <1>1, CallNumbers
    <2>2. PICK n \in Nat : Take(n)
        BY <1>5, <2>1 DEF ChunkStarts
    <2>3. /\ moved' \in 0..MessageLength /\ total + moved' <= call.size
          /\ tx' \in Seq(Bytes) /\ Len(tx') = Len(tx) + n /\ Len(tx') <= TxSize
          /\ accepted' \in Seq(Bytes) /\ Counted'
        BY <1>1, <2>2, TakeCounts
    <2>4. owed' \in 0..Len(tx') /\ Owing'
        <3>1. owed \in 0..Len(tx) /\ Len(tx) \in Nat
            BY <1>1, LenProperties DEF TypeOK
        <3> QED
            BY <1>1, <2>3, <3>1 DEF flushVars, Owing
    <2>5. TypeOK'
        <3>1. call' \in Calls \cup {NoCall}
            BY <1>1 DEF TypeOK, Calls
        <3> QED
            BY <1>1, <1>2, <2>3, <2>4, <3>1 DEF TypeOK, IoInv, flushVars, Calls
    <2>6. InCall'
        BY <1>1, <2>3 DEF InCall
    <2> QED
        BY <1>2, <1>3, <2>3, <2>4, <2>5, <2>6 DEF IInv, IoInv
<1> QED
    BY <1>4, <1>5

\* The call returns: it forgets its locals and counts what it has moved in
\* chunks that completed, or nothing.
LEMMA ReturnStep ==
    ASSUME IInv, at # "idle", NEW count \in {0, total}, Return(count),
           UNCHANGED <<ioVars, tx, accepted, calls, writtenTotal, flushVars>>,
           pc[Writer] = "idle", moved' = 0, unreported' \in BOOLEAN,
           ~unreported' => ~unreported /\ total + moved <= count
    PROVE  IInv'
<1>1. TypeOK /\ IoInv /\ InCall /\ Counted
    BY DEF IInv, IoInv, TypeOK
<1>2. /\ at' = "idle" /\ call' = NoCall /\ total' = 0 /\ limit' = 0 /\ waited' = 0
      /\ reported' = reported + count
    BY DEF Return
<1>3. /\ MessageLength \in Nat /\ reported \in Nat /\ total \in Nat /\ moved \in Nat
      /\ writtenTotal \in Nat /\ call.size \in Nat
      /\ reported + call.size <= MessageLength /\ total + moved <= call.size
    BY <1>1, CallNumbers
<1>4. count \in Nat /\ reported' \in 0..MessageLength /\ count <= total
    BY <1>2, <1>3
<1>5. IoInv'
    BY <1>1 DEF IoInv, IoSound, IO!TypeOK, ioVars
<1>6. InCall' /\ WaitedHolds'
    BY <1>2 DEF InCall, WaitedHolds, ioVars
<1>7. Counted'
    <2>1. position' = reported + count /\ position' <= position /\ position' \in Nat
          /\ position \in Nat
        BY <1>2, <1>3, <1>4 DEF position
    <2>2. InOrderTo(accepted', position')
        BY <1>1, <2>1 DEF Counted, InOrderTo
    <2>3. reported' + total' <= writtenTotal'
        BY <1>1, <1>2, <1>3, <1>4 DEF Counted
    <2>4. ASSUME ~unreported'
          PROVE  writtenTotal' = reported' + total' /\ accepted' = [i \in 1..position' |-> i]
        <3>1. ~unreported /\ count = total /\ moved = 0
            BY <1>3, <1>4, <2>4
        <3>2. position' = position
            BY <1>3, <2>1, <3>1 DEF position
        <3> QED
            BY <1>1, <1>2, <1>3, <3>1, <3>2 DEF Counted
    <2> QED
        BY <2>2, <2>3, <2>4 DEF Counted
<1> QED
    BY <1>1, <1>2, <1>4, <1>5, <1>6, <1>7, Sizes, LoopOnly DEF TypeOK

\* A chunk has ended and the loop goes on or is left.
LEMMA ChunkEndStep ==
    ASSUME IInv, AllWritten \/ ChunkEnds \/ ChunkEndsCall
    PROVE  IInv'
<1>1. TypeOK /\ IoInv /\ InCall /\ Counted
    BY DEF IInv, IoInv, TypeOK
<1>2. CASE AllWritten
    <2>1. /\ at = "loop" /\ moved = 0 /\ pc[Writer] = "idle" /\ Return(total)
          /\ UNCHANGED <<ioVars, moved, tx, accepted, calls, writtenTotal, unreported, flushVars>>
        BY <1>1, <1>2 DEF AllWritten, InCall
    <2>2. total + moved <= total /\ unreported' \in BOOLEAN
        BY <1>1, <2>1, CallNumbers DEF TypeOK
    <2> QED
        BY <2>1, <2>2, ReturnStep
<1>3. CASE ChunkEndsCall
    <2> DEFINE count == IF outcome[Writer] = "kTimedOut" THEN total ELSE 0
    <2>1. /\ at = "chunk" /\ pc[Writer] = "idle" /\ moved' = 0 /\ Return(count)
          /\ UNCHANGED <<ioVars, tx, accepted, calls, writtenTotal, flushVars>>
          /\ count \in {0, total}
        BY <1>3 DEF ChunkEndsCall
    <2>2. unreported' = (unreported \/ total + moved > count)
        BY <1>3 DEF ChunkEndsCall
    <2>3. unreported' \in BOOLEAN
        BY <2>2
    <2>4. ~unreported' => ~unreported /\ ~(total + moved > count)
        BY <2>2
    <2>5. ~(total + moved > count) => total + moved <= count
        BY <1>1, CallNumbers
    <2> HIDE DEF count
    <2> QED
        BY <2>1, <2>3, <2>4, <2>5, ReturnStep
<1>4. CASE ChunkEnds
    <2>1. /\ at = "chunk" /\ pc[Writer] = "idle" /\ moved' = 0
          /\ writtenTotal' = writtenTotal + moved
          /\ UNCHANGED <<ioVars, tx, accepted, calls, unreported, flushVars>>
        BY <1>4 DEF ChunkEnds, NoteBytesTransferred
    <2>2. /\ MessageLength \in Nat /\ reported \in Nat /\ total \in Nat /\ moved \in Nat
          /\ writtenTotal \in Nat /\ call.size \in Nat
          /\ reported + call.size <= MessageLength /\ total + moved <= call.size
        BY <1>1, <2>1, CallNumbers
    <2>3. CASE moved = 0 /\ Return(total)
        <3>1. writtenTotal' = writtenTotal /\ total + moved <= total /\ unreported' \in BOOLEAN
            BY <1>1, <2>1, <2>2, <2>3 DEF TypeOK
        <3> QED
            BY <2>1, <2>3, <3>1, ReturnStep
    <2>4. CASE /\ moved > 0 /\ total' = total + moved /\ at' = "loop"
               /\ UNCHANGED <<call, limit, waited, reported>>
        <3>1. total' \in 0..MessageLength /\ writtenTotal' \in Nat
            BY <2>1, <2>2, <2>4
        <3>2. IoInv'
            BY <1>1, <2>1 DEF IoInv, IoSound, IO!TypeOK, ioVars
        <3>3. InCall'
            BY <1>1, <2>1, <2>2, <2>4 DEF InCall, ioVars
        <3>4. Counted'
            <4>1. position' = position /\ reported' + total' = (reported + total) + moved
                BY <2>1, <2>2, <2>4 DEF position
            <4> QED
                BY <1>1, <2>1, <2>2, <4>1 DEF Counted
        <3>5. WaitedHolds'
            <4> DEFINE t == call.config.timeout_ms
                       p == call.config.timeout_ms * call.config.multiplier
                       n == total' - 1
            <4>1. /\ call.config \in TimeoutConfigs /\ ValidTimeoutConfig(call.config)
                  /\ waited <= t + total * p /\ waited \in Nat
                BY <1>1, <2>1, CallNumbers DEF IInv, WaitedHolds, ByteTimeout, TypeOK
            <4>2. t \in Nat /\ p \in Nat
                BY <4>1, ValidConfig
            <4>3. n \in Nat /\ total <= n /\ total' # 0
                BY <2>2, <2>4
            <4> HIDE DEF n, p, t
            <4>4. total * p \in Nat /\ n * p \in Nat /\ total * p <= n * p
                BY <2>2, <4>2, <4>3, MoreBytes
            <4>5. waited <= t + n * p
                <5> DEFINE a == total * p
                           b == n * p
                <5>1. a \in Nat /\ b \in Nat /\ a <= b /\ waited <= t + a
                    BY <4>1, <4>4
                <5> HIDE DEF a, b
                <5>2. waited <= t + b
                    BY <4>1, <4>2, <5>1
                <5> QED
                    BY <5>2 DEF b
            <4> QED
                BY <2>1, <2>4, <4>1, <4>3, <4>5
                   DEF WaitedHolds, ByteTimeout, ValidTimeoutConfig, n, p, t
        <3> QED
            BY <1>1, <2>1, <2>2, <2>4, <3>1, <3>2, <3>3, <3>4, <3>5, LoopOnly DEF TypeOK, Calls
    <2> QED
        BY <1>4, <2>3, <2>4 DEF ChunkEnds
<1> QED
    BY <1>2, <1>3, <1>4

-----------------------------------------------------------------------------
(* Theorems.                                                               *)

\* An application begins with nothing sent.
LEMMA InitIInv == Init => IInv
<1> SUFFICES ASSUME Init
             PROVE  IInv
    OBVIOUS
<1>1. IO!TypeOK /\ IoSound
    <2>1. abortFlag \in [IO!Operation -> BOOLEAN]
        BY DEF Init, IO!Init
    <2>2. /\ pending \in [IO!Operation -> IO!Callers \cup {NullPtr}]
          /\ pc \in [IO!Callers -> IO!CallerPc] /\ pc[Writer] = "idle"
          /\ io \in [IO!Callers -> IO!IoOwned \cup IO!IoFinal \cup {"none"}]
          /\ io[Writer] = "none"
          /\ outcome \in [IO!Callers -> IO!IoOutcome \cup {"none", "running"}]
          /\ aborting \in [Aborters -> IO!Operation \cup {"none"}]
        BY SoleWriter DEF Init, IO!Init, IO!CallerPc
    <2> QED
        BY <2>1, <2>2 DEF IO!TypeOK, IoSound, IO!IoOwned
<1>2. << >> \in Seq(Bytes) /\ Len(<< >>) = 0
    BY EmptySeq
<1>3. TypeOK
    <2>1. /\ 0 \in 0..MessageLength /\ 0 \in 0..MaxCalls /\ 0 \in 0..IntMax
          /\ 0 <= TxSize /\ 0 \in 0..0
        BY Sizes
    <2>2. /\ tx \in Seq(Bytes) /\ Len(tx) = 0 /\ accepted \in Seq(Bytes)
          /\ owed = 0
        BY <1>2 DEF Init
    <2> QED
        BY <1>1, <2>1, <2>2 DEF Init, TypeOK
<1>4. InCall
    BY <1>1, SoleWriter DEF Init, IO!Init, InCall
<1>5. Counted
    <2>1. position = 0 /\ accepted = << >>
        BY DEF Init, position
    <2>2. InOrderTo(<< >>, 0)
        BY DEF InOrderTo, NoGap
    <2>3. << >> = [i \in 1..0 |-> i]
        BY DEF Init
    <2> QED
        BY <2>1, <2>2, <2>3 DEF Init, Counted
<1> QED
    BY <1>1, <1>3, <1>4, <1>5 DEF Init, IInv, Owing, WaitedHolds

\* Every step keeps the invariant.
LEMMA StepIInv == IInv /\ [Next]_vars => IInv'
<1> SUFFICES ASSUME IInv, [Next]_vars
             PROVE  IInv'
    OBVIOUS
<1>1. IoInv
    BY DEF IInv, IoInv, TypeOK
<1>2. ASSUME NEW size \in Bytes, NEW config \in TimeoutConfigs, CallWrite(size, config)
      PROVE  IInv'
    BY <1>2, CallStep
<1>3. CASE NextChunk
    BY <1>3, NextChunkStep
<1>4. CASE ChunkFails \/ \E ended \in {"inflight", "completed", "failed"} : ChunkStarts(ended)
    BY <1>4, ChunkStep
<1>5. CASE AllWritten \/ ChunkEnds \/ ChunkEndsCall
    BY <1>5, ChunkEndStep
<1>6. CASE ChunkFinishes
    BY <1>1, <1>6, IoFinishes, IoOnly DEF ChunkFinishes
<1>7. CASE ChunkTimesOut \/ ChunkWaitFails
    BY <1>1, <1>7, IoWaitEnds, IoOnly DEF ChunkTimesOut, ChunkWaitFails
<1>8. CASE \E ended \in IO!IoFinal : WriteEnds(ended)
    <2>1. UNCHANGED pc
        BY <1>8 DEF WriteEnds, IO!IoEnds
    <2> QED
        BY <1>1, <1>8, <2>1, IoIsEnded, IoOnly DEF WriteEnds
<1>9. CASE \E a \in Aborters : Abort(a)
    BY <1>1, <1>9, IoIsAborted, IoOnly DEF Abort
<1>10. CASE \/ TakeByte \/ LineSends \/ Flushed \/ FlushFails \/ Purge
            \/ \E operation \in {"drain", "clear"} : Flush(operation)
    BY <1>10, LineStep
<1>11. CASE UNCHANGED vars
    <2>1. IoInv'
        BY <1>1, <1>11 DEF vars, ioVars, IoInv, IoSound, IO!TypeOK
    <2> QED
        BY <1>11, <2>1, IoOnly DEF vars, ioVars
<1> QED
    BY <1>2, <1>3, <1>4, <1>5, <1>6, <1>7, <1>8, <1>9, <1>10, <1>11 DEF Next, WriterStep

\* The invariant holds as long as the port is open.
LEMMA InvariantAlways == Spec => []IInv
<1> QED
    BY InitIInv, StepIInv, PTL DEF Spec

\* Every state of the write path is of the types the model says: counts stay
\* within the message, the queue within its room, a timeout within an int.
THEOREM TypeCorrect == Spec => []TypeOK
<1>1. IInv => TypeOK
    BY DEF IInv
<1> QED
    BY <1>1, InvariantAlways, PTL

\* An application that goes on behind the counts it is given skips no byte.
THEOREM CountsAreSent == Spec => []CountsWhatWasSent
<1>1. IInv => CountsWhatWasSent
    <2> SUFFICES ASSUME IInv
                 PROVE  CountsWhatWasSent
        OBVIOUS
    <2>1. TypeOK /\ InCall /\ Counted
        BY DEF IInv
    <2>2. /\ reported \in Nat /\ total \in Nat /\ moved \in Nat /\ writtenTotal \in Nat
          /\ at = "idle" => total = 0
        BY <2>1, CallNumbers DEF InCall
    <2> DEFINE counted == reported + IF at = "idle" THEN 0 ELSE total
    <2>3. counted = reported + total /\ counted + moved = position
        BY <2>2 DEF position
    <2>4. reported <= writtenTotal /\ 1..reported \subseteq 1..position
        BY <2>1, <2>2 DEF Counted, position
    <2>5. NoGap(accepted) /\ 1..reported \subseteq ToSet(accepted)
        BY <2>1, <2>4 DEF Counted, InOrderTo
    <2> QED
        BY <2>1, <2>3, <2>4, <2>5 DEF Counted, NoGap, CountsWhatWasSent
<1> QED
    BY <1>1, InvariantAlways, PTL

\* What the chunks of a call may wait is bounded by what the timeouts allow its
\* bytes, whatever pieces the driver takes them in.
THEOREM WaitsAlwaysBounded == Spec => []WaitsBounded
<1>1. IInv => WaitsBounded
    <2> SUFFICES ASSUME IInv, at # "idle"
                 PROVE  waited <= call.config.timeout_ms + (call.size - 1) * ByteTimeout
        BY DEF WaitsBounded, ByteTimeout
    <2> DEFINE t == call.config.timeout_ms
               p == ByteTimeout
               n == call.size - 1
    <2>1. /\ call.config \in TimeoutConfigs /\ ValidTimeoutConfig(call.config)
          /\ n \in Nat /\ total \in Nat /\ moved \in Nat /\ total + moved <= n + 1
          /\ at \in {"loop", "start", "chunk"} /\ waited \in Nat
        BY CallNumbers DEF IInv, WaitedHolds, TypeOK
    <2>2. t \in Nat /\ p \in Nat
        BY <2>1, ValidConfig DEF ByteTimeout
    <2>3. \E k \in 0..n : waited <= t + k * p
        <3>1. CASE at = "loop" /\ total = 0
            <4>1. waited = 0 /\ 0 * p = 0
                BY <2>2, <3>1 DEF IInv, WaitedHolds
            <4> QED
                BY <2>1, <2>2, <4>1
        <3>2. CASE at = "loop" /\ total # 0
            <4>1. total - 1 \in 0..n
                BY <2>1, <3>2
            <4>2. waited <= t + (total - 1) * p
                BY <3>2 DEF IInv, WaitedHolds
            <4> QED
                BY <4>1, <4>2
        <3>3. CASE at \in {"start", "chunk"}
            <4>1. total \in 0..n
                <5>1. total < call.size /\ call.size \in Nat
                    BY <3>3, CallNumbers DEF IInv, WaitedHolds
                <5> QED
                    BY <2>1, <5>1
            <4>2. waited <= t + total * p
                BY <3>3 DEF IInv, WaitedHolds
            <4> QED
                BY <4>1, <4>2
        <3> QED
            BY <2>1, <3>1, <3>2, <3>3
    <2>4. PICK k \in 0..n : waited <= t + k * p
        BY <2>3
    <2> HIDE DEF n, p, t
    <2>5. k * p \in Nat /\ n * p \in Nat /\ k * p <= n * p
        BY <2>1, <2>2, MoreBytes
    <2>6. waited <= t + n * p
        <3> DEFINE a == k * p
                   b == n * p
        <3>1. a \in Nat /\ b \in Nat /\ a <= b /\ waited <= t + a
            BY <2>4, <2>5
        <3> HIDE DEF a, b
        <3>2. waited <= t + b
            BY <2>1, <2>2, <3>1
        <3> QED
            BY <3>2 DEF b
    <2> QED
        BY <2>6 DEF n, p, t
<1> QED
    BY <1>1, InvariantAlways, PTL

\* Steps of the loop are steps of PendingIo, or leave it alone.
LEMMA StepOfPendingIo == [Next]_vars => [IO!Next]_(IO!vars)
<1> SUFFICES ASSUME [Next]_vars
             PROVE  [IO!Next]_(IO!vars)
    OBVIOUS
<1>1. Writer \in IO!Callers /\ "kWrite" \in IO!Operation
    BY SoleWriter
<1>2. CASE ChunkFails \/ \E ended \in {"inflight", "completed", "failed"} : ChunkStarts(ended)
    <2>1. IO!Start(Writer)
        BY <1>2 DEF ChunkFails, ChunkStarts, IO!Start
    <2> QED
        BY <1>1, <2>1 DEF IO!Next
<1>3. CASE ChunkFinishes
    BY <1>1, <1>3 DEF ChunkFinishes, IO!Next
<1>4. CASE ChunkTimesOut \/ ChunkWaitFails
    BY <1>1, <1>4 DEF ChunkTimesOut, ChunkWaitFails, IO!Next
<1>5. CASE \E ended \in IO!IoFinal : WriteEnds(ended)
    BY <1>1, <1>5 DEF WriteEnds, IO!Next
<1>6. CASE \E a \in Aborters : Abort(a)
    BY <1>1, <1>6 DEF Abort, IO!Next
<1>7. CASE UNCHANGED ioVars
    BY <1>7 DEF ioVars, IO!vars
<1>8. CASE \/ \E size \in Bytes, config \in TimeoutConfigs : CallWrite(size, config)
           \/ NextChunk \/ AllWritten \/ ChunkEnds \/ ChunkEndsCall
           \/ TakeByte \/ LineSends \/ Flushed \/ FlushFails \/ Purge
           \/ (\E operation \in {"drain", "clear"} : Flush(operation))
           \/ UNCHANGED vars
    <2>1. UNCHANGED ioVars
        BY <1>8 DEF CallWrite, NextChunk, AllWritten, ChunkEnds, ChunkEndsCall, TakeByte,
                    LineSends, Flushed, FlushFails, Purge, Flush, vars
    <2> QED
        BY <1>7, <2>1
<1> QED
    BY <1>2, <1>3, <1>4, <1>5, <1>6, <1>8 DEF Next, WriterStep

\* The loop of writeImpl keeps to PendingIo: every chunk of every call is one
\* of its calls, with the registrations and the abort flags that go with it.
THEOREM WritesArePendingIo == Spec => IO!Spec
<1>1. Init => IO!Init
    BY DEF Init
<1> QED
    BY <1>1, StepOfPendingIo, PTL DEF Spec, IO!Spec

=============================================================================
