-------------------------- MODULE SerialReadProofs ---------------------------
(***************************************************************************)
(* Proofs about SerialRead, for streams, buffers and terminators of any    *)
(* length, any number of calls and of aborting threads.                    *)
(***************************************************************************)
EXTENDS SerialRead, SequenceTheorems, TLAPS

-----------------------------------------------------------------------------
(* The inductive invariant.                                                *)

\* Of PendingIo: an I/O that ended at once has a result to translate, and
\* none outlives its frame.
IoSound ==
    /\ pc[Reader] = "finish" => io[Reader] \in {"completed", "failed"}
    /\ pc[Reader] = "idle" => io[Reader] \notin IO!IoOwned

\* The ReadFile runs inside the chunk, and the chunk fits into what is left
\* of the buffer, one byte at a time up to a terminator.
InCall ==
    /\ at # "chunk" => pc[Reader] = "idle" /\ got = << >>
    /\ at = "query" => Len(buf) < call.size
    /\ at \in {"start", "chunk"} =>
        /\ want >= 1 /\ Len(buf) + want <= call.size
        /\ call.terminator # << >> => want = 1
        /\ Len(got) <= want
    /\ at = "chunk" /\ pc[Reader] = "idle" => outcome[Reader] \in IO!IoOutcome

Increasing(s) == \A i, j \in DOMAIN s : i < j => s[i] < s[j]

Before(s, t) == \A i \in DOMAIN s, j \in DOMAIN t : s[i] < t[j]

UpTo(s, n) == \A i \in DOMAIN s : s[i] <= n

\* Four stretches of the stream one behind the other, and the n bytes sent.
InLine(d, h, g, r, n) ==
    /\ Increasing(d) /\ Increasing(h) /\ Increasing(g) /\ Increasing(r)
    /\ Before(d, h) /\ Before(d, g) /\ Before(d, r)
    /\ Before(h, g) /\ Before(h, r) /\ Before(g, r)
    /\ UpTo(d, n) /\ UpTo(h, n) /\ UpTo(g, n) /\ UpTo(r, n)

\* What has been delivered, what the call holds, what its ReadFile has and
\* what is in the queue follow one another in the stream.
Ordered == InLine(delivered, held, got, rx, sent)

\* Bytes wait in the queue only behind a ReadFile that has all of its own,
\* and a ReadFile for several bytes finds them there.
Fetches ==
    /\ io[Reader] \in IO!IoOwned /\ Len(got) < want => rx = << >>
    /\ at = "start" /\ want > 1 /\ ~cleared => Len(rx) >= want
    /\ SeveralBytesNeverWait

IInv == TypeOK /\ IoSound /\ InCall /\ Ordered /\ Fetches /\ StopsAtFirstMatch

-----------------------------------------------------------------------------
(* Numbers and sequences.                                                  *)

\* The smaller of two integers.
LEMMA MinOfTwo ==
    ASSUME NEW a \in Int, NEW b \in Int
    PROVE  Min({a, b}) \in {a, b} /\ Min({a, b}) <= a /\ Min({a, b}) <= b
<1>1. \E x \in {a, b} : \A y \in {a, b} : x =< y
    OBVIOUS
<1>2. Min({a, b}) \in {a, b} /\ \A y \in {a, b} : Min({a, b}) =< y
    BY <1>1 DEF Min
<1> QED
    BY <1>2

\* What is appended comes last.
LEMMA IncreasingConcat ==
    ASSUME NEW S, S \subseteq Nat, NEW s \in Seq(S), NEW t \in Seq(S),
           Increasing(s), Increasing(t), Before(s, t), NEW u, u = s \o t
    PROVE  Increasing(u)
<1>1. /\ u \in Seq(S) /\ Len(u) = Len(s) + Len(t)
      /\ \A i \in 1..(Len(s) + Len(t)) : u[i] = IF i <= Len(s) THEN s[i] ELSE t[i - Len(s)]
    BY ConcatProperties
<1>2. /\ Len(s) \in Nat /\ Len(t) \in Nat
      /\ DOMAIN s = 1..Len(s) /\ DOMAIN t = 1..Len(t) /\ DOMAIN u = 1..(Len(s) + Len(t))
    BY <1>1, LenProperties
<1> SUFFICES ASSUME NEW i \in DOMAIN u, NEW j \in DOMAIN u, i < j
             PROVE  u[i] < u[j]
    BY DEF Increasing
<1>3. CASE j <= Len(s)
    <2>1. i \in DOMAIN s /\ j \in DOMAIN s /\ u[i] = s[i] /\ u[j] = s[j]
        BY <1>1, <1>2, <1>3
    <2> QED
        BY <2>1 DEF Increasing
<1>4. CASE i <= Len(s) /\ j > Len(s)
    <2>1. /\ i \in DOMAIN s /\ j - Len(s) \in DOMAIN t
          /\ u[i] = s[i] /\ u[j] = t[j - Len(s)]
        BY <1>1, <1>2, <1>4
    <2> QED
        BY <2>1 DEF Before
<1>5. CASE i > Len(s)
    <2>1. /\ i - Len(s) \in DOMAIN t /\ j - Len(s) \in DOMAIN t /\ i - Len(s) < j - Len(s)
          /\ u[i] = t[i - Len(s)] /\ u[j] = t[j - Len(s)]
        BY <1>1, <1>2, <1>5
    <2> QED
        BY <2>1 DEF Increasing
<1> QED
    BY <1>2, <1>3, <1>4, <1>5

\* A concatenation lies where both of its parts do.
LEMMA ConcatBetween ==
    ASSUME NEW S, S \subseteq Nat, NEW s \in Seq(S), NEW t \in Seq(S), NEW u, u = s \o t
    PROVE  /\ \A v : Before(s, v) /\ Before(t, v) => Before(u, v)
           /\ \A v : Before(v, s) /\ Before(v, t) => Before(v, u)
           /\ \A n : UpTo(s, n) /\ UpTo(t, n) => UpTo(u, n)
<1>1. /\ u \in Seq(S) /\ Len(u) = Len(s) + Len(t)
      /\ \A i \in 1..(Len(s) + Len(t)) : u[i] = IF i <= Len(s) THEN s[i] ELSE t[i - Len(s)]
    BY ConcatProperties
<1>2. /\ Len(s) \in Nat /\ Len(t) \in Nat
      /\ DOMAIN s = 1..Len(s) /\ DOMAIN t = 1..Len(t) /\ DOMAIN u = 1..(Len(s) + Len(t))
    BY <1>1, LenProperties
<1>3. \A i \in DOMAIN u : (\E k \in DOMAIN s : u[i] = s[k]) \/ (\E k \in DOMAIN t : u[i] = t[k])
    <2> SUFFICES ASSUME NEW i \in DOMAIN u
                 PROVE  (\E k \in DOMAIN s : u[i] = s[k]) \/ (\E k \in DOMAIN t : u[i] = t[k])
        OBVIOUS
    <2>1. CASE i <= Len(s)
        BY <1>1, <1>2, <2>1
    <2>2. CASE i > Len(s)
        <3>1. i - Len(s) \in DOMAIN t /\ u[i] = t[i - Len(s)]
            BY <1>1, <1>2, <2>2
        <3> QED
            BY <3>1
    <2> QED
        BY <1>2, <2>1, <2>2
<1>4. \A v : Before(s, v) /\ Before(t, v) => Before(u, v)
    BY <1>3 DEF Before
<1>5. \A v : Before(v, s) /\ Before(v, t) => Before(v, u)
    BY <1>3 DEF Before
<1>6. \A n : UpTo(s, n) /\ UpTo(t, n) => UpTo(u, n)
    BY <1>3 DEF UpTo
<1> QED
    BY <1>4, <1>5, <1>6

\* Nothing precedes everything and reaches no byte.
LEMMA EmptyBetween ==
    ASSUME NEW v, NEW n
    PROVE  Increasing(<< >>) /\ Before(<< >>, v) /\ Before(v, << >>) /\ UpTo(<< >>, n)
BY DEF Increasing, Before, UpTo

\* The bytes are forgotten that a call held, a ReadFile had, or the queue.
LEMMA InLineForgets ==
    ASSUME NEW d, NEW h, NEW g, NEW r, NEW n, InLine(d, h, g, r, n)
    PROVE  /\ InLine(d, h, << >>, r, n) /\ InLine(d, << >>, << >>, r, n)
           /\ InLine(d, h, g, << >>, n)
BY EmptyBetween DEF InLine

\* g is the first k of r, and q the others.
Parts(r, k, g, q) == g = SubSeq(r, 1, k) /\ q = SubSeq(r, k + 1, Len(r))

\* They are as long as r together.
Lengths(r, k, g, q) == Len(g) = k /\ Len(q) = Len(r) - k

\* A ReadFile takes from the front of the queue.
LEMMA InLineTakes ==
    ASSUME NEW S, S \subseteq Nat, NEW r \in Seq(S), NEW k \in Nat, k <= Len(r),
           NEW d, NEW h, NEW n, InLine(d, h, << >>, r, n),
           NEW g, NEW q, Parts(r, k, g, q)
    PROVE  g \in Seq(S) /\ q \in Seq(S) /\ Lengths(r, k, g, q) /\ InLine(d, h, g, q, n)
<1>1. Len(r) \in Nat /\ DOMAIN r = 1..Len(r) /\ k \in Nat /\ k <= Len(r)
    BY LenProperties
<1>2. /\ g \in Seq(S) /\ Len(g) = k /\ DOMAIN g = 1..k
      /\ \A i \in 1..k : g[i] = r[i]
    BY <1>1, SubSeqProperties, LenProperties DEF Parts
<1> DEFINE l == Len(r)
           from == k + 1
<1>3. /\ q \in Seq(S) /\ Len(q) = l - k /\ DOMAIN q = 1..(l - k)
      /\ \A i \in 1..(l - k) : q[i] = r[k + i]
    <2>1. l \in Nat /\ k \in Nat /\ from = k + 1 /\ q = SubSeq(r, from, l) /\ k <= l
        BY <1>1 DEF Parts
    <2>2. \A i \in from..l : r[i] \in S
        BY <1>1, ElementOfSeq
    <2> HIDE DEF l, from
    <2>3. /\ q \in Seq(S) /\ Len(q) = IF from <= l THEN l - from + 1 ELSE 0
          /\ \A i \in 1..(l - from + 1) : q[i] = r[from + i - 1]
        BY <2>1, <2>2, SubSeqProperties
    <2>4. Len(q) = l - k /\ l - from + 1 = l - k /\ \A i \in Int : from + i - 1 = k + i
        BY <2>1, <2>3
    <2>5. DOMAIN q = 1..(l - k)
        BY <2>3, <2>4, LenProperties
    <2>6. ASSUME NEW i \in 1..(l - k)
          PROVE  q[i] = r[k + i]
        <3>1. i \in Int /\ i \in 1..(l - from + 1)
            BY <2>1, <2>4
        <3> QED
            BY <2>3, <2>4, <3>1
    <2> QED
        BY <2>3, <2>4, <2>5, <2>6
<1>4. \A i \in DOMAIN g : i \in DOMAIN r /\ g[i] = r[i]
    BY <1>1, <1>2
<1>5. \A i \in DOMAIN q : k + i \in DOMAIN r /\ q[i] = r[k + i]
    <2>1. l \in Nat /\ DOMAIN r = 1..l
        BY <1>1
    <2> HIDE DEF l
    <2>2. \A i \in 1..(l - k) : k + i \in 1..l
        BY <1>1, <2>1
    <2> QED
        BY <1>3, <2>1, <2>2
<1>6. Increasing(g) /\ Increasing(q) /\ Before(g, q)
    <2>1. Increasing(g)
        BY <1>4 DEF InLine, Increasing
    <2>2. ASSUME NEW i \in DOMAIN q, NEW j \in DOMAIN q, i < j
          PROVE  k + i < k + j
        <3>1. l \in Nat /\ k \in Nat /\ i \in 1..(l - k) /\ j \in 1..(l - k)
            BY <1>1, <1>3
        <3> HIDE DEF l
        <3> QED
            BY <2>2, <3>1
    <2>3. Increasing(q)
        BY <1>5, <2>2 DEF InLine, Increasing
    <2>4. \A i \in 1..k, j \in DOMAIN q : i < k + j
        BY <1>1, <1>3
    <2>5. Before(g, q)
        BY <1>2, <1>4, <1>5, <2>4 DEF InLine, Increasing, Before
    <2> QED
        BY <2>1, <2>3, <2>5
<1>7. /\ Before(d, g) /\ Before(h, g) /\ UpTo(g, n)
      /\ Before(d, q) /\ Before(h, q) /\ UpTo(q, n)
    BY <1>4, <1>5 DEF InLine, Before, UpTo
<1> QED
    BY <1>2, <1>3, <1>6, <1>7 DEF InLine, Lengths

\* The bytes of a ReadFile become the call's, and those of a call the
\* application's.
LEMMA InLineJoins ==
    ASSUME NEW S, S \subseteq Nat, NEW d \in Seq(S), NEW h \in Seq(S), NEW g \in Seq(S),
           NEW r \in Seq(S), NEW n \in Nat, InLine(d, h, g, r, n)
    PROVE  InLine(d, h \o g, << >>, r, n) /\ InLine(d \o h, << >>, << >>, r, n)
<1> DEFINE hg == h \o g
           dh == d \o h
<1>1. hg = h \o g /\ dh = d \o h
    OBVIOUS
<1> HIDE DEF hg, dh
<1>2. Increasing(hg) /\ Increasing(dh)
    BY <1>1, IncreasingConcat DEF InLine
<1>3. Before(d, hg) /\ Before(hg, r) /\ UpTo(hg, n)
    <2>1. /\ \A v : Before(h, v) /\ Before(g, v) => Before(hg, v)
          /\ \A v : Before(v, h) /\ Before(v, g) => Before(v, hg)
          /\ \A m : UpTo(h, m) /\ UpTo(g, m) => UpTo(hg, m)
        BY <1>1, ConcatBetween
    <2> QED
        BY <2>1 DEF InLine
<1>4. Before(dh, r) /\ UpTo(dh, n)
    <2>1. /\ \A v : Before(d, v) /\ Before(h, v) => Before(dh, v)
          /\ \A m : UpTo(d, m) /\ UpTo(h, m) => UpTo(dh, m)
        BY <1>1, ConcatBetween
    <2> QED
        BY <2>1 DEF InLine
<1>5. InLine(d, hg, << >>, r, n) /\ InLine(dh, << >>, << >>, r, n)
    BY <1>2, <1>3, <1>4, EmptyBetween DEF InLine
<1> QED
    BY <1>1, <1>5

\* The byte sent next lies behind all that were.
LEMMA NextByte ==
    ASSUME NEW S, S \subseteq Nat, NEW n \in Nat, n + 1 \in S, NEW s \in Seq(S), UpTo(s, n)
    PROVE  /\ UpTo(s, n + 1)
           /\ Increasing(s) => Increasing(Append(s, n + 1))
           /\ UpTo(Append(s, n + 1), n + 1)
           /\ \A v \in Seq(S) : UpTo(v, n) /\ Before(v, s) => Before(v, Append(s, n + 1))
<1> DEFINE t == Append(s, n + 1)
<1>1. /\ t \in Seq(S) /\ Len(t) = Len(s) + 1 /\ Len(s) \in Nat
      /\ DOMAIN s = 1..Len(s) /\ DOMAIN t = 1..(Len(s) + 1)
      /\ (\A i \in 1..Len(s) : t[i] = s[i]) /\ t[Len(s) + 1] = n + 1
    BY AppendProperties, LenProperties
<1> HIDE DEF t
<1>2. \A v \in Seq(S) : \A i \in DOMAIN v : v[i] \in Nat
    BY ElementOfSeq, LenProperties
<1>3. \A v \in Seq(S) : UpTo(v, n) => \A i \in DOMAIN v : v[i] < n + 1
    BY <1>2 DEF UpTo
<1>4. UpTo(s, n + 1)
    BY <1>2, <1>3 DEF UpTo
<1>5. \A i \in DOMAIN t : i \in DOMAIN s \/ i = Len(s) + 1
    BY <1>1
<1>6. UpTo(t, n + 1)
    BY <1>1, <1>4, <1>5 DEF UpTo
<1>7. ASSUME Increasing(s)
      PROVE  Increasing(t)
    <2> SUFFICES ASSUME NEW i \in DOMAIN t, NEW j \in DOMAIN t, i < j
                 PROVE  t[i] < t[j]
        BY DEF Increasing
    <2>1. i \in DOMAIN s
        BY <1>1
    <2> QED
        BY <1>1, <1>3, <1>5, <1>7, <2>1 DEF Increasing
<1>8. ASSUME NEW v \in Seq(S), UpTo(v, n), Before(v, s)
      PROVE  Before(v, t)
    BY <1>1, <1>3, <1>5, <1>8 DEF Before
<1> QED
    BY <1>4, <1>6, <1>7, <1>8 DEF t

\* It goes to a ReadFile that has emptied the queue, or to the queue.
LEMMA InLineArrives ==
    ASSUME NEW S, S \subseteq Nat, NEW d \in Seq(S), NEW h \in Seq(S), NEW g \in Seq(S),
           NEW r \in Seq(S), NEW n \in Nat, n + 1 \in S, InLine(d, h, g, r, n)
    PROVE  /\ r = << >> => InLine(d, h, Append(g, n + 1), r, n + 1)
           /\ InLine(d, h, g, Append(r, n + 1), n + 1)
<1>1. UpTo(d, n + 1) /\ UpTo(h, n + 1) /\ UpTo(g, n + 1) /\ UpTo(r, n + 1)
    BY NextByte DEF InLine
<1>2. ASSUME r = << >>
      PROVE  InLine(d, h, Append(g, n + 1), r, n + 1)
    <2> DEFINE ga == Append(g, n + 1)
    <2>1. Increasing(ga) /\ UpTo(ga, n + 1) /\ Before(d, ga) /\ Before(h, ga)
        BY NextByte DEF InLine
    <2> HIDE DEF ga
    <2>2. InLine(d, h, ga, r, n + 1)
        BY <1>1, <1>2, <2>1, EmptyBetween DEF InLine
    <2> QED
        BY <2>2 DEF ga
<1>3. InLine(d, h, g, Append(r, n + 1), n + 1)
    <2> DEFINE ra == Append(r, n + 1)
    <2>1. /\ Increasing(ra) /\ UpTo(ra, n + 1)
          /\ Before(d, ra) /\ Before(h, ra) /\ Before(g, ra)
        BY NextByte DEF InLine
    <2> HIDE DEF ra
    <2>2. InLine(d, h, g, ra, n + 1)
        BY <1>1, <2>1 DEF InLine
    <2> QED
        BY <2>2 DEF ra
<1> QED
    BY <1>2, <1>3

\* The beginning of a sequence is that of any sequence it begins.
LEMMA PrefixStays ==
    ASSUME NEW S, NEW s \in Seq(S), NEW t \in Seq(S), NEW n \in 1..Len(s),
           \A i \in 1..Len(s) : t[i] = s[i], Len(s) <= Len(t)
    PROVE  SubSeq(t, 1, n) = SubSeq(s, 1, n)
<1>1. Len(s) \in Nat /\ Len(t) \in Nat /\ n \in Int /\ n >= 1
    BY LenProperties
<1>2. \A i \in 1..n : s[i] \in S /\ t[i] \in S
    BY <1>1, ElementOfSeq
<1>3. /\ SubSeq(s, 1, n) \in Seq(S) /\ Len(SubSeq(s, 1, n)) = n
      /\ \A i \in 1..n : SubSeq(s, 1, n)[i] = s[i]
    BY <1>1, <1>2, SubSeqProperties
<1>4. /\ SubSeq(t, 1, n) \in Seq(S) /\ Len(SubSeq(t, 1, n)) = n
      /\ \A i \in 1..n : SubSeq(t, 1, n)[i] = t[i]
    BY <1>1, <1>2, SubSeqProperties
<1> DEFINE p == SubSeq(s, 1, n)
           q == SubSeq(t, 1, n)
<1>5. \A i \in 1..n : q[i] = p[i]
    BY <1>1, <1>3, <1>4
<1>6. /\ p \in Seq(S) /\ q \in Seq(S) /\ Len(p) = n /\ Len(q) = n
    BY <1>3, <1>4
<1> HIDE DEF p, q
<1>7. q = p
    BY <1>5, <1>6, SeqEqual
<1> QED
    BY <1>7 DEF p, q

\* A sequence is the whole of its prefixes.
LEMMA WholePrefix ==
    ASSUME NEW S, NEW s \in Seq(S)
    PROVE  SubSeq(s, 1, Len(s)) = s
<1>1. Len(s) \in Nat /\ \A i \in 1..Len(s) : s[i] \in S
    BY LenProperties, ElementOfSeq
<1> DEFINE n == Len(s)
           p == SubSeq(s, 1, n)
<1>2. p \in Seq(S) /\ Len(p) = n /\ \A i \in 1..n : p[i] = s[i]
    BY <1>1, SubSeqProperties
<1> HIDE DEF p
<1>3. p = s
    BY <1>2, SeqEqual
<1> QED
    BY <1>3 DEF p

-----------------------------------------------------------------------------
(* The chunk of module PendingIo, with its side of the port to itself.     *)

\* The reader is the only caller and works on the read side.
LEMMA SoleReader == IO!Callers = {Reader} /\ IO!OpOf(Reader) = "kRead" /\ "kRead" \in IO!Operation
BY DEF IO!Callers, IO!OpOf, IO!Operation

IoInv == IO!TypeOK /\ IoSound

\* A step that starts no I/O and does not undo the cancelling of one.
IoGoesOn ==
    /\ io'[Reader] \in IO!IoOwned => io[Reader] \in IO!IoOwned
    /\ io'[Reader] = "inflight" => io[Reader] = "inflight"

\* A chunk that never issues its I/O.
LEMMA IoFailsToStart ==
    ASSUME IoInv, IO!CreateEventFails(Reader) \/ IO!StartAborted(Reader)
    PROVE  IoInv' /\ pc'[Reader] = "idle" /\ outcome'[Reader] \in IO!IoOutcome
<1> USE SoleReader DEF IO!CreateEventFails, IO!StartAborted, IO!Return
<1>1. abortFlag' \in [IO!Operation -> BOOLEAN] /\ UNCHANGED <<pending, aborting>>
    BY DEF IoInv, IO!TypeOK
<1>2. /\ pc' \in [IO!Callers -> IO!CallerPc]
      /\ outcome' \in [IO!Callers -> IO!IoOutcome \cup {"none", "running"}]
      /\ io' \in [IO!Callers -> IO!IoOwned \cup IO!IoFinal \cup {"none"}]
    BY DEF IoInv, IO!TypeOK, IO!CallerPc, IO!IoOutcome
<1>3. pc'[Reader] = "idle" /\ io'[Reader] \notin IO!IoOwned
    BY DEF IoInv, IoSound, IO!TypeOK, IO!IoOwned
<1> QED
    BY <1>1, <1>2, <1>3 DEF IoInv, IoSound, IO!TypeOK

\* A chunk that issues it.
LEMMA IoStarts ==
    ASSUME IoInv, NEW ended \in {"inflight", "completed", "failed"},
           IO!StartPendingIo(Reader, ended)
    PROVE  IoInv'
BY SoleReader DEF IoInv, IoSound, IO!TypeOK, IO!StartPendingIo, IO!CallerPc, IO!IoOutcome,
                  IO!IoOwned, IO!IoFinal

\* A wait that is over, and the cancelling that follows it.
LEMMA IoWaitEnds ==
    ASSUME IoInv,
           IO!WaitTimesOut(Reader) \/ IO!WaitFails(Reader) \/ IO!CancelOwnIo(Reader)
    PROVE  IoInv' /\ pc'[Reader] # "idle" /\ IoGoesOn
<1>1. CASE IO!WaitTimesOut(Reader) \/ IO!WaitFails(Reader)
    <2>1. IoInv'
        BY <1>1, SoleReader DEF IO!WaitTimesOut, IO!WaitFails, IoInv, IoSound, IO!TypeOK,
                                IO!CallerPc
    <2>2. pc'[Reader] # "idle" /\ IoGoesOn
        BY <1>1, SoleReader DEF IO!WaitTimesOut, IO!WaitFails, IoInv, IO!TypeOK, IoGoesOn
    <2> QED
        BY <2>1, <2>2
<1>2. CASE IO!CancelOwnIo(Reader)
    <2>1. IoInv'
        BY <1>2, SoleReader DEF IO!CancelOwnIo, IO!CancelIoEx, IoInv, IoSound, IO!TypeOK,
                                IO!CallerPc, IO!IoOwned
    <2>2. pc'[Reader] # "idle" /\ IoGoesOn
        BY <1>2, SoleReader DEF IO!CancelOwnIo, IO!CancelIoEx, IoInv, IO!TypeOK, IO!IoOwned,
                                IoGoesOn
    <2> QED
        BY <2>1, <2>2
<1> QED
    BY <1>1, <1>2

\* finishPendingIo returns only when the kernel is done.
LEMMA IoFinishes ==
    ASSUME IoInv, IO!Finish(Reader)
    PROVE  IoInv' /\ outcome'[Reader] \in IO!IoOutcome /\ IoGoesOn
<1>1. PICK verdict \in IO!IoOutcome :
        IO!FinishPendingIo(Reader, verdict) /\ io[Reader] \in IO!IoFinal
    BY SoleReader DEF IO!Finish, IO!FinishAtOnce, IO!FinishSignalled, IO!FinishDrained,
                      IO!ResultOf, IO!IoFinal, IO!IoOutcome, IoInv, IoSound
<1>2. PICK actual \in IO!IoOutcome : IO!Return(Reader, actual)
    BY <1>1 DEF IO!FinishPendingIo, IO!IoOutcome
<1>3. /\ abortFlag' \in [IO!Operation -> BOOLEAN]
      /\ pending' \in [IO!Operation -> IO!Callers \cup {NullPtr}]
      /\ UNCHANGED aborting
    BY <1>1, SoleReader DEF IO!FinishPendingIo, IoInv, IO!TypeOK
<1>4. /\ pc' \in [IO!Callers -> IO!CallerPc]
      /\ outcome' \in [IO!Callers -> IO!IoOutcome \cup {"none", "running"}]
      /\ io' \in [IO!Callers -> IO!IoOwned \cup IO!IoFinal \cup {"none"}]
      /\ pc'[Reader] = "idle" /\ io'[Reader] = "none" /\ outcome'[Reader] = actual
    BY <1>1, <1>2, SoleReader DEF IO!Return, IoInv, IO!TypeOK, IO!CallerPc
<1> QED
    BY <1>3, <1>4 DEF IoInv, IoSound, IO!TypeOK, IO!IoOwned, IoGoesOn

\* The kernel ends the I/O.
LEMMA IoIsEnded ==
    ASSUME IoInv, NEW ended \in IO!IoFinal, IO!IoEnds(Reader, ended)
    PROVE  IoInv'
BY SoleReader DEF IO!IoEnds, IoInv, IoSound, IO!TypeOK, IO!IoFinal, IO!IoOwned

\* Another thread asks for an abort.
LEMMA IoIsAborted ==
    ASSUME IoInv, NEW a \in Aborters, IO!RequestAbort(a, "kRead") \/ IO!CancelPending(a)
    PROVE  IoInv' /\ UNCHANGED <<pc, outcome>> /\ IoGoesOn
<1>1. CASE IO!RequestAbort(a, "kRead")
    BY <1>1, SoleReader DEF IO!RequestAbort, IoInv, IoSound, IO!TypeOK, IoGoesOn
<1>2. CASE IO!CancelPending(a)
    <2>1. /\ aborting' \in [Aborters -> IO!Operation \cup {"none"}]
          /\ UNCHANGED <<abortFlag, pending, pc, outcome>>
        BY <1>2 DEF IO!CancelPending, IoInv, IO!TypeOK
    <2>2. io' = io \/ \E c : IO!CancelIoEx(c)
        BY <1>2 DEF IO!CancelPending
    <2>3. /\ io' \in [IO!Callers -> IO!IoOwned \cup IO!IoFinal \cup {"none"}]
          /\ io'[Reader] = io[Reader] \/ (io[Reader] = "inflight" /\ io'[Reader] = "cancelling")
        BY <2>2, SoleReader DEF IO!CancelIoEx, IoInv, IO!TypeOK, IO!IoOwned
    <2> QED
        BY <2>1, <2>3 DEF IoInv, IoSound, IO!TypeOK, IO!IoOwned, IoGoesOn
<1> QED
    BY <1>1, <1>2

-----------------------------------------------------------------------------
(* Steps.                                                                  *)

\* The numbers in a state of the read path.
LEMMA CallNumbers ==
    ASSUME TypeOK
    PROVE  /\ Bytes \subseteq Nat /\ sent \in Nat /\ want \in Nat /\ readTotal \in Nat
           /\ call.size \in Nat /\ call.size >= 1
           /\ rx \in Seq(Bytes) /\ got \in Seq(Bytes) /\ buf \in Seq(Bytes)
           /\ delivered \in Seq(Bytes)
           /\ Len(rx) \in Nat /\ Len(got) \in Nat /\ Len(buf) \in Nat
<1>1. Len(Stream) \in Nat /\ Sizes \subseteq Nat \ {0}
    BY StreamAssumption
<1>2. rx \in Seq(Bytes) /\ got \in Seq(Bytes) /\ buf \in Seq(Bytes) /\ delivered \in Seq(Bytes)
    BY DEF TypeOK
<1>3. Len(rx) \in Nat /\ Len(got) \in Nat /\ Len(buf) \in Nat
    BY <1>2, LenProperties
<1>4. sent \in Nat /\ want \in Nat /\ readTotal \in Nat /\ Bytes \subseteq Nat
    BY <1>1 DEF TypeOK, Bytes
<1>5. call.size \in Sizes
    BY DEF TypeOK
<1>6. call.size \in Nat /\ call.size >= 1
    <2>1. \A size \in Sizes : size \in Nat /\ size >= 1
        BY <1>1
    <2> QED
        BY <1>5, <2>1
<1> QED
    BY <1>2, <1>3, <1>4, <1>6

\* A buffer that does not change stops where it stopped.
LEMMA MatchStays ==
    ASSUME StopsAtFirstMatch, UNCHANGED <<buf, call>>, at = "idle" => at' = "idle"
    PROVE  StopsAtFirstMatch'
BY DEF StopsAtFirstMatch

\* Steps of the chunk and of the aborting threads that move no byte.
LEMMA IoOnly ==
    ASSUME IInv, IoInv', UNCHANGED <<lineVars, callVars, cleared>>,
           at = "chunk" \/ pc'[Reader] = pc[Reader],
           \/ pc'[Reader] # "idle" \/ outcome'[Reader] \in IO!IoOutcome
           \/ pc'[Reader] = pc[Reader] /\ outcome'[Reader] = outcome[Reader],
           IoGoesOn
    PROVE  IInv'
<1>1. TypeOK' /\ IoSound'
    BY DEF IInv, IoInv, TypeOK, lineVars, callVars
<1>2. InCall'
    BY DEF IInv, InCall, lineVars, callVars
<1>3. Ordered' /\ Fetches'
    BY DEF IInv, Ordered, Fetches, SeveralBytesNeverWait, held, lineVars, callVars, IoGoesOn
<1>4. StopsAtFirstMatch'
    BY MatchStays DEF IInv, callVars
<1> QED
    BY <1>1, <1>2, <1>3, <1>4 DEF IInv

\* Steps that leave the chunk alone keep what is known of it.
LEMMA IoStays ==
    ASSUME IInv, UNCHANGED ioVars
    PROVE  IoInv' /\ UNCHANGED <<pc, io, outcome>>
BY DEF IInv, TypeOK, IoInv, IoSound, IO!TypeOK, ioVars

\* A call begins with an empty buffer.
LEMMA CallStep ==
    ASSUME IInv, NEW size \in Sizes, NEW terminator \in Terminators, CallRead(size, terminator)
    PROVE  IInv'
<1>1. /\ at = "idle" /\ at' = "query" /\ buf' = << >>
      /\ call' = [size |-> size, terminator |-> terminator]
      /\ UNCHANGED <<lineVars, want, result, delivered, readTotal, cleared>>
      /\ UNCHANGED ioVars
    BY DEF CallRead
<1>2. IoInv' /\ UNCHANGED <<pc, io, outcome>>
    BY <1>1, IoStays
<1>3. << >> \in Seq(Bytes) /\ Len(<< >>) = 0
    BY EmptySeq
<1>4. TypeOK'
    BY <1>1, <1>2, <1>3 DEF IInv, TypeOK, IoInv, lineVars
<1>5. InCall'
    <2>1. size \in Nat /\ size > 0
        BY StreamAssumption
    <2> QED
        BY <1>1, <1>2, <1>3, <2>1 DEF IInv, InCall, lineVars
<1>6. Ordered'
    BY <1>1 DEF IInv, Ordered, held, lineVars
<1>7. Fetches'
    BY <1>1, <1>2 DEF IInv, Fetches, SeveralBytesNeverWait, lineVars
<1>8. StopsAtFirstMatch'
    BY <1>1, <1>3 DEF StopsAtFirstMatch
<1> QED
    BY <1>2, <1>4, <1>5, <1>6, <1>7, <1>8 DEF IInv, IoInv

\* The chunk fits, and asks for no more bytes than one or than are there.
LEMMA ChooseStep ==
    ASSUME IInv, ChooseChunk
    PROVE  IInv'
<1>1. /\ at = "query" /\ at' = "start" /\ want' = ChunkSize /\ cleared' = FALSE
      /\ UNCHANGED <<lineVars, call, buf, result, delivered, readTotal>>
      /\ UNCHANGED ioVars
    BY DEF ChooseChunk
<1>2. IoInv' /\ UNCHANGED <<pc, io, outcome>>
    BY <1>1, IoStays
<1>3. /\ call.size \in Nat /\ Len(rx) \in Nat /\ Len(buf) \in Nat /\ Len(buf) < call.size
      /\ got = << >> /\ pc[Reader] = "idle" /\ io[Reader] \notin IO!IoOwned
      /\ rx \in Seq(Bytes)
    BY <1>1, CallNumbers DEF IInv, InCall, IoSound
<1>4. /\ want' \in Nat /\ want' >= 1 /\ Len(buf) + want' <= call.size
      /\ call.terminator # << >> => want' = 1
      /\ want' > 1 => Len(rx) >= want'
    <2>1. CASE call.terminator # << >> \/ rx = << >>
        BY <1>1, <1>3, <2>1 DEF ChunkSize
    <2>2. CASE ~(call.terminator # << >> \/ rx = << >>)
        <3> DEFINE room == call.size - Len(buf)
                   there == Len(rx)
        <3>1. want' = Min({there, room})
            BY <1>1, <2>2 DEF ChunkSize
        <3>2. there >= 1
            BY <1>3, <2>2, EmptySeq
        <3>3. room \in Nat /\ room >= 1 /\ there \in Nat /\ Len(buf) + room = call.size
            BY <1>3
        <3> HIDE DEF room, there
        <3>4. /\ Min({there, room}) \in {there, room}
              /\ Min({there, room}) <= there /\ Min({there, room}) <= room
            <4>1. there \in Int /\ room \in Int
                BY <3>3
            <4> QED
                BY <4>1, MinOfTwo
        <3>5. want' \in Nat /\ want' >= 1 /\ want' <= there /\ want' <= room
            BY <3>1, <3>2, <3>3, <3>4
        <3>6. Len(buf) + want' <= call.size
            BY <1>3, <3>3, <3>5
        <3> QED
            BY <2>2, <3>5, <3>6 DEF there
    <2> QED
        BY <2>1, <2>2
<1>5. TypeOK'
    BY <1>1, <1>2, <1>4 DEF IInv, TypeOK, IoInv, lineVars
<1>6. InCall'
    <2>1. Len(got) = 0
        BY <1>3, EmptySeq
    <2> QED
        BY <1>1, <1>2, <1>3, <1>4, <2>1 DEF InCall, lineVars
<1>7. Ordered'
    BY <1>1 DEF IInv, Ordered, held, lineVars
<1>8. Fetches'
    BY <1>1, <1>2, <1>3, <1>4 DEF Fetches, SeveralBytesNeverWait, IO!IoOwned, lineVars
<1>9. StopsAtFirstMatch'
    BY <1>1, MatchStays DEF IInv
<1> QED
    BY <1>2, <1>5, <1>6, <1>7, <1>8, <1>9 DEF IInv, IoInv

\* A call that returns without another byte: what it holds is reported or
\* forgotten.
LEMMA ReturnStep ==
    ASSUME IInv, at # "idle", pc[Reader] = "idle", NEW status \in Status, Return(status, buf),
           got' = << >>, UNCHANGED <<ioVars, sent, rx, want, call, buf, readTotal, cleared>>
    PROVE  IInv'
<1>1. IoInv' /\ UNCHANGED <<pc, io, outcome>>
    BY IoStays
<1>2. /\ at' = "idle"
      /\ result' = [status |-> status, count |-> IF status = "ok" THEN Len(buf) ELSE 0]
      /\ delivered' = IF status = "ok" THEN delivered \o buf ELSE delivered
    BY DEF Return
<1>3. /\ Bytes \subseteq Nat /\ sent \in Nat /\ Len(buf) \in Nat
      /\ rx \in Seq(Bytes) /\ got \in Seq(Bytes)
      /\ buf \in Seq(Bytes) /\ delivered \in Seq(Bytes)
    BY CallNumbers DEF IInv
<1>4. io[Reader] \notin IO!IoOwned
    BY DEF IInv, IoSound
<1>5. TypeOK'
    <2>1. delivered' \in Seq(Bytes)
        BY <1>2, <1>3, ConcatProperties
    <2>2. << >> \in Seq(Bytes)
        BY EmptySeq
    <2>3. result' \in [status : Status, count : Nat]
        BY <1>2, <1>3
    <2> QED
        BY <1>1, <1>2, <1>3, <2>1, <2>2, <2>3 DEF IInv, TypeOK, IoInv
<1>6. InCall'
    BY <1>1, <1>2 DEF InCall
<1>7. Ordered'
    <2>1. InLine(delivered, buf, << >>, rx, sent)
        BY InLineForgets DEF IInv, Ordered, held
    <2>2. InLine(delivered \o buf, << >>, << >>, rx, sent)
        BY <1>3, <2>1, EmptySeq, InLineJoins
    <2>3. InLine(delivered, << >>, << >>, rx, sent)
        BY <2>1, InLineForgets
    <2> QED
        BY <1>2, <2>2, <2>3 DEF Ordered, held
<1>8. Fetches'
    BY <1>1, <1>2, <1>4 DEF Fetches, SeveralBytesNeverWait, IO!IoOwned
<1>9. StopsAtFirstMatch'
    BY <1>2, MatchStays DEF IInv
<1> QED
    BY <1>1, <1>5, <1>6, <1>7, <1>8, <1>9 DEF IInv, IoInv

\* The queue cannot be asked, or a chunk has not completed.
LEMMA CallEndsStep ==
    ASSUME IInv, QueryFails \/ ChunkEndsCall
    PROVE  IInv'
<1>1. CASE QueryFails
    <2>1. /\ at = "query" /\ Return("kGetStateError", buf)
          /\ UNCHANGED <<ioVars, lineVars, want, call, buf, readTotal, cleared>>
        BY <1>1 DEF QueryFails
    <2>2. pc[Reader] = "idle" /\ got' = << >> /\ UNCHANGED <<sent, rx>>
        BY <2>1 DEF IInv, InCall, lineVars
    <2>3. "kGetStateError" \in Status
        BY DEF Status
    <2> QED
        BY <2>1, <2>2, <2>3, ReturnStep
<1>2. CASE ChunkEndsCall
    <2> DEFINE status == CASE outcome[Reader] = "kTimedOut" -> "ok"
                           [] outcome[Reader] = "kAborted" -> "kAbortReadError"
                           [] outcome[Reader] = "kError" -> "kReadError"
    <2>1. /\ at = "chunk" /\ pc[Reader] = "idle" /\ outcome[Reader] # "kCompleted"
          /\ got' = << >> /\ Return(status, buf)
          /\ UNCHANGED <<ioVars, sent, rx, want, call, buf, readTotal, cleared>>
        BY <1>2 DEF ChunkEndsCall
    <2>2. outcome[Reader] \in {"kTimedOut", "kAborted", "kError"}
        BY <2>1 DEF IInv, InCall, IO!IoOutcome
    <2>3. status \in Status
        BY <2>2 DEF Status
    <2> HIDE DEF status
    <2> QED
        BY <2>1, <2>3, ReturnStep
<1> QED
    BY <1>1, <1>2

\* A chunk that fails to start.
LEMMA ChunkFailsStep ==
    ASSUME IInv, ChunkFails
    PROVE  IInv'
<1>1. /\ at = "start" /\ at' = "chunk" /\ got = << >> /\ got' = << >>
      /\ IO!CreateEventFails(Reader) \/ IO!StartAborted(Reader)
      /\ UNCHANGED <<sent, rx, want, call, buf, result, delivered, readTotal, cleared>>
    BY DEF ChunkFails, IInv, InCall
<1>2. IoInv' /\ pc'[Reader] = "idle" /\ outcome'[Reader] \in IO!IoOutcome
    BY <1>1, IoFailsToStart DEF IInv, TypeOK, IoInv
<1>3. TypeOK'
    BY <1>1, <1>2 DEF IInv, TypeOK, IoInv
<1>4. InCall'
    BY <1>1, <1>2 DEF IInv, InCall
<1>5. Ordered'
    BY <1>1 DEF IInv, Ordered, held
<1>6. Fetches'
    BY <1>1, <1>2 DEF Fetches, SeveralBytesNeverWait, IoInv, IoSound, IO!IoOwned
<1>7. StopsAtFirstMatch'
    BY <1>1, MatchStays DEF IInv
<1> QED
    BY <1>2, <1>3, <1>4, <1>5, <1>6, <1>7 DEF IInv, IoInv

\* A ReadFile takes what is there.
LEMMA ChunkStartsStep ==
    ASSUME IInv, NEW ended \in {"inflight", "completed", "failed"}, ChunkStarts(ended)
    PROVE  IInv'
<1> DEFINE taken == IF ended = "failed" THEN 0 ELSE Min({want, Len(rx)})
<1>1. /\ at = "start" /\ at' = "chunk" /\ got = << >>
      /\ IO!StartPendingIo(Reader, ended)
      /\ got' = SubSeq(rx, 1, taken) /\ rx' = SubSeq(rx, taken + 1, Len(rx))
      /\ UNCHANGED <<sent, want, call, buf, result, delivered, readTotal, cleared>>
    BY DEF ChunkStarts, IInv, InCall
<1>2. /\ Bytes \subseteq Nat /\ want \in Nat /\ Len(rx) \in Nat /\ rx \in Seq(Bytes)
      /\ sent \in Nat
    BY CallNumbers DEF IInv
<1>3. IoInv' /\ io'[Reader] = ended /\ pc'[Reader] # "idle"
    <2>1. IoInv'
        BY <1>1, IoStarts DEF IInv, TypeOK, IoInv
    <2> QED
        BY <1>1, <2>1, SoleReader DEF IInv, TypeOK, IO!TypeOK, IO!StartPendingIo
<1>4. /\ taken \in 0..Len(rx) /\ taken <= want
      /\ ended # "failed" => taken = want \/ taken = Len(rx)
    <2> DEFINE there == Len(rx)
    <2>1. there \in Nat
        BY <1>2
    <2> HIDE DEF there
    <2>2. /\ Min({want, there}) \in {want, there}
          /\ Min({want, there}) <= want /\ Min({want, there}) <= there
        <3>1. want \in Int /\ there \in Int
            BY <1>2, <2>1
        <3> QED
            BY <3>1, MinOfTwo
    <2>3. Min({want, there}) \in 0..there
        BY <1>2, <2>1, <2>2
    <2> QED
        BY <1>2, <2>1, <2>2, <2>3 DEF there
<1> HIDE DEF taken
<1>5. InLine(delivered, buf, << >>, rx, sent)
    BY <1>1 DEF IInv, Ordered, held
<1>6. /\ got' \in Seq(Bytes) /\ Len(got') = taken
      /\ rx' \in Seq(Bytes) /\ Len(rx') = Len(rx) - taken
      /\ InLine(delivered, buf, got', rx', sent)
    <2> DEFINE g == SubSeq(rx, 1, taken)
               q == SubSeq(rx, taken + 1, Len(rx))
    <2>1. Parts(rx, taken, g, q) /\ g = SubSeq(rx, 1, taken) /\ q = SubSeq(rx, taken + 1, Len(rx))
        BY DEF Parts
    <2> HIDE DEF g, q
    <2>2. Bytes \subseteq Nat /\ rx \in Seq(Bytes) /\ taken \in Nat /\ taken <= Len(rx)
        BY <1>2, <1>4
    <2>3. InLine(delivered, buf, << >>, rx, sent) /\ Parts(rx, taken, g, q)
        BY <1>5, <2>1
    <2>4. /\ g \in Seq(Bytes) /\ q \in Seq(Bytes) /\ Lengths(rx, taken, g, q)
          /\ InLine(delivered, buf, g, q, sent)
        BY <2>2, <2>3, InLineTakes
    <2> QED
        BY <1>1, <2>1, <2>4 DEF Lengths
<1>7. TypeOK'
    BY <1>1, <1>3, <1>6 DEF IInv, TypeOK, IoInv
<1>8. InCall'
    BY <1>1, <1>3, <1>4, <1>6 DEF IInv, InCall
<1>9. Ordered'
    BY <1>1, <1>6 DEF Ordered, held
<1>10. Fetches'
    <2>1. ASSUME io'[Reader] \in IO!IoOwned, Len(got') < want
          PROVE  rx' = << >>
        <3>1. Len(rx') = 0
            BY <1>2, <1>3, <1>4, <1>6, <2>1 DEF IO!IoOwned
        <3> QED
            BY <1>6, <3>1, EmptySeq
    <2>2. ASSUME io'[Reader] = "inflight", want > 1, ~cleared
          PROVE  Len(got') = want
        <3>1. Len(rx) >= want
            BY <1>1, <2>2 DEF IInv, Fetches
        <3> QED
            BY <1>2, <1>3, <1>4, <1>6, <2>2, <3>1
    <2> QED
        BY <1>1, <2>1, <2>2 DEF Fetches, SeveralBytesNeverWait
<1>11. StopsAtFirstMatch'
    BY <1>1, MatchStays DEF IInv
<1> QED
    BY <1>3, <1>7, <1>8, <1>9, <1>10, <1>11 DEF IInv, IoInv

\* A completed chunk joins what the call holds.
LEMMA ChunkEndsStep ==
    ASSUME IInv, ChunkEnds
    PROVE  IInv'
<1> DEFINE output == buf \o got
           done == got = << >> \/ FullOrMatched(output)
<1>1. /\ at = "chunk" /\ pc[Reader] = "idle"
      /\ got' = << >> /\ buf' = output /\ readTotal' = readTotal + Len(got)
      /\ UNCHANGED <<sent, rx, want, call, cleared>>
      /\ UNCHANGED ioVars
    BY DEF ChunkEnds, ChunkDone
<1>2. \/ done /\ Return("ok", output)
      \/ ~done /\ at' = "query" /\ UNCHANGED <<result, delivered>>
    BY DEF ChunkEnds, ChunkDone
<1>3. IoInv' /\ UNCHANGED <<pc, io, outcome>>
    BY <1>1, IoStays
<1>4. /\ Bytes \subseteq Nat /\ sent \in Nat /\ want \in Nat /\ readTotal \in Nat
      /\ call.size \in Nat /\ Len(got) \in Nat /\ Len(buf) \in Nat
      /\ rx \in Seq(Bytes) /\ got \in Seq(Bytes) /\ buf \in Seq(Bytes)
      /\ delivered \in Seq(Bytes)
    BY CallNumbers DEF IInv
<1>5. io[Reader] \notin IO!IoOwned
    BY <1>1 DEF IInv, IoSound
<1>6. /\ output \in Seq(Bytes) /\ Len(output) = Len(buf) + Len(got) /\ Len(output) \in Nat
      /\ \A i \in 1..Len(buf) : output[i] = buf[i]
    BY <1>4, ConcatProperties
<1>7. at' \in {"idle", "query"} /\ (at' = "query" => ~done /\ UNCHANGED <<result, delivered>>)
    BY <1>2 DEF Return
<1>8. TypeOK'
    <2>1. << >> \in Seq(Bytes)
        BY EmptySeq
    <2>2. CASE Return("ok", output)
        <3>1. /\ at' = "idle" /\ result' = [status |-> "ok", count |-> Len(output)]
              /\ delivered' = delivered \o output
            BY <2>2 DEF Return
        <3>2. result' \in [status : Status, count : Nat] /\ delivered' \in Seq(Bytes)
            BY <1>4, <1>6, <3>1, ConcatProperties DEF Status
        <3> QED
            BY <1>1, <1>3, <1>4, <1>6, <2>1, <3>1, <3>2 DEF IInv, TypeOK, IoInv
    <2>3. CASE at' = "query" /\ UNCHANGED <<result, delivered>>
        BY <1>1, <1>3, <1>4, <1>6, <2>1, <2>3 DEF IInv, TypeOK, IoInv
    <2> QED
        BY <1>2, <2>2, <2>3
<1>9. InCall'
    <2>1. at' = "query" => Len(buf') < call'.size
        BY <1>1, <1>4, <1>6, <1>7 DEF FullOrMatched
    <2> QED
        BY <1>1, <1>3, <1>7, <2>1 DEF InCall
<1>10. Ordered'
    <2>1. InLine(delivered, buf, got, rx, sent)
        BY <1>1 DEF IInv, Ordered, held
    <2>2. InLine(delivered, output, << >>, rx, sent)
        BY <1>4, <2>1, InLineJoins
    <2> HIDE DEF output
    <2>3. InLine(delivered \o output, << >>, << >>, rx, sent)
        BY <1>4, <1>6, <2>2, EmptySeq, InLineJoins
    <2> QED
        BY <1>1, <1>2, <2>2, <2>3 DEF Ordered, held, Return
<1>11. Fetches'
    BY <1>1, <1>3, <1>5, <1>7 DEF Fetches, SeveralBytesNeverWait, IO!IoOwned
<1>12. StopsAtFirstMatch'
    <2> SUFFICES ASSUME NEW n \in 1..Len(output),
                        MatchesSuffix(SubSeq(output, 1, n), call.terminator)
                 PROVE  n = Len(output) /\ at' = "idle"
        BY <1>1 DEF StopsAtFirstMatch
    <2>1. Len(got) <= 1
        <3>1. call.terminator # << >>
            BY DEF MatchesSuffix
        <3> QED
            BY <1>1, <1>4, <3>1 DEF IInv, InCall
    <2>2. ~(n <= Len(buf))
        <3> SUFFICES ASSUME n <= Len(buf)
                     PROVE  FALSE
            OBVIOUS
        <3>1. SubSeq(output, 1, n) = SubSeq(buf, 1, n)
            BY <1>4, <1>6, PrefixStays
        <3>2. MatchesSuffix(SubSeq(buf, 1, n), call.terminator)
            BY <3>1
        <3>3. n \in 1..Len(buf)
            BY <1>4
        <3> QED
            BY <1>1, <3>2, <3>3 DEF IInv, StopsAtFirstMatch
    <2>3. n = Len(output)
        BY <1>4, <1>6, <2>1, <2>2
    <2>4. SubSeq(output, 1, n) = output
        BY <1>6, <2>3, WholePrefix
    <2>5. done
        BY <2>4 DEF FullOrMatched
    <2> QED
        BY <1>7, <2>3, <2>5
<1> QED
    BY <1>3, <1>8, <1>9, <1>10, <1>11, <1>12 DEF IInv, IoInv

\* A byte arrives behind all that arrived before.
LEMMA ArrivesStep ==
    ASSUME IInv, ByteArrives
    PROVE  IInv'
<1> DEFINE toRead == io[Reader] \in IO!IoOwned /\ Len(got) < want
<1>1. /\ sent < Len(Stream) /\ sent' = sent + 1
      /\ UNCHANGED <<callVars, cleared>>
      /\ UNCHANGED ioVars
      /\ \/ toRead /\ got' = Append(got, sent + 1) /\ UNCHANGED rx
         \/ ~toRead /\ rx' = Append(rx, sent + 1) /\ UNCHANGED got
    BY DEF ByteArrives, IO!IoOwned
<1>2. IoInv' /\ UNCHANGED <<pc, io, outcome>>
    BY <1>1, IoStays
<1>3. /\ Bytes \subseteq Nat /\ sent \in Nat /\ want \in Nat /\ Len(got) \in Nat
      /\ Len(rx) \in Nat /\ Len(buf) \in Nat
      /\ rx \in Seq(Bytes) /\ got \in Seq(Bytes) /\ buf \in Seq(Bytes)
      /\ delivered \in Seq(Bytes)
    BY CallNumbers DEF IInv
<1>4. sent + 1 \in Bytes /\ sent' \in 0..Len(Stream)
    BY <1>1, <1>3, StreamAssumption DEF Bytes
<1>5. held \in Seq(Bytes) /\ held' = held
    BY <1>1, <1>3, EmptySeq DEF held, callVars
<1>6. InLine(delivered, held, got, rx, sent)
    BY DEF IInv, Ordered
<1>7. CASE toRead /\ got' = Append(got, sent + 1) /\ UNCHANGED rx
    <2>1. got' \in Seq(Bytes) /\ Len(got') = Len(got) + 1 /\ Len(got') <= want
        BY <1>3, <1>4, <1>7, AppendProperties
    <2>2. rx = << >> /\ at = "chunk"
        BY <1>7 DEF IInv, Fetches, InCall, IoSound
    <2>3. TypeOK'
        BY <1>1, <1>2, <1>3, <1>4, <1>7, <2>1 DEF IInv, TypeOK, IoInv, callVars
    <2>4. InCall'
        BY <1>1, <1>2, <2>1, <2>2 DEF IInv, InCall, callVars
    <2>5. Ordered'
        BY <1>1, <1>3, <1>4, <1>5, <1>6, <1>7, <2>2, InLineArrives DEF Ordered, callVars
    <2>6. Fetches'
        <3>1. io[Reader] = "inflight" /\ want > 1 /\ ~cleared => Len(got') = want
            BY <1>3, <1>7 DEF IInv, Fetches, SeveralBytesNeverWait
        <3> QED
            BY <1>1, <1>2, <1>7, <2>2, <3>1 DEF Fetches, SeveralBytesNeverWait, callVars
    <2>7. StopsAtFirstMatch'
        BY <1>1, MatchStays DEF IInv, callVars
    <2> QED
        BY <1>2, <2>3, <2>4, <2>5, <2>6, <2>7 DEF IInv, IoInv
<1>8. CASE ~toRead /\ rx' = Append(rx, sent + 1) /\ UNCHANGED got
    <2>1. rx' \in Seq(Bytes) /\ Len(rx') = Len(rx) + 1
        BY <1>3, <1>4, <1>8, AppendProperties
    <2>2. TypeOK'
        BY <1>1, <1>2, <1>3, <1>4, <1>8, <2>1 DEF IInv, TypeOK, IoInv, callVars
    <2>3. InCall'
        BY <1>1, <1>2, <1>8 DEF IInv, InCall, callVars
    <2>4. Ordered'
        BY <1>1, <1>3, <1>4, <1>5, <1>6, <1>8, InLineArrives DEF Ordered, callVars
    <2>5. Fetches'
        <3>1. at = "start" /\ want > 1 /\ ~cleared => Len(rx') >= want
            BY <1>3, <2>1 DEF IInv, Fetches
        <3> QED
            BY <1>1, <1>2, <1>8, <3>1 DEF IInv, Fetches, SeveralBytesNeverWait, callVars
    <2>6. StopsAtFirstMatch'
        BY <1>1, MatchStays DEF IInv, callVars
    <2> QED
        BY <1>2, <2>2, <2>3, <2>4, <2>5, <2>6 DEF IInv, IoInv
<1> QED
    BY <1>1, <1>7, <1>8

\* Another thread empties the queue.
LEMMA ClearStep ==
    ASSUME IInv, ClearBufferIn
    PROVE  IInv'
<1>1. /\ rx' = << >> /\ cleared' = TRUE /\ UNCHANGED <<sent, got, callVars>> /\ UNCHANGED ioVars
    BY DEF ClearBufferIn
<1>2. IoInv' /\ UNCHANGED <<pc, io, outcome>>
    BY <1>1, IoStays
<1>3. TypeOK'
    <2>1. << >> \in Seq(Bytes)
        BY EmptySeq
    <2> QED
        BY <1>1, <1>2, <2>1 DEF IInv, TypeOK, IoInv, callVars
<1>4. InCall'
    BY <1>1, <1>2 DEF IInv, InCall, callVars
<1>5. Ordered'
    BY <1>1, InLineForgets DEF IInv, Ordered, held, callVars
<1>6. Fetches'
    BY <1>1, <1>2 DEF Fetches, SeveralBytesNeverWait
<1>7. StopsAtFirstMatch'
    BY <1>1, MatchStays DEF IInv, callVars
<1> QED
    BY <1>2, <1>3, <1>4, <1>5, <1>6, <1>7 DEF IInv, IoInv

-----------------------------------------------------------------------------
(* Theorems.                                                               *)

\* A port begins with nothing received.
LEMMA InitIInv == Init => IInv
<1> SUFFICES ASSUME Init
             PROVE  IInv
    OBVIOUS
<1>1. IO!TypeOK /\ pc[Reader] = "idle" /\ io[Reader] = "none"
    <2>1. abortFlag \in [IO!Operation -> BOOLEAN]
        BY DEF Init, IO!Init
    <2>2. /\ pending \in [IO!Operation -> IO!Callers \cup {NullPtr}]
          /\ pc \in [IO!Callers -> IO!CallerPc] /\ pc[Reader] = "idle"
          /\ io \in [IO!Callers -> IO!IoOwned \cup IO!IoFinal \cup {"none"}]
          /\ io[Reader] = "none"
          /\ outcome \in [IO!Callers -> IO!IoOutcome \cup {"none", "running"}]
          /\ aborting \in [Aborters -> IO!Operation \cup {"none"}]
        BY SoleReader DEF Init, IO!Init, IO!CallerPc
    <2> QED
        BY <2>1, <2>2 DEF IO!TypeOK
<1>2. << >> \in Seq(Bytes) /\ Len(<< >>) = 0
    BY EmptySeq
<1>3. TypeOK
    <2>1. sent \in 0..Len(Stream) /\ want \in Nat /\ readTotal \in Nat
        BY StreamAssumption DEF Init
    <2>2. call \in [size : Sizes, terminator : Terminators]
        BY StreamAssumption DEF Init
    <2>3. result \in [status : Status, count : Nat]
        BY DEF Init, Status
    <2>4. {rx, got, buf, delivered} \subseteq Seq(Bytes)
        BY <1>2 DEF Init
    <2> QED
        BY <1>1, <2>1, <2>2, <2>3, <2>4 DEF Init, TypeOK
<1>4. IoSound /\ InCall
    BY <1>1 DEF Init, IoSound, InCall, IO!IoOwned
<1>5. Ordered
    BY EmptyBetween DEF Init, Ordered, InLine, held
<1>6. Fetches /\ StopsAtFirstMatch
    BY <1>1, <1>2 DEF Init, Fetches, SeveralBytesNeverWait, StopsAtFirstMatch, IO!IoOwned
<1> QED
    BY <1>3, <1>4, <1>5, <1>6 DEF IInv

\* Every step keeps the invariant.
LEMMA StepIInv == IInv /\ [Next]_vars => IInv'
<1> SUFFICES ASSUME IInv, [Next]_vars
             PROVE  IInv'
    OBVIOUS
<1>1. IoInv
    BY DEF IInv, IoInv, TypeOK
<1>2. ASSUME NEW size \in Sizes, NEW terminator \in Terminators, CallRead(size, terminator)
      PROVE  IInv'
    BY <1>2, CallStep
<1>3. CASE ChooseChunk
    BY <1>3, ChooseStep
<1>4. CASE QueryFails \/ ChunkEndsCall
    BY <1>4, CallEndsStep
<1>5. CASE ChunkFails
    BY <1>5, ChunkFailsStep
<1>6. CASE \E ended \in {"inflight", "completed", "failed"} : ChunkStarts(ended)
    BY <1>6, ChunkStartsStep
<1>7. CASE ChunkFinishes
    BY <1>1, <1>7, IoFinishes, IoOnly DEF ChunkFinishes
<1>8. CASE ChunkEnds
    BY <1>8, ChunkEndsStep
<1>9. CASE ChunkTimesOut \/ ChunkWaitFails
    BY <1>1, <1>9, IoWaitEnds, IoOnly DEF ChunkTimesOut, ChunkWaitFails
<1>10. CASE ByteArrives
    BY <1>10, ArrivesStep
<1>11. CASE \E ended \in IO!IoFinal : ReadEnds(ended)
    <2>1. PICK ended \in IO!IoFinal : ReadEnds(ended)
        BY <1>11
    <2>2. /\ IO!IoEnds(Reader, ended) /\ UNCHANGED <<pc, outcome>>
          /\ UNCHANGED <<lineVars, callVars, cleared>>
        BY <2>1 DEF ReadEnds, IO!IoEnds
    <2>3. IoInv' /\ io'[Reader] = ended
        BY <1>1, <2>2, IoIsEnded, SoleReader DEF IoInv, IO!TypeOK, IO!IoEnds
    <2> QED
        BY <2>2, <2>3, IoOnly DEF IO!IoFinal, IO!IoOwned, IoGoesOn
<1>12. CASE \E a \in Aborters : Abort(a)
    BY <1>1, <1>12, IoIsAborted, IoOnly DEF Abort
<1>13. CASE ClearBufferIn
    BY <1>13, ClearStep
<1>14. CASE UNCHANGED vars
    <2>1. IoInv' /\ UNCHANGED <<pc, io, outcome, lineVars, callVars, cleared>>
        BY <1>14, IoStays DEF vars
    <2> QED
        BY <2>1, IoOnly DEF IoGoesOn
<1> QED
    BY <1>2, <1>3, <1>4, <1>5, <1>6, <1>7, <1>8, <1>9, <1>10, <1>11, <1>12, <1>13, <1>14
    DEF Next, ReaderStep

\* The invariant holds as long as the port is open.
LEMMA InvariantAlways == Spec => []IInv
<1> QED
    BY InitIInv, StepIInv, PTL DEF Spec

\* Every state of the read path is of the types the model says.
THEOREM TypeCorrect == Spec => []TypeOK
<1>1. IInv => TypeOK
    BY DEF IInv
<1> QED
    BY <1>1, InvariantAlways, PTL

\* No chunk is larger than what is left of the caller's buffer, whatever
\* happened to the queue between the choice of its size and its start.
THEOREM NothingBehindBuffer == Spec => []StaysInBuffer
<1>1. IInv => StaysInBuffer
    BY DEF IInv, InCall, StaysInBuffer
<1> QED
    BY <1>1, InvariantAlways, PTL

\* Over any number of calls no byte is delivered twice or before an earlier
\* one, whichever chunks were aborted, timed out, short or cleared away.
THEOREM BytesInOrder == Spec => []InOrder
<1>1. IInv => InOrder
    <2> SUFFICES ASSUME IInv
                 PROVE  InOrder
        OBVIOUS
    <2> DEFINE seen == delivered \o held
    <2>1. Bytes \subseteq Nat /\ delivered \in Seq(Bytes) /\ held \in Seq(Bytes)
        BY CallNumbers, EmptySeq DEF IInv, held
    <2>2. seen = delivered \o held
        OBVIOUS
    <2> HIDE DEF seen
    <2>3. Increasing(seen)
        BY <2>1, <2>2, IncreasingConcat DEF IInv, Ordered, InLine
    <2> QED
        BY <2>2, <2>3 DEF InOrder, Increasing, held
<1> QED
    BY <1>1, InvariantAlways, PTL

\* serialReadUntilSequence leaves the bytes behind the terminator alone.
THEOREM FirstMatchEnds == Spec => []StopsAtFirstMatch
<1>1. IInv => StopsAtFirstMatch
    BY DEF IInv
<1> QED
    BY <1>1, InvariantAlways, PTL

\* A ReadFile for several bytes has them from its start on, unless the queue
\* was cleared in between.
THEOREM SeveralBytesAreThere == Spec => []SeveralBytesNeverWait
<1>1. IInv => SeveralBytesNeverWait
    BY DEF IInv, Fetches
<1> QED
    BY <1>1, InvariantAlways, PTL

\* A queue cut in two keeps its length.
LEMMA CutKeepsLength ==
    ASSUME NEW S, NEW s \in Seq(S), NEW n \in 0..Len(s)
    PROVE  Len(SubSeq(s, 1, n)) + Len(SubSeq(s, n + 1, Len(s))) = Len(s)
<1>1. Len(s) \in Nat /\ \A i \in 1..Len(s) : s[i] \in S
    BY LenProperties, ElementOfSeq
<1>2. \A i \in 1..n : s[i] \in S
    BY <1>1
<1>3. \A i \in (n + 1)..Len(s) : s[i] \in S
    BY <1>1
<1>4. Len(SubSeq(s, 1, n)) = n
    BY <1>1, <1>2, SubSeqProperties
<1>5. Len(SubSeq(s, n + 1, Len(s))) = Len(s) - n
    <2>1. n + 1 \in Int /\ Len(s) \in Int
        BY <1>1
    <2>2. Len(SubSeq(s, n + 1, Len(s))) =
            IF n + 1 <= Len(s) THEN Len(s) - (n + 1) + 1 ELSE 0
        BY <1>1, <1>3, <2>1, SubSeqProperties
    <2> QED
        BY <1>1, <2>2
<1> DEFINE front == Len(SubSeq(s, 1, n))
           back == Len(SubSeq(s, n + 1, Len(s)))
           all == Len(s)
<1>6. all \in Nat /\ front = n /\ back = all - n
    BY <1>1, <1>4, <1>5
<1>7. front + back = all
    <2> HIDE DEF front, back, all
    <2> QED
        BY <1>6
<1> QED
    BY <1>7

\* No step counts a byte twice, or reports one that was not counted.
LEMMA TotalStep ==
    ASSUME IInv, ReadTotalCounts, [Next]_vars
    PROVE  ReadTotalCounts'
<1>1. /\ Bytes \subseteq Nat /\ sent \in Nat /\ want \in Nat /\ readTotal \in Nat
      /\ rx \in Seq(Bytes) /\ got \in Seq(Bytes) /\ buf \in Seq(Bytes) /\ delivered \in Seq(Bytes)
      /\ Len(rx) \in Nat /\ Len(got) \in Nat /\ Len(buf) \in Nat /\ Len(delivered) \in Nat
    BY CallNumbers, LenProperties DEF IInv
<1>2. Len(<< >>) = 0
    BY EmptySeq
<1>3. CASE \/ \E size \in Sizes, terminator \in Terminators : CallRead(size, terminator)
           \/ ChooseChunk
    BY <1>1, <1>2, <1>3 DEF CallRead, ChooseChunk, ReadTotalCounts, held, lineVars
<1>4. CASE QueryFails \/ ChunkEndsCall
    <2>1. /\ at # "idle" /\ at' = "idle" /\ delivered' \in {delivered, delivered \o buf}
          /\ UNCHANGED <<sent, rx, readTotal>> /\ got' \in {got, << >>}
        BY <1>4 DEF QueryFails, ChunkEndsCall, Return, lineVars
    <2>2. Len(delivered \o buf) = Len(delivered) + Len(buf)
        BY <1>1, ConcatProperties
    <2>3. /\ held = buf /\ held' = << >>
          /\ Len(delivered') <= Len(delivered) + Len(buf) /\ Len(got') <= Len(got)
          /\ Len(delivered') \in Nat /\ Len(got') \in Nat
        BY <1>1, <1>2, <2>1, <2>2 DEF held
    <2> QED
        BY <1>1, <1>2, <2>1, <2>3 DEF ReadTotalCounts
<1>5. CASE ChunkFails
    BY <1>1, <1>2, <1>5 DEF ChunkFails, ReadTotalCounts, held
<1>6. ASSUME NEW ended \in {"inflight", "completed", "failed"}, ChunkStarts(ended)
      PROVE  ReadTotalCounts'
    <2> DEFINE taken == IF ended = "failed" THEN 0 ELSE Min({want, Len(rx)})
    <2>1. taken \in 0..Len(rx)
        <3> DEFINE there == Len(rx)
        <3>1. there \in Nat
            BY <1>1
        <3> HIDE DEF there
        <3>2. Min({want, there}) \in {want, there} /\ Min({want, there}) <= there
            <4>1. want \in Int /\ there \in Int
                BY <1>1, <3>1
            <4> QED
                BY <4>1, MinOfTwo
        <3> QED
            BY <1>1, <3>1, <3>2 DEF there
    <2>2. /\ at = "start" /\ at' = "chunk" /\ got = << >>
          /\ got' = SubSeq(rx, 1, taken) /\ rx' = SubSeq(rx, taken + 1, Len(rx))
          /\ UNCHANGED <<sent, buf, delivered, readTotal>>
        BY <1>6 DEF ChunkStarts, IInv, InCall
    <2> HIDE DEF taken
    <2>3. Len(got') + Len(rx') = Len(rx)
        BY <1>1, <2>1, <2>2, CutKeepsLength
    <2>4. held' = held
        BY <2>2 DEF held
    <2> DEFINE g == Len(got')
               r == Len(rx')
    <2>5. g \in Nat /\ r \in Nat /\ g + r = Len(rx)
        <3>1. rx' \in Seq(Bytes) /\ got' \in Seq(Bytes)
            BY <1>6, ChunkStartsStep, CallNumbers DEF IInv, TypeOK
        <3> QED
            BY <2>3, <3>1, LenProperties
    <2>6. readTotal' + g + r <= sent'
        <3> HIDE DEF g, r
        <3> QED
            BY <1>1, <1>2, <2>2, <2>5 DEF ReadTotalCounts
    <2> QED
        BY <1>1, <2>2, <2>4, <2>6 DEF ReadTotalCounts
<1>7. CASE ChunkEnds
    <2>1. /\ at = "chunk" /\ got' = << >> /\ buf' = buf \o got
          /\ readTotal' = readTotal + Len(got) /\ UNCHANGED <<sent, rx>>
          /\ \/ at' = "idle" /\ delivered' = delivered \o (buf \o got)
             \/ at' = "query" /\ delivered' = delivered
        BY <1>7 DEF ChunkEnds, ChunkDone, Return
    <2>2. /\ buf \o got \in Seq(Bytes) /\ Len(buf \o got) = Len(buf) + Len(got)
          /\ Len(delivered \o (buf \o got)) = Len(delivered) + (Len(buf) + Len(got))
        <3>1. buf \o got \in Seq(Bytes) /\ Len(buf \o got) = Len(buf) + Len(got)
            BY <1>1, ConcatProperties
        <3> QED
            BY <1>1, <3>1, ConcatProperties
    <2>3. held = buf /\ Len(delivered') + Len(held') = Len(delivered) + Len(buf) + Len(got)
        <3>1. CASE at' = "idle"
            BY <1>1, <1>2, <2>1, <2>2, <3>1 DEF held
        <3>2. CASE at' # "idle"
            BY <1>1, <2>1, <2>2, <3>2 DEF held
        <3> QED
            BY <3>1, <3>2
    <2>4. Len(delivered') + Len(held') <= readTotal'
        BY <1>1, <2>1, <2>3 DEF ReadTotalCounts
    <2>5. readTotal' + Len(got') + Len(rx') <= sent'
        BY <1>1, <1>2, <2>1 DEF ReadTotalCounts
    <2> QED
        BY <2>4, <2>5 DEF ReadTotalCounts
<1>8. CASE ByteArrives
    <2>1. /\ sent' = sent + 1 /\ UNCHANGED <<buf, at, delivered, readTotal>>
          /\ \/ got' = Append(got, sent + 1) /\ rx' = rx
             \/ rx' = Append(rx, sent + 1) /\ got' = got
        BY <1>8 DEF ByteArrives, callVars
    <2>2. sent + 1 \in Bytes
        BY <1>1, <1>8, StreamAssumption DEF ByteArrives, Bytes
    <2>3. /\ Len(got') + Len(rx') = Len(got) + Len(rx) + 1
          /\ Len(got') \in Nat /\ Len(rx') \in Nat
        <3> DEFINE next == sent + 1
                   g == Len(got)
                   r == Len(rx)
        <3>1. Len(Append(got, next)) = g + 1 /\ Len(Append(rx, next)) = r + 1
            BY <1>1, <2>2, AppendProperties
        <3>2. g \in Nat /\ r \in Nat
            BY <1>1
        <3>3. \/ got' = Append(got, next) /\ rx' = rx
              \/ rx' = Append(rx, next) /\ got' = got
            BY <2>1
        <3> DEFINE gotNext == Len(got')
                   rxNext == Len(rx')
        <3>4. (gotNext = g + 1 /\ rxNext = r) \/ (gotNext = g /\ rxNext = r + 1)
            BY <3>1, <3>3
        <3>5. gotNext + rxNext = g + r + 1 /\ gotNext \in Nat /\ rxNext \in Nat
            <4> HIDE DEF g, r, gotNext, rxNext
            <4> QED
                BY <3>2, <3>4
        <3> QED
            BY <3>5, Zenon
    <2>4. held' = held
        BY <2>1 DEF held
    <2> QED
        BY <1>1, <2>1, <2>3, <2>4 DEF ReadTotalCounts
<1>9. CASE ClearBufferIn
    BY <1>1, <1>2, <1>9 DEF ClearBufferIn, ReadTotalCounts, held, callVars
<1>10. CASE \/ ChunkTimesOut \/ ChunkWaitFails \/ ChunkFinishes
            \/ (\E ended \in IO!IoFinal : ReadEnds(ended)) \/ (\E a \in Aborters : Abort(a))
            \/ UNCHANGED vars
    <2>1. UNCHANGED <<lineVars, callVars>>
        BY <1>10 DEF ChunkTimesOut, ChunkWaitFails, ChunkFinishes, ReadEnds, Abort, vars
    <2> QED
        BY <2>1 DEF ReadTotalCounts, held, lineVars, callVars
<1> QED
    BY <1>3, <1>4, <1>5, <1>6, <1>7, <1>8, <1>9, <1>10 DEF Next, ReaderStep

\* bytes_read_total is right between what was reported and what was sent.
THEOREM TotalAlwaysCounts == Spec => []ReadTotalCounts
<1>1. Init => ReadTotalCounts
    BY EmptySeq DEF Init, ReadTotalCounts, held
<1> QED
    BY <1>1, TotalStep, InvariantAlways, PTL DEF Spec

\* The bytes of a concatenation are those of its parts.
LEMMA ConcatKeeps ==
    ASSUME NEW S, NEW s \in Seq(S), NEW t \in Seq(S), NEW b, b \in ToSet(s) \/ b \in ToSet(t)
    PROVE  b \in ToSet(s \o t)
<1> DEFINE u == s \o t
<1>1. /\ u \in Seq(S) /\ Len(u) = Len(s) + Len(t)
      /\ \A i \in 1..(Len(s) + Len(t)) : u[i] = IF i <= Len(s) THEN s[i] ELSE t[i - Len(s)]
    BY ConcatProperties
<1>2. /\ Len(s) \in Nat /\ Len(t) \in Nat
      /\ DOMAIN s = 1..Len(s) /\ DOMAIN t = 1..Len(t) /\ DOMAIN u = 1..(Len(s) + Len(t))
    BY <1>1, LenProperties
<1> HIDE DEF u
<1>3. CASE b \in ToSet(s)
    <2>1. PICK i \in DOMAIN s : s[i] = b
        BY <1>3 DEF ToSet
    <2>2. i \in DOMAIN u /\ u[i] = b
        BY <1>1, <1>2, <2>1
    <2> QED
        BY <2>2 DEF ToSet, u
<1>4. CASE b \in ToSet(t)
    <2>1. PICK i \in DOMAIN t : t[i] = b
        BY <1>4 DEF ToSet
    <2>2. Len(s) + i \in DOMAIN u /\ u[Len(s) + i] = b
        BY <1>1, <1>2, <2>1
    <2> QED
        BY <2>2 DEF ToSet, u
<1> QED
    BY <1>3, <1>4

\* A call that returns after a completed chunk loses nothing it took.
LEMMA CompletedKeeps ==
    ASSUME TypeOK, [Next]_vars, at = "chunk", at' = "idle", outcome[Reader] = "kCompleted"
    PROVE  Kept \subseteq Kept'
<1>1. ChunkEnds
    BY DEF Next, ReaderStep, CallRead, ChooseChunk, QueryFails, ChunkFails, ChunkStarts,
           ChunkFinishes, ChunkEndsCall, ChunkTimesOut, ChunkWaitFails, ByteArrives,
           ReadEnds, Abort, ClearBufferIn, vars, callVars
<1>2. Return("ok", buf \o got) /\ UNCHANGED rx
    BY <1>1 DEF ChunkEnds, ChunkDone
<1>3. delivered' = delivered \o (buf \o got)
    BY <1>2 DEF Return
<1>4. /\ delivered \in Seq(Bytes) /\ buf \in Seq(Bytes) /\ got \in Seq(Bytes)
      /\ buf \o got \in Seq(Bytes)
    BY CallNumbers, ConcatProperties
<1>5. ASSUME NEW b \in Kept
      PROVE  b \in Kept'
    <2>1. CASE b \in ToSet(rx)
        BY <1>2, <2>1 DEF Kept
    <2>2. CASE b \in ToSet(delivered)
        <3>1. b \in ToSet(delivered')
            BY <1>3, <1>4, <2>2, ConcatKeeps
        <3> QED
            BY <3>1 DEF Kept
    <2>3. CASE b \in ToSet(buf) \/ b \in ToSet(got)
        <3>1. b \in ToSet(buf \o got)
            BY <1>4, <2>3, ConcatKeeps
        <3>2. b \in ToSet(delivered')
            BY <1>3, <1>4, <3>1, ConcatKeeps
        <3> QED
            BY <3>2 DEF Kept
    <2> QED
        BY <2>1, <2>2, <2>3 DEF Kept
<1> QED
    BY <1>5

\* What the completed chunks of a call took from the queue, the call reports.
THEOREM CompletedReadsKeepAll == Spec => CompletedReadKeepsAll
<1>1. TypeOK /\ [Next]_vars =>
        [at = "chunk" /\ at' = "idle" /\ outcome[Reader] = "kCompleted"
            => Kept \subseteq Kept']_vars
    BY CompletedKeeps
<1> QED
    BY <1>1, TypeCorrect, PTL DEF Spec, CompletedReadKeepsAll

\* Steps of the loop are steps of PendingIo, or leave it alone.
LEMMA StepOfPendingIo == [Next]_vars => [IO!Next]_(IO!vars)
<1> SUFFICES ASSUME [Next]_vars
             PROVE  [IO!Next]_(IO!vars)
    OBVIOUS
<1>1. Reader \in IO!Callers /\ "kRead" \in IO!Operation
    BY SoleReader
<1>2. CASE ChunkFails \/ \E ended \in {"inflight", "completed", "failed"} : ChunkStarts(ended)
    <2>1. IO!Start(Reader)
        BY <1>2 DEF ChunkFails, ChunkStarts, IO!Start
    <2> QED
        BY <1>1, <2>1 DEF IO!Next
<1>3. CASE ChunkFinishes
    BY <1>1, <1>3 DEF ChunkFinishes, IO!Next
<1>4. CASE ChunkTimesOut \/ ChunkWaitFails
    BY <1>1, <1>4 DEF ChunkTimesOut, ChunkWaitFails, IO!Next
<1>5. CASE \E ended \in IO!IoFinal : ReadEnds(ended)
    BY <1>1, <1>5 DEF ReadEnds, IO!Next
<1>6. CASE \E a \in Aborters : Abort(a)
    BY <1>1, <1>6 DEF Abort, IO!Next
<1>7. CASE UNCHANGED ioVars
    BY <1>7 DEF ioVars, IO!vars
<1>8. CASE \/ \E size \in Sizes, terminator \in Terminators : CallRead(size, terminator)
           \/ ChooseChunk \/ QueryFails \/ ChunkEnds \/ ChunkEndsCall
           \/ ByteArrives \/ ClearBufferIn \/ UNCHANGED vars
    <2>1. UNCHANGED ioVars
        BY <1>8 DEF CallRead, ChooseChunk, QueryFails, ChunkEnds, ChunkDone, ChunkEndsCall,
                    ByteArrives, ClearBufferIn, vars
    <2> QED
        BY <1>7, <2>1
<1> QED
    BY <1>2, <1>3, <1>4, <1>5, <1>6, <1>8 DEF Next, ReaderStep

\* The loop of readImpl keeps to PendingIo: every chunk of every call is one
\* of its calls, with the registrations and the abort flags that go with it.
THEOREM ReadsArePendingIo == Spec => IO!Spec
<1>1. Init => IO!Init
    BY DEF Init
<1> QED
    BY <1>1, StepOfPendingIo, PTL DEF Spec, IO!Spec

=============================================================================
