------------------------ MODULE HandleRegistryProofs ------------------------
(***************************************************************************)
(* Proofs about HandleRegistry, for any number of threads, handle values   *)
(* and openings: a port has its state to itself, and the map does not      *)
(* outgrow the open ports.                                                 *)
(***************************************************************************)
EXTENDS HandleRegistry, SequenceTheorems, TLAPS

-----------------------------------------------------------------------------
(* The inductive invariant.                                                *)

\* A port that is being opened belongs to one call, has the value that the
\* call got, and is not known yet.  It may have been closed already.
ConfiguringOwn ==
    \A t \in Threads : at[t] = "configure" =>
        /\ value[t] \in Handles
        /\ mine[t] # NoOpening /\ mine[t] \notin returned
        /\ \A h \in Handles : win[h] = mine[t] => h = value[t]
        /\ \A u \in Threads : at[u] = "configure" /\ mine[u] = mine[t] => u = t

ErasingKnown == \A t \in Threads : at[t] = "erase" => value[t] \in Handles

\* A call is for an opening that the application knows, or for none.
CallsKnown ==
    \A t \in Threads : at[t] = "call" =>
        ctx[t] # NoState /\ mine[t] \in returned \cup {NoOpening}

WinApart == \A h, k \in Handles : win[h] = win[k] /\ win[h] # NoOpening => h = k

StatesApart == \A h, k \in Handles : registry[h] = registry[k] /\ registry[h] # NoState => h = k

\* A value that is open while a serialClose of it is in progress was opened
\* in the course of that call.
OpenWhileErasing ==
    \A t \in Threads : at[t] = "erase" /\ win[value[t]] # NoOpening => win[value[t]] \in crossed

IInv ==
    /\ TypeOK /\ ConfiguringOwn /\ ErasingKnown /\ CallsKnown /\ WinApart /\ StatesApart
    /\ OpenWhileErasing /\ EntriesHaveOwners /\ StateIsOwn

-----------------------------------------------------------------------------
\* A sequence of sets of openings is one still when there are more openings.
LEMMA MarksGrow ==
    ASSUME NEW m \in Nat, NEW n \in Nat, m <= n, NEW s \in Seq(SUBSET (0..m))
    PROVE  s \in Seq(SUBSET (0..n))
<1>1. SUBSET (0..m) \subseteq SUBSET (0..n)
    OBVIOUS
<1>2. Len(s) \in Nat /\ s \in [1..Len(s) -> SUBSET (0..m)]
    BY LenProperties
<1>3. s \in [1..Len(s) -> SUBSET (0..n)]
    BY <1>1, <1>2
<1> QED BY <1>2, <1>3, SeqDef

\* Whatever ensureHandleState does, the value has a state afterwards, and no
\* other value and no other state is touched.
Ensured(h) ==
    /\ marks' \in Seq(SUBSET (0..opened))
    /\ Len(marks) \in Nat /\ Len(marks') \in Nat /\ Len(marks) <= Len(marks')
    /\ registry' \in [Handles -> 0..Len(marks')]
    /\ registry'[h] # NoState
    /\ \A k \in Handles : k # h => registry'[k] = registry[k]
    /\ \A i \in 1..Len(marks) : marks'[i] = marks[i]
    /\ \/ registry[h] # NoState /\ UNCHANGED <<registry, marks>>
       \/ /\ registry[h] = NoState /\ registry'[h] = Len(marks) + 1
          /\ marks'[Len(marks) + 1] = {}

\* ensureHandleState gives a state.
LEMMA EnsureGivesState ==
    ASSUME TypeOK, NEW h \in Handles, EnsureHandleState(h)
    PROVE  Ensured(h)
<1>1. marks \in Seq(SUBSET (0..opened)) /\ Len(marks) \in Nat
    BY LenProperties DEF TypeOK
<1>2. CASE registry[h] # NoState
    BY <1>1, <1>2 DEF TypeOK, EnsureHandleState, Ensured
<1>3. CASE registry[h] = NoState
  <2>1. marks' = Append(marks, {}) /\ registry' = [registry EXCEPT ![h] = Len(marks) + 1]
    BY <1>3 DEF EnsureHandleState
  <2>2. /\ marks' \in Seq(SUBSET (0..opened)) /\ Len(marks') = Len(marks) + 1
        /\ \A i \in 1..Len(marks) : marks'[i] = marks[i]
        /\ marks'[Len(marks) + 1] = {}
    BY <1>1, <2>1, {} \in SUBSET (0..opened), AppendProperties
  <2> QED BY <1>1, <1>3, <2>1, <2>2 DEF TypeOK, NoState, Ensured
<1> QED BY <1>2, <1>3

\* The new opening is unlike all others.
LEMMA CreateFileStep ==
    ASSUME IInv, NEW t \in Threads, NEW h \in Handles, CreateFile(t, h)
    PROVE  IInv'
<1>1. TypeOK'
    BY OpensAssumption DEF IInv, TypeOK, Goes, NoState, CreateFile
<1>2. ConfiguringOwn'
    BY DEF IInv, TypeOK, ConfiguringOwn, Goes, CreateFile
<1>3. ErasingKnown'
    BY DEF IInv, ErasingKnown, Goes, CreateFile
<1>4. CallsKnown'
    BY DEF IInv, CallsKnown, Goes, CreateFile
<1>5. WinApart'
    BY DEF IInv, TypeOK, WinApart, CreateFile
<1>6. StatesApart'
    BY DEF IInv, StatesApart, CreateFile
<1>7. OpenWhileErasing'
    BY DEF IInv, OpenWhileErasing, Goes, CreateFile
<1>8. EntriesHaveOwners'
    BY DEF IInv, TypeOK, EntriesHaveOwners, Usable, Goes, NoOpening, CreateFile
<1>9. StateIsOwn'
    BY DEF IInv, TypeOK, StateIsOwn, Undisturbed, Usable, Goes, CreateFile
<1> QED BY <1>1, <1>2, <1>3, <1>4, <1>5, <1>6, <1>7, <1>8, <1>9 DEF IInv

\* Nothing was known of the call's own port.
LEMMA OpenFailsStep ==
    ASSUME IInv, NEW t \in Threads, OpenFails(t)
    PROVE  IInv'
<1>1. TypeOK'
    BY DEF IInv, TypeOK, ConfiguringOwn, Goes, Returns, NoState, NoOpening, OpenFails
<1>2. ConfiguringOwn'
    BY DEF IInv, TypeOK, ConfiguringOwn, Goes, Returns, OpenFails
<1>3. ErasingKnown'
    BY DEF IInv, ErasingKnown, Goes, Returns, OpenFails
<1>4. CallsKnown'
    BY DEF IInv, CallsKnown, Goes, Returns, OpenFails
<1>5. WinApart'
    BY DEF IInv, TypeOK, ConfiguringOwn, WinApart, NoOpening, OpenFails
<1>6. StatesApart'
    BY DEF IInv, StatesApart, OpenFails
<1>7. OpenWhileErasing'
    BY DEF IInv, OpenWhileErasing, Goes, Returns, OpenFails
<1>a. NoOpening \notin returned /\ mine[t] \notin returned /\ value[t] \in Handles
    BY DEF IInv, TypeOK, ConfiguringOwn, NoOpening, OpenFails
<1>b. \A h \in Handles :
        /\ Usable(h)' => Usable(h) /\ h # value[t] /\ win'[h] = win[h]
        /\ Usable(h) => Usable(h)' \/ h \in stray'
    BY <1>a DEF IInv, TypeOK, Usable, OpenFails
<1>8. EntriesHaveOwners'
  <2>1. UNCHANGED registry /\ stray \subseteq stray'
    BY DEF OpenFails
  <2>2. \A o \in Threads : at[o] = "erase" => at'[o] = "erase" /\ value'[o] = value[o]
    BY DEF IInv, TypeOK, Goes, Returns, OpenFails
  <2> QED BY <1>b, <2>1, <2>2 DEF IInv, EntriesHaveOwners
<1>9. StateIsOwn'
  <2>1. \A h \in Handles : Undisturbed(h)' => Undisturbed(h) /\ win'[h] = win[h]
    BY <1>b DEF Undisturbed, OpenFails
  <2>2. \A o \in Threads : at'[o] = "call" =>
            at[o] = "call" /\ mine'[o] = mine[o] /\ ctx'[o] = ctx[o]
    BY DEF IInv, TypeOK, Goes, Returns, OpenFails
  <2>3. \A o \in Threads : at[o] = "call" => at'[o] = "call"
    BY DEF IInv, TypeOK, Goes, Returns, OpenFails
  <2> QED BY <2>1, <2>2, <2>3 DEF IInv, StateIsOwn, OpenFails
<1> QED BY <1>1, <1>2, <1>3, <1>4, <1>5, <1>6, <1>7, <1>8, <1>9 DEF IInv

\* An undisturbed value that has its port still has no entry yet: its state
\* is new.
LEMMA RegisterStep ==
    ASSUME IInv, NEW t \in Threads, Register(t)
    PROVE  IInv'
<1>0. /\ value[t] \in Handles /\ mine[t] \in 1..opened /\ mine[t] \notin returned
      /\ EnsureHandleState(value[t])
    BY DEF IInv, TypeOK, ConfiguringOwn, Register, NoOpening
<1>a. Ensured(value[t])
    BY <1>0, EnsureGivesState DEF IInv
<1>1. TypeOK'
  <2>1. ctx' \in [Threads -> 0..Len(marks')]
    BY <1>a DEF Ensured, IInv, TypeOK, Register, Returns, Goes, NoState
  <2>2. /\ at' \in [Threads -> {"idle", "configure", "erase", "call"}]
        /\ value' \in [Threads -> Handles \cup {NoHandle}]
        /\ mine' \in [Threads -> 0..opened]
    BY DEF IInv, TypeOK, Register, Returns, Goes, NoOpening
  <2> QED BY <1>0, <1>a, <2>1, <2>2 DEF Ensured, IInv, TypeOK, Register
<1>2. ConfiguringOwn'
    BY <1>0, <1>a DEF Ensured, IInv, TypeOK, ConfiguringOwn, Goes, Returns, Register
<1>3. ErasingKnown'
    BY <1>0, <1>a DEF Ensured, IInv, ErasingKnown, Goes, Returns, Register
<1>4. CallsKnown'
    BY <1>0, <1>a DEF Ensured, IInv, CallsKnown, Goes, Returns, Register
<1>5. WinApart'
    BY <1>0, <1>a DEF Ensured, IInv, WinApart, Register
<1>6. StatesApart'
    BY <1>0, <1>a DEF Ensured, IInv, TypeOK, StatesApart, Register
<1>7. OpenWhileErasing'
    BY <1>0, <1>a DEF Ensured, IInv, ErasingKnown, OpenWhileErasing, Goes, Returns, Register
<1>8. EntriesHaveOwners'
  <2>1. \A h \in Handles : win[h] \in returned => win'[h] \in returned'
    BY DEF Register
  <2>2. win'[value[t]] \in returned' \/ value[t] \in stray'
    BY <1>0 DEF Register
  <2>3. stray \subseteq stray'
    BY DEF Register
  <2>4. \A o \in Threads : at[o] = "erase" => at'[o] = "erase" /\ value'[o] = value[o]
    BY DEF IInv, TypeOK, Goes, Returns, Register
  <2> QED BY <1>a, <2>1, <2>2, <2>3, <2>4 DEF Ensured, IInv, EntriesHaveOwners, Usable
<1>9. StateIsOwn'
  <2> SUFFICES ASSUME NEW h \in Handles, Undisturbed(h)'
               PROVE  /\ registry'[h] # NoState
                      /\ marks'[registry'[h]] \subseteq {win'[h]}
                      /\ \A o \in Threads : at'[o] = "call" =>
                            (mine'[o] = win'[h] <=> ctx'[o] = registry'[h])
      BY DEF StateIsOwn
  <2>1. /\ win' = win /\ win[h] \in returned \cup {mine[t]}
        /\ win[h] \notin crossed /\ h \notin stray
        /\ h = value[t] => win[h] = mine[t]
      BY DEF Undisturbed, Usable, Register
  <2>2. \A o \in Threads : at'[o] = "call" =>
            /\ at[o] = "call" /\ mine'[o] = mine[o] /\ ctx'[o] = ctx[o]
            /\ ctx[o] # NoState /\ ctx[o] \in 0..Len(marks) /\ mine[o] # mine[t]
      BY <1>0 DEF IInv, TypeOK, CallsKnown, Goes, Returns, NoOpening, Register
  <2>3. CASE h = value[t]
    <3>1. win[h] = mine[t] /\ ~Usable(h) /\ win[h] # NoOpening
        BY <1>0, <2>1, <2>3 DEF Usable, NoOpening
    <3>2. registry[h] = NoState
        BY <2>1, <3>1 DEF IInv, EntriesHaveOwners, OpenWhileErasing
    <3>3. registry'[h] = Len(marks) + 1 /\ marks'[Len(marks) + 1] = {} /\ Len(marks) \in Nat
        BY <1>a, <2>3, <3>2 DEF Ensured
    <3> QED BY <2>1, <2>2, <3>1, <3>3 DEF NoState
  <2>4. CASE h # value[t]
    <3>1. Undisturbed(h) /\ registry'[h] = registry[h]
        BY <1>0, <1>a, <2>1, <2>4 DEF Ensured, IInv, ConfiguringOwn, Undisturbed, Usable, Register
    <3>2. registry[h] # NoState /\ registry[h] \in 1..Len(marks)
        BY <3>1 DEF IInv, StateIsOwn, TypeOK, NoState
    <3>3. marks'[registry[h]] = marks[registry[h]]
        BY <1>a, <3>2 DEF Ensured
    <3> QED BY <2>1, <2>2, <3>1, <3>2, <3>3 DEF IInv, StateIsOwn
  <2> QED BY <2>3, <2>4
<1> QED BY <1>1, <1>2, <1>3, <1>4, <1>5, <1>6, <1>7, <1>8, <1>9 DEF IInv

\* The entry has the closing call for an owner.
LEMMA CloseHandleStep ==
    ASSUME IInv, NEW t \in Threads, NEW h \in Handles, CloseHandle(t, h)
    PROVE  IInv'
<1>1. TypeOK'
    BY DEF IInv, TypeOK, Goes, NoState, NoOpening, CloseHandle
<1>2. ConfiguringOwn'
    BY DEF IInv, ConfiguringOwn, Usable, Goes, CloseHandle
<1>3. ErasingKnown'
    BY DEF IInv, TypeOK, ErasingKnown, Goes, CloseHandle
<1>4. CallsKnown'
    BY DEF IInv, CallsKnown, Goes, CloseHandle
<1>5. WinApart'
    BY DEF IInv, WinApart, CloseHandle
<1>6. StatesApart'
    BY DEF IInv, StatesApart, CloseHandle
<1>7. OpenWhileErasing'
    BY DEF IInv, TypeOK, OpenWhileErasing, Goes, CloseHandle
<1>8. EntriesHaveOwners'
    BY DEF IInv, TypeOK, EntriesHaveOwners, Usable, Goes, CloseHandle
<1>9. StateIsOwn'
    BY DEF IInv, TypeOK, StateIsOwn, Undisturbed, Usable, Goes, NoOpening, CloseHandle
<1> QED BY <1>1, <1>2, <1>3, <1>4, <1>5, <1>6, <1>7, <1>8, <1>9 DEF IInv

\* An open port whose state is removed was opened in the course of the call.
LEMMA RemoveHandleStateStep ==
    ASSUME IInv, NEW t \in Threads, RemoveHandleState(t)
    PROVE  IInv'
<1>1. TypeOK'
    BY DEF IInv, TypeOK, ErasingKnown, Goes, Returns, NoState, NoOpening, RemoveHandleState
<1>2. ConfiguringOwn'
    BY DEF IInv, ConfiguringOwn, Goes, Returns, RemoveHandleState
<1>3. ErasingKnown'
    BY DEF IInv, TypeOK, ErasingKnown, Goes, Returns, RemoveHandleState
<1>4. CallsKnown'
    BY DEF IInv, CallsKnown, Goes, Returns, RemoveHandleState
<1>5. WinApart'
    BY DEF IInv, WinApart, RemoveHandleState
<1>6. StatesApart'
    BY DEF IInv, StatesApart, RemoveHandleState
<1>7. OpenWhileErasing'
    BY DEF IInv, TypeOK, OpenWhileErasing, Goes, Returns, RemoveHandleState
<1>8. EntriesHaveOwners'
    BY DEF IInv, TypeOK, EntriesHaveOwners, Usable, Goes, Returns, RemoveHandleState
<1>9. StateIsOwn'
    BY DEF IInv, TypeOK, OpenWhileErasing, StateIsOwn, Undisturbed, Usable, Goes, Returns,
       NoOpening, RemoveHandleState
<1> QED BY <1>1, <1>2, <1>3, <1>4, <1>5, <1>6, <1>7, <1>8, <1>9 DEF IInv

\* The state of a known port is there; another value gets one of its own.
LEMMA AcquireStep ==
    ASSUME IInv, NEW t \in Threads, NEW h \in Handles, AcquireHandleContext(t, h)
    PROVE  IInv'
<1>a. Ensured(h)
    BY EnsureGivesState DEF IInv, AcquireHandleContext
<1>1. TypeOK'
    BY <1>a DEF Ensured, IInv, TypeOK, Goes, NoOpening, AcquireHandleContext
<1>2. ConfiguringOwn'
    BY <1>a DEF Ensured, IInv, ConfiguringOwn, Goes, AcquireHandleContext
<1>3. ErasingKnown'
    BY <1>a DEF Ensured, IInv, ErasingKnown, Goes, AcquireHandleContext
<1>4. CallsKnown'
    BY <1>a DEF Ensured, IInv, TypeOK, CallsKnown, Usable, Goes, AcquireHandleContext
<1>5. WinApart'
    BY <1>a DEF Ensured, IInv, WinApart, AcquireHandleContext
<1>6. StatesApart'
    BY <1>a DEF Ensured, IInv, TypeOK, StatesApart, AcquireHandleContext
<1>7. OpenWhileErasing'
    BY <1>a DEF Ensured, IInv, OpenWhileErasing, StateIsOwn, Goes, AcquireHandleContext
<1>8. EntriesHaveOwners'
    BY <1>a DEF Ensured, IInv, CallsKnown, EntriesHaveOwners, Usable, Goes, AcquireHandleContext
<1>9. StateIsOwn'
    BY <1>a DEF Ensured, IInv, TypeOK, WinApart, StatesApart, StateIsOwn, Undisturbed,
       Usable, Goes, NoState, NoOpening, AcquireHandleContext
<1> QED BY <1>1, <1>2, <1>3, <1>4, <1>5, <1>6, <1>7, <1>8, <1>9 DEF IInv

\* Only a call of the port itself has the state of an undisturbed port.
LEMMA CallMarksStep ==
    ASSUME IInv, NEW t \in Threads, CallMarks(t)
    PROVE  IInv'
<1>a. /\ marks \in Seq(SUBSET (0..opened)) /\ Len(marks) \in Nat
      /\ ctx[t] \in 1..Len(marks) /\ mine[t] \in 0..opened
    BY LenProperties DEF IInv, TypeOK, CallsKnown, CallMarks, NoState
<1>b. marks' = [marks EXCEPT ![ctx[t]] = @ \cup {mine[t]}]
    BY DEF CallMarks
<1>c. /\ marks' \in Seq(SUBSET (0..opened)) /\ Len(marks') = Len(marks)
      /\ \A i \in 1..Len(marks) :
            marks'[i] = IF i = ctx[t] THEN marks[i] \cup {mine[t]} ELSE marks[i]
  <2>1. marks \in [1..Len(marks) -> SUBSET (0..opened)] /\ DOMAIN marks = 1..Len(marks)
    BY <1>a, LenProperties
  <2>2. {mine[t]} \in SUBSET (0..opened) /\ marks[ctx[t]] \in SUBSET (0..opened)
    BY <1>a, <2>1
  <2>3. /\ marks' \in [1..Len(marks) -> SUBSET (0..opened)] /\ DOMAIN marks' = 1..Len(marks)
        /\ \A i \in 1..Len(marks) :
              marks'[i] = IF i = ctx[t] THEN marks[i] \cup {mine[t]} ELSE marks[i]
    BY <1>b, <2>1, <2>2
  <2>4. marks' \in Seq(SUBSET (0..opened))
    BY <1>a, <2>3, SeqDef
  <2>5. DOMAIN marks' = 1..Len(marks') /\ Len(marks') \in Nat
    BY <2>4, LenProperties
  <2>6. Len(marks') = Len(marks)
    BY <1>a, <2>3, <2>5
  <2> QED BY <2>3, <2>4, <2>6
<1>1. TypeOK'
    BY <1>a, <1>c DEF IInv, TypeOK, Goes, Returns, NoState, NoOpening, CallMarks
<1>2. ConfiguringOwn'
    BY <1>a, <1>c DEF IInv, ConfiguringOwn, Goes, Returns, CallMarks
<1>3. ErasingKnown'
    BY <1>a, <1>c DEF IInv, ErasingKnown, Goes, Returns, CallMarks
<1>4. CallsKnown'
    BY <1>a, <1>c DEF IInv, TypeOK, CallsKnown, Goes, Returns, CallMarks
<1>5. WinApart'
    BY <1>a, <1>c DEF IInv, WinApart, CallMarks
<1>6. StatesApart'
    BY <1>a, <1>c DEF IInv, StatesApart, CallMarks
<1>7. OpenWhileErasing'
    BY <1>a, <1>c DEF IInv, OpenWhileErasing, Goes, Returns, CallMarks
<1>8. EntriesHaveOwners'
    BY <1>a, <1>c DEF IInv, EntriesHaveOwners, Usable, Goes, Returns, CallMarks
<1>9. StateIsOwn'
    BY <1>a, <1>c DEF IInv, TypeOK, StateIsOwn, Undisturbed, Usable, Goes, Returns, CallMarks
<1> QED BY <1>1, <1>2, <1>3, <1>4, <1>5, <1>6, <1>7, <1>8, <1>9 DEF IInv

\* The context goes.
LEMMA CallReturnsStep ==
    ASSUME IInv, NEW t \in Threads, CallReturns(t)
    PROVE  IInv'
<1>1. TypeOK'
    BY DEF IInv, TypeOK, Goes, Returns, NoState, NoOpening, CallReturns
<1>2. ConfiguringOwn'
    BY DEF IInv, ConfiguringOwn, Goes, Returns, CallReturns
<1>3. ErasingKnown'
    BY DEF IInv, ErasingKnown, Goes, Returns, CallReturns
<1>4. CallsKnown'
    BY DEF IInv, TypeOK, CallsKnown, Goes, Returns, CallReturns
<1>5. WinApart'
    BY DEF IInv, WinApart, CallReturns
<1>6. StatesApart'
    BY DEF IInv, StatesApart, CallReturns
<1>7. OpenWhileErasing'
    BY DEF IInv, OpenWhileErasing, Goes, Returns, CallReturns
<1>8. EntriesHaveOwners'
    BY DEF IInv, EntriesHaveOwners, Usable, Goes, Returns, CallReturns
<1>9. StateIsOwn'
    BY DEF IInv, TypeOK, StateIsOwn, Undisturbed, Usable, Goes, Returns, CallReturns
<1> QED BY <1>1, <1>2, <1>3, <1>4, <1>5, <1>6, <1>7, <1>8, <1>9 DEF IInv

-----------------------------------------------------------------------------
\* At first no port is open and the map is empty.
LEMMA InitIInv == Init => IInv
    BY OpensAssumption, EmptySeq DEF Init, IInv, TypeOK, ConfiguringOwn, ErasingKnown,
       CallsKnown, WinApart, StatesApart, OpenWhileErasing, EntriesHaveOwners, StateIsOwn,
       Undisturbed, Usable, NoState, NoOpening

\* The invariant speaks of the variables only.
LEMMA StutterIInv == IInv /\ UNCHANGED vars => IInv'
    BY DEF vars, IInv, TypeOK, ConfiguringOwn, ErasingKnown, CallsKnown, WinApart,
       StatesApart, OpenWhileErasing, EntriesHaveOwners, StateIsOwn, Undisturbed, Usable

\* The invariant holds of every behaviour of openings, calls and closes.
THEOREM Invariance == Spec => []IInv
<1>1. IInv /\ [Next]_vars => IInv'
  <2> SUFFICES ASSUME IInv, [Next]_vars PROVE IInv'
    OBVIOUS
  <2>1. CASE UNCHANGED vars
    BY <2>1, StutterIInv
  <2>2. CASE Next
    BY <2>2, CreateFileStep, OpenFailsStep, RegisterStep, CloseHandleStep,
       RemoveHandleStateStep, AcquireStep, CallMarksStep, CallReturnsStep DEF Next
  <2> QED BY <2>1, <2>2
<1> QED BY <1>1, InitIInv, PTL DEF Spec

\* Every variable keeps its type.
THEOREM TypeAlwaysRight == Spec => []TypeOK
<1>1. IInv => TypeOK
    BY DEF IInv
<1> QED BY <1>1, Invariance, PTL

\* The state of an open port holds marks of that opening's calls alone, and
\* stays in the map, unless the opening crossed a serialClose of its value
\* or the value was used while it was closed.
THEOREM StateAlwaysOwn == Spec => []StateIsOwn
<1>1. IInv => StateIsOwn
    BY DEF IInv
<1> QED BY <1>1, Invariance, PTL

\* An entry of g_handle_states belongs to an open port, to a call that is
\* about to erase it, or to a value that was used while it was closed.
THEOREM EntriesAlwaysOwned == Spec => []EntriesHaveOwners
<1>1. IInv => EntriesHaveOwners
    BY DEF IInv
<1> QED BY <1>1, Invariance, PTL

=============================================================================
