---------------------------- MODULE LineSettings ----------------------------
(***************************************************************************)
(* The settings of one port: the DCB that the driver keeps, serialOpen     *)
(* that overlays a configuration on whatever the port's last user left,    *)
(* the five setters that read the whole DCB, change their fields and write *)
(* it back without a lock, the getters that translate it back, and         *)
(* serialSendBreak, which sets a condition of the line and clears it after *)
(* a sleep.                                                                *)
(*                                                                         *)
(* Of the DCB the model keeps the fields the library reads or that decide  *)
(* whether bytes can flow; fOutxDsrFlow stands for the other fields that   *)
(* serialOpen sets to a constant.  A call that is refused for its          *)
(* arguments, or whose GetCommState fails, leaves no trace and is no step. *)
(***************************************************************************)
EXTENDS Integers

CONSTANTS
    Threads,        \* threads of the application that use the port
    Values,         \* the arguments setters are called with, by kind
    Configs,        \* the configurations serialOpen is called with
    FactoryDcb,     \* the DCBs a port may have before the library uses it
    NoDcb           \* a thread outside the setters has no copy

Kinds == {"baudrate", "data_bits", "parity", "stop_bits", "flow_mode"}

\* The three values of enumerations that the DCB and the interface number
\* differently.
NOPARITY == "NOPARITY"
EVENPARITY == "EVENPARITY"
ODDPARITY == "ODDPARITY"

DCB == [BaudRate : Nat, ByteSize : 5..8, fParity : BOOLEAN,
        Parity : {NOPARITY, EVENPARITY, ODDPARITY},
        StopBits : {"ONESTOPBIT", "ONE5STOPBITS", "TWOSTOPBITS"},
        fOutxCtsFlow : BOOLEAN, fOutxDsrFlow : BOOLEAN,
        fRtsControl : {"DISABLE", "ENABLE", "HANDSHAKE"},
        fOutX : BOOLEAN, fInX : BOOLEAN]

\* The configurations that validateOpenParams of cpp-core lets through.
ValidConfig(config) ==
    /\ config["baudrate"] >= 300
    /\ config["data_bits"] \in 5..8
    /\ config["parity"] \in 0..2
    /\ config["stop_bits"] \in {0, 2}
    /\ config["flow_mode"] \in 0..2

ASSUME SettingsAssumption ==
    /\ Values \in [Kinds -> SUBSET Int]
    /\ \A config \in Configs : config \in [Kinds -> Int] /\ ValidConfig(config)
    /\ FactoryDcb \subseteq DCB
    /\ NoDcb \notin DCB

VARIABLES
    port,       \* "closed" or "open"
    dcb,        \* the driver's settings
    inBreak,    \* the line is in break condition
    at,         \* where each thread is
    change,     \* the change a thread is making
    copy,       \* its DCB, changed and ready for SetCommState
    asked,      \* history: what was last set successfully, by kind
    since,      \* history: kinds that others set since a thread's GetCommState
    spoiled,    \* history: kinds that a SetCommState with an old DCB may have undone
    cutShort,   \* history: threads whose break another thread ended
    clearFailed \* history: the last ClearCommBreak failed

settingVars == <<change, copy, asked, since, spoiled>>
breakVars == <<inBreak, cutShort, clearFailed>>
vars == <<port, dcb, at, settingVars, breakVars>>

NoChange == [kind |-> "none", value |-> 0]

TypeOK ==
    /\ port \in {"closed", "open"}
    /\ dcb \in DCB
    /\ at \in [Threads -> {"idle", "set", "break"}]
    /\ change \in [Threads -> [kind : Kinds, value : Int] \cup {NoChange}]
    /\ copy \in [Threads -> DCB \cup {NoDcb}]
    /\ asked \in [Kinds -> Int]
    /\ since \in [Threads -> SUBSET Kinds]
    /\ spoiled \subseteq Kinds
    /\ {inBreak, clearFailed} \subseteq BOOLEAN
    /\ cutShort \subseteq Threads

-----------------------------------------------------------------------------
(* What the setters make of a DCB.                                         *)

\* Mutant: the modes that were on before stay on.
ApplyFlowControlOver(settings, mode) ==
    [settings EXCEPT
        !.fOutxCtsFlow = @ \/ mode = 1,
        !.fRtsControl = IF mode = 1 THEN "HANDSHAKE" ELSE @,
        !.fOutX = @ \/ mode = 2,
        !.fInX = @ \/ mode = 2]

\* Mutant: only one half of XON/XOFF is switched off again.
ApplyFlowControlHalf(settings, mode) ==
    [settings EXCEPT
        !.fOutxCtsFlow = mode = 1,
        !.fRtsControl = IF mode = 1 THEN "HANDSHAKE" ELSE "ENABLE",
        !.fOutX = mode = 2,
        !.fInX = @ \/ mode = 2]

\* applyFlowControl: everything off, then what the mode needs.
ApplyFlowControl(settings, mode) ==
    [settings EXCEPT
        !.fOutxCtsFlow = mode = 1,
        !.fRtsControl = IF mode = 1 THEN "HANDSHAKE" ELSE "ENABLE",
        !.fOutX = mode = 2,
        !.fInX = mode = 2]

WithBaudrate(settings, baudrate) == [settings EXCEPT !.BaudRate = baudrate]

WithDataBits(settings, bits) == [settings EXCEPT !.ByteSize = bits]

WithParity(settings, parity) ==
    [settings EXCEPT
        !.Parity = CASE parity = 0 -> NOPARITY [] parity = 1 -> EVENPARITY
                     [] parity = 2 -> ODDPARITY,
        !.fParity = parity # 0]

WithStopBits(settings, bits) ==
    [settings EXCEPT !.StopBits = IF bits = 2 THEN "TWOSTOPBITS" ELSE "ONESTOPBIT"]

\* applyLineSettings: all of a configuration, and DSR out of the way.
ApplyLineSettings(settings, config) ==
    LET sized == WithDataBits(WithBaudrate(settings, config["baudrate"]), config["data_bits"])
        shaped == WithStopBits(WithParity(sized, config["parity"]), config["stop_bits"])
    IN  [ApplyFlowControl(shaped, config["flow_mode"]) EXCEPT !.fOutxDsrFlow = FALSE]

-----------------------------------------------------------------------------
(* What the getters make of a DCB.                                         *)

GetBaudrate(settings) == settings.BaudRate

GetDataBits(settings) == settings.ByteSize

GetParity(settings) ==
    CASE settings.Parity = EVENPARITY -> 1 [] settings.Parity = ODDPARITY -> 2 [] OTHER -> 0

GetStopBits(settings) == IF settings.StopBits = "TWOSTOPBITS" THEN 2 ELSE 0

GetFlowControl(settings) ==
    IF settings.fOutxCtsFlow /\ settings.fRtsControl = "HANDSHAKE" THEN 1
    ELSE IF settings.fOutX /\ settings.fInX THEN 2 ELSE 0

Got(settings, kind) ==
    CASE kind = "baudrate" -> GetBaudrate(settings)
      [] kind = "data_bits" -> GetDataBits(settings)
      [] kind = "parity" -> GetParity(settings)
      [] kind = "stop_bits" -> GetStopBits(settings)
      [] kind = "flow_mode" -> GetFlowControl(settings)

-----------------------------------------------------------------------------
(* Opening and closing.                                                    *)

Init ==
    /\ port = "closed"
    /\ dcb \in FactoryDcb
    /\ inBreak = FALSE /\ cutShort = {} /\ clearFailed = FALSE
    /\ at = [t \in Threads |-> "idle"]
    /\ change = [t \in Threads |-> NoChange]
    /\ copy = [t \in Threads |-> NoDcb]
    /\ asked = [kind \in Kinds |-> 0]
    /\ since = [t \in Threads |-> {}]
    /\ spoiled = {}

\* The port is opened for one user, so nothing comes between the steps of
\* applyLineSettings.
Open(config) ==
    /\ port = "closed"
    /\ port' = "open"
    /\ dcb' = ApplyLineSettings(dcb, config)
    /\ asked' = config
    /\ spoiled' = {}
    /\ UNCHANGED <<at, change, copy, since, breakVars>>

\* SetCommTimeouts fails after SetCommState: the handle is closed again, the
\* settings stay with the driver.  Failures before that change nothing.
OpenFails(config) ==
    /\ port = "closed"
    /\ dcb' = ApplyLineSettings(dcb, config)
    /\ UNCHANGED <<port, at, settingVars, breakVars>>

\* serialClose with no call in progress; the driver may leave a break on.
Close ==
    /\ port = "open"
    /\ \A t \in Threads : at[t] = "idle"
    /\ port' = "closed"
    /\ \/ inBreak' = FALSE /\ clearFailed' = FALSE
       \/ UNCHANGED <<inBreak, clearFailed>>
    /\ asked' = [kind \in Kinds |-> 0]
    /\ spoiled' = {}
    /\ UNCHANGED <<dcb, at, change, copy, since, cutShort>>

-----------------------------------------------------------------------------
(* The setters.                                                            *)

\* GetCommState, and the change in the copy it fills.
ReadDcb(t, kind, value, changed) ==
    /\ port = "open" /\ at[t] = "idle"
    /\ at' = [at EXCEPT ![t] = "set"]
    /\ change' = [change EXCEPT ![t] = [kind |-> kind, value |-> value]]
    /\ copy' = [copy EXCEPT ![t] = changed]
    /\ since' = [since EXCEPT ![t] = {}]
    /\ UNCHANGED <<port, dcb, asked, spoiled, breakVars>>

SetBaudrate(t, baudrate) ==
    baudrate >= 300 /\ ReadDcb(t, "baudrate", baudrate, WithBaudrate(dcb, baudrate))

\* Mutant: one bit too few is let through.
SetDataBitsFour(t, data_bits) ==
    data_bits \in 4..8 /\ ReadDcb(t, "data_bits", data_bits, WithDataBits(dcb, data_bits))

SetDataBits(t, data_bits) ==
    data_bits \in 5..8 /\ ReadDcb(t, "data_bits", data_bits, WithDataBits(dcb, data_bits))

SetParity(t, parity) ==
    parity \in 0..2 /\ ReadDcb(t, "parity", parity, WithParity(dcb, parity))

SetStopBits(t, stop_bits) ==
    stop_bits \in {0, 2} /\ ReadDcb(t, "stop_bits", stop_bits, WithStopBits(dcb, stop_bits))

SetFlowControl(t, mode) ==
    mode \in 0..2 /\ ReadDcb(t, "flow_mode", mode, ApplyFlowControl(dcb, mode))

Return(t) ==
    /\ at' = [at EXCEPT ![t] = "idle"]
    /\ change' = [change EXCEPT ![t] = NoChange]
    /\ copy' = [copy EXCEPT ![t] = NoDcb]

\* SetCommState replaces every field by the copy, those included that other
\* threads have set since it was made.
WriteDcb(t) ==
    /\ at[t] = "set"
    /\ LET kind == change[t].kind IN
        /\ dcb' = copy[t]
        /\ asked' = [asked EXCEPT ![kind] = change[t].value]
        /\ since' = [o \in Threads |-> IF o # t /\ at[o] = "set" THEN since[o] \cup {kind} ELSE {}]
        /\ spoiled' = (spoiled \cup since[t]) \ {kind}
    /\ Return(t)
    /\ UNCHANGED <<port, breakVars>>

\* The driver refuses the DCB and keeps its own.
WriteDcbFails(t) ==
    /\ at[t] = "set"
    /\ since' = [since EXCEPT ![t] = {}]
    /\ Return(t)
    /\ UNCHANGED <<port, dcb, asked, spoiled, breakVars>>

-----------------------------------------------------------------------------
(* serialSendBreak.                                                        *)

SetCommBreak(t) ==
    /\ port = "open" /\ at[t] = "idle"
    /\ at' = [at EXCEPT ![t] = "break"]
    /\ inBreak' = TRUE
    /\ cutShort' = cutShort \ {t}
    /\ clearFailed' = FALSE
    /\ UNCHANGED <<port, dcb, settingVars>>

\* Mutant: the last of several calls leaves the clearing to the others.
ClearCommBreakShared(t) ==
    /\ at[t] = "break"
    /\ at' = [at EXCEPT ![t] = "idle"]
    /\ inBreak' = (inBreak /\ t \notin cutShort)
    /\ cutShort' = {o \in Threads : at'[o] = "break"}
    /\ clearFailed' = FALSE
    /\ UNCHANGED <<port, dcb, settingVars>>

\* After the sleep the break is cleared, also one that others still send.
ClearCommBreak(t) ==
    /\ at[t] = "break"
    /\ at' = [at EXCEPT ![t] = "idle"]
    /\ inBreak' = FALSE
    /\ cutShort' = {o \in Threads : at'[o] = "break"}
    /\ clearFailed' = FALSE
    /\ UNCHANGED <<port, dcb, settingVars>>

\* The call reports the failure and leaves the line as it is.
ClearCommBreakFails(t) ==
    /\ at[t] = "break"
    /\ at' = [at EXCEPT ![t] = "idle"]
    /\ cutShort' = cutShort \ {t}
    /\ clearFailed' = TRUE
    /\ UNCHANGED <<port, dcb, settingVars, inBreak>>

-----------------------------------------------------------------------------
Next ==
    \/ \E config \in Configs : Open(config) \/ OpenFails(config)
    \/ Close
    \/ \E t \in Threads :
        \/ \E value \in Values["baudrate"] : SetBaudrate(t, value)
        \/ \E value \in Values["data_bits"] : SetDataBits(t, value)
        \/ \E value \in Values["parity"] : SetParity(t, value)
        \/ \E value \in Values["stop_bits"] : SetStopBits(t, value)
        \/ \E value \in Values["flow_mode"] : SetFlowControl(t, value)
        \/ WriteDcb(t) \/ WriteDcbFails(t)
        \/ SetCommBreak(t) \/ ClearCommBreak(t) \/ ClearCommBreakFails(t)

Spec == Init /\ [][Next]_vars

-----------------------------------------------------------------------------
(* Properties.                                                             *)

\* A getter reports what was last set successfully, by a setter or by
\* serialOpen over whatever the port's last user left, unless a setter of
\* another kind wrote a DCB that it had read before: that is the one way in
\* which a change is lost, and it lasts until the kind is set again.
LastSetHolds == port = "open" => \A kind \in Kinds \ spoiled : Got(dcb, kind) = asked[kind]

\* No flow control, RTS/CTS, or XON/XOFF.
OneFlowMode(settings) ==
    <<settings.fOutxCtsFlow, settings.fRtsControl, settings.fOutX, settings.fInX>>
        \in {<<FALSE, "ENABLE", FALSE, FALSE>>, <<TRUE, "HANDSHAKE", FALSE, FALSE>>,
             <<FALSE, "ENABLE", TRUE, TRUE>>}

\* Setters that cross lose changes as a whole and never mix two of them: the
\* port is always in exactly one flow mode, checks parity exactly when it has
\* one, and no DSR line of an earlier user holds its output back.
NeverMixed ==
    port = "open" =>
        /\ OneFlowMode(dcb)
        /\ dcb.fParity <=> dcb.Parity # NOPARITY
        /\ ~dcb.fOutxDsrFlow

Breaking == {t \in Threads : at[t] = "break"}

\* The line is in break for as long as a serialSendBreak lasts, unless
\* another call ends in the meantime, and no longer than the last of them,
\* unless ClearCommBreak failed.
BreakIsSent ==
    /\ Breaking \ cutShort # {} => inBreak
    /\ inBreak => Breaking # {} \/ clearFailed

=============================================================================
