------------------------- MODULE LineSettingsProofs -------------------------
(***************************************************************************)
(* Proofs about LineSettings, for any number of threads, any arguments of  *)
(* the setters, any valid configurations and whatever settings a port was  *)
(* left with.                                                              *)
(***************************************************************************)
EXTENDS LineSettings, TLAPS

-----------------------------------------------------------------------------
(* The inductive invariant.                                                *)

ParityFits(settings) == settings.fParity <=> settings.Parity # NOPARITY

\* What NeverMixed says of one DCB.
Unmixed(settings) ==
    OneFlowMode(settings) /\ ParityFits(settings) /\ ~settings.fOutxDsrFlow

InUse == \A t \in Threads : at[t] # "idle" => port = "open"

\* A thread in a setter has its change in its copy.
CopyHasChange ==
    \A t \in Threads : at[t] = "set" =>
        /\ copy[t] \in DCB /\ Unmixed(copy[t])
        /\ change[t] \in [kind : Kinds, value : Int]
        /\ Got(copy[t], change[t].kind) = change[t].value

\* The rest of the copy is what was last set, except for kinds that others
\* have set meanwhile.
CopyIsRecent ==
    \A t \in Threads : at[t] = "set" =>
        \A kind \in Kinds \ (spoiled \cup since[t]) :
            kind # change[t].kind => Got(copy[t], kind) = asked[kind]

IInv ==
    /\ TypeOK /\ InUse /\ CopyHasChange /\ CopyIsRecent
    /\ LastSetHolds /\ NeverMixed /\ BreakIsSent

-----------------------------------------------------------------------------
(* What setters and getters make of each other's fields.                   *)

\* A setter of one kind changes what its getter reports, and nothing else.
Overlays(settings, kind, value, changed) ==
    /\ changed \in DCB
    /\ Got(changed, kind) = value
    /\ \A other \in Kinds \ {kind} : Got(changed, other) = Got(settings, other)
    /\ kind = "parity" \/ ParityFits(settings) => ParityFits(changed)
    /\ kind = "flow_mode" \/ OneFlowMode(settings) => OneFlowMode(changed)
    /\ changed.fOutxDsrFlow = settings.fOutxDsrFlow

\* The rate is stored as it is.
LEMMA BaudrateOverlays ==
    ASSUME NEW settings \in DCB, NEW value \in Int, value >= 300
    PROVE  Overlays(settings, "baudrate", value, WithBaudrate(settings, value))
<1> DEFINE changed == WithBaudrate(settings, value)
<1>1. changed \in DCB
    BY DEF WithBaudrate, DCB, NOPARITY, EVENPARITY, ODDPARITY
<1>2. Got(changed, "baudrate") = value
    BY DEF WithBaudrate, DCB, Got, GetBaudrate, NOPARITY, EVENPARITY, ODDPARITY
<1>3. /\ changed.ByteSize = settings.ByteSize /\ changed.fParity = settings.fParity
      /\ changed.Parity = settings.Parity /\ changed.StopBits = settings.StopBits
      /\ changed.fOutxCtsFlow = settings.fOutxCtsFlow /\ changed.fRtsControl = settings.fRtsControl
      /\ changed.fOutX = settings.fOutX /\ changed.fInX = settings.fInX
      /\ changed.fOutxDsrFlow = settings.fOutxDsrFlow
    BY DEF WithBaudrate, DCB
<1> HIDE DEF changed
<1>4. ASSUME NEW other \in Kinds \ {"baudrate"}
      PROVE  Got(changed, other) = Got(settings, other)
    BY <1>3 DEF Kinds, Got, GetDataBits, GetParity, GetStopBits, GetFlowControl
<1>5. ParityFits(settings) => ParityFits(changed)
    BY <1>3 DEF ParityFits
<1>6. OneFlowMode(settings) => OneFlowMode(changed)
    BY <1>3 DEF OneFlowMode
<1> QED
    BY <1>1, <1>2, <1>3, <1>4, <1>5, <1>6 DEF Overlays, changed

\* Five to eight data bits fit the byte size.
LEMMA DataBitsOverlay ==
    ASSUME NEW settings \in DCB, NEW value \in 5..8
    PROVE  Overlays(settings, "data_bits", value, WithDataBits(settings, value))
<1> DEFINE changed == WithDataBits(settings, value)
<1>1. changed \in DCB
    BY DEF WithDataBits, DCB, NOPARITY, EVENPARITY, ODDPARITY
<1>2. Got(changed, "data_bits") = value
    BY DEF WithDataBits, DCB, Got, GetDataBits, NOPARITY, EVENPARITY, ODDPARITY
<1>3. /\ changed.BaudRate = settings.BaudRate /\ changed.fParity = settings.fParity
      /\ changed.Parity = settings.Parity /\ changed.StopBits = settings.StopBits
      /\ changed.fOutxCtsFlow = settings.fOutxCtsFlow /\ changed.fRtsControl = settings.fRtsControl
      /\ changed.fOutX = settings.fOutX /\ changed.fInX = settings.fInX
      /\ changed.fOutxDsrFlow = settings.fOutxDsrFlow
    BY DEF WithDataBits, DCB
<1> HIDE DEF changed
<1>4. ASSUME NEW other \in Kinds \ {"data_bits"}
      PROVE  Got(changed, other) = Got(settings, other)
    BY <1>3 DEF Kinds, Got, GetBaudrate, GetParity, GetStopBits, GetFlowControl
<1>5. ParityFits(settings) => ParityFits(changed)
    BY <1>3 DEF ParityFits
<1>6. OneFlowMode(settings) => OneFlowMode(changed)
    BY <1>3 DEF OneFlowMode
<1> QED
    BY <1>1, <1>2, <1>3, <1>4, <1>5, <1>6 DEF Overlays, changed

\* WithParity with its two new fields as values.
LEMMA ParityFields ==
    ASSUME NEW settings \in DCB, NEW value \in 0..2
    PROVE  \E parity \in {NOPARITY, EVENPARITY, ODDPARITY}, checks \in BOOLEAN :
               WithParity(settings, value) =
                   [settings EXCEPT !.Parity = parity, !.fParity = checks]
<1> DEFINE parity == CASE value = 0 -> NOPARITY [] value = 1 -> EVENPARITY
                       [] value = 2 -> ODDPARITY
           checks == value # 0
<1>1. WithParity(settings, value) = [settings EXCEPT !.Parity = parity, !.fParity = checks]
    BY DEF WithParity
<1>2. parity \in {NOPARITY, EVENPARITY, ODDPARITY}
    OBVIOUS
<1>3. checks \in BOOLEAN
    OBVIOUS
<1> HIDE DEF parity, checks
<1> QED
    BY <1>1, <1>2, <1>3, Zenon

\* The parity bit is checked exactly when there is one.
LEMMA ParityAlwaysFits ==
    ASSUME NEW settings \in DCB, NEW value \in 0..2
    PROVE  ParityFits(WithParity(settings, value))
<1> DEFINE changed == WithParity(settings, value)
<1>1. /\ changed.fParity <=> value # 0
      /\ changed.Parity = CASE value = 0 -> NOPARITY [] value = 1 -> EVENPARITY
                            [] value = 2 -> ODDPARITY
    BY DEF WithParity, DCB
<1> HIDE DEF changed
<1>2. changed.fParity <=> changed.Parity # NOPARITY
    BY <1>1 DEF NOPARITY, EVENPARITY, ODDPARITY
<1> QED
    BY <1>2 DEF changed, ParityFits

\* The three parities of the interface are three of the DCB.
LEMMA ParityOverlays ==
    ASSUME NEW settings \in DCB, NEW value \in 0..2
    PROVE  Overlays(settings, "parity", value, WithParity(settings, value))
<1> DEFINE changed == WithParity(settings, value)
<1>1. changed \in DCB
    <2>1. PICK parity \in {NOPARITY, EVENPARITY, ODDPARITY}, checks \in BOOLEAN :
              changed = [settings EXCEPT !.Parity = parity, !.fParity = checks]
        BY ParityFields
    <2> HIDE DEF changed
    <2> QED
        BY <2>1 DEF DCB
<1>2. Got(changed, "parity") = value
    BY DEF WithParity, DCB, Got, GetParity, NOPARITY, EVENPARITY, ODDPARITY
<1>3. /\ changed.BaudRate = settings.BaudRate /\ changed.ByteSize = settings.ByteSize
      /\ changed.StopBits = settings.StopBits /\ changed.fOutxCtsFlow = settings.fOutxCtsFlow
      /\ changed.fRtsControl = settings.fRtsControl /\ changed.fOutX = settings.fOutX
      /\ changed.fInX = settings.fInX /\ changed.fOutxDsrFlow = settings.fOutxDsrFlow
    BY DEF WithParity, DCB
<1> HIDE DEF changed
<1>4. ASSUME NEW other \in Kinds \ {"parity"}
      PROVE  Got(changed, other) = Got(settings, other)
    BY <1>3 DEF Kinds, Got, GetBaudrate, GetDataBits, GetStopBits, GetFlowControl
<1>5. ParityFits(changed)
    BY ParityAlwaysFits DEF changed
<1>6. OneFlowMode(settings) => OneFlowMode(changed)
    BY <1>3 DEF OneFlowMode
<1> QED
    BY <1>1, <1>2, <1>3, <1>4, <1>5, <1>6 DEF Overlays, changed

\* Two stop bits, or one.
LEMMA StopBitsOverlay ==
    ASSUME NEW settings \in DCB, NEW value \in {0, 2}
    PROVE  Overlays(settings, "stop_bits", value, WithStopBits(settings, value))
<1> DEFINE changed == WithStopBits(settings, value)
<1>1. changed \in DCB
    BY DEF WithStopBits, DCB, NOPARITY, EVENPARITY, ODDPARITY
<1>2. Got(changed, "stop_bits") = value
    BY DEF WithStopBits, DCB, Got, GetStopBits, NOPARITY, EVENPARITY, ODDPARITY
<1>3. /\ changed.BaudRate = settings.BaudRate /\ changed.ByteSize = settings.ByteSize
      /\ changed.fParity = settings.fParity /\ changed.Parity = settings.Parity
      /\ changed.fOutxCtsFlow = settings.fOutxCtsFlow /\ changed.fRtsControl = settings.fRtsControl
      /\ changed.fOutX = settings.fOutX /\ changed.fInX = settings.fInX
      /\ changed.fOutxDsrFlow = settings.fOutxDsrFlow
    BY DEF WithStopBits, DCB
<1> HIDE DEF changed
<1>4. ASSUME NEW other \in Kinds \ {"stop_bits"}
      PROVE  Got(changed, other) = Got(settings, other)
    BY <1>3 DEF Kinds, Got, GetBaudrate, GetDataBits, GetParity, GetFlowControl
<1>5. ParityFits(settings) => ParityFits(changed)
    BY <1>3 DEF ParityFits
<1>6. OneFlowMode(settings) => OneFlowMode(changed)
    BY <1>3 DEF OneFlowMode
<1> QED
    BY <1>1, <1>2, <1>3, <1>4, <1>5, <1>6 DEF Overlays, changed

\* ApplyFlowControl with its two conditions as values.
LEMMA FlowControlFields ==
    ASSUME NEW settings \in DCB, NEW value \in 0..2
    PROVE  \E cts, xon \in BOOLEAN :
               /\ cts <=> value = 1
               /\ xon <=> value = 2
               /\ ApplyFlowControl(settings, value) =
                      [settings EXCEPT
                          !.fOutxCtsFlow = cts,
                          !.fRtsControl = IF value = 1 THEN "HANDSHAKE" ELSE "ENABLE",
                          !.fOutX = xon,
                          !.fInX = xon]
<1> DEFINE cts == value = 1
           xon == value = 2
<1>1. ApplyFlowControl(settings, value) =
          [settings EXCEPT
              !.fOutxCtsFlow = cts,
              !.fRtsControl = IF value = 1 THEN "HANDSHAKE" ELSE "ENABLE",
              !.fOutX = xon,
              !.fInX = xon]
    BY DEF ApplyFlowControl
<1>2. cts \in BOOLEAN /\ xon \in BOOLEAN /\ (cts <=> value = 1) /\ (xon <=> value = 2)
    OBVIOUS
<1> HIDE DEF cts, xon
<1> QED
    BY <1>1, <1>2, Zenon

\* The lines of flow control are set to one mode, and the other fields stay.
LEMMA FlowControlOverlays ==
    ASSUME NEW settings \in DCB, NEW value \in 0..2
    PROVE  Overlays(settings, "flow_mode", value, ApplyFlowControl(settings, value))
<1> DEFINE changed == ApplyFlowControl(settings, value)
<1>1. PICK cts \in BOOLEAN, xon \in BOOLEAN :
          /\ cts <=> value = 1
          /\ xon <=> value = 2
          /\ changed = [settings EXCEPT
                 !.fOutxCtsFlow = cts,
                 !.fRtsControl = IF value = 1 THEN "HANDSHAKE" ELSE "ENABLE",
                 !.fOutX = xon,
                 !.fInX = xon]
    BY FlowControlFields
<1> HIDE DEF changed
<1>2. changed \in DCB
    BY <1>1 DEF DCB
<1>3. /\ changed.fOutxCtsFlow = cts /\ changed.fOutX = xon /\ changed.fInX = xon
      /\ changed.fRtsControl = IF value = 1 THEN "HANDSHAKE" ELSE "ENABLE"
    BY <1>1 DEF DCB
<1>4. /\ changed.BaudRate = settings.BaudRate /\ changed.ByteSize = settings.ByteSize
      /\ changed.Parity = settings.Parity /\ changed.fParity = settings.fParity
      /\ changed.StopBits = settings.StopBits
      /\ changed.fOutxDsrFlow = settings.fOutxDsrFlow
    BY <1>1 DEF DCB
<1>5. GetFlowControl(changed) = value
    <2>1. CASE value = 1
        <3>1. changed.fOutxCtsFlow /\ changed.fRtsControl = "HANDSHAKE"
            BY <1>1, <1>3, <2>1
        <3> QED
            BY <3>1, <2>1 DEF GetFlowControl
    <2>2. CASE value = 2
        <3>1. ~changed.fOutxCtsFlow /\ changed.fOutX /\ changed.fInX
            BY <1>1, <1>3, <2>2
        <3> QED
            BY <3>1, <2>2 DEF GetFlowControl
    <2>3. CASE value = 0
        <3>1. ~changed.fOutxCtsFlow /\ ~changed.fOutX
            BY <1>1, <1>3, <2>3
        <3> QED
            BY <3>1, <2>3 DEF GetFlowControl
    <2> QED
        BY <2>1, <2>2, <2>3
<1>6. OneFlowMode(changed)
    <2>1. CASE value = 1
        BY <1>1, <1>3, <2>1, cts = TRUE, xon = FALSE DEF OneFlowMode
    <2>2. CASE value = 2
        BY <1>1, <1>3, <2>2, cts = FALSE, xon = TRUE DEF OneFlowMode
    <2>3. CASE value = 0
        BY <1>1, <1>3, <2>3, cts = FALSE, xon = FALSE DEF OneFlowMode
    <2> QED
        BY <2>1, <2>2, <2>3
<1>7. Got(changed, "flow_mode") = value
    BY <1>5 DEF Got
<1>8. ASSUME NEW other \in Kinds \ {"flow_mode"}
      PROVE  Got(changed, other) = Got(settings, other)
    BY <1>4 DEF Kinds, Got, GetBaudrate, GetDataBits, GetParity, GetStopBits
<1>9. ParityFits(settings) => ParityFits(changed)
    BY <1>4 DEF ParityFits
<1> QED
    BY <1>2, <1>4, <1>6, <1>7, <1>8, <1>9 DEF Overlays, changed

\* A change of a mixed DCB stays as it is; of an unmixed one it is unmixed.
LEMMA OverlayUnmixed ==
    ASSUME NEW settings, NEW kind, NEW value, NEW changed,
           Overlays(settings, kind, value, changed), Unmixed(settings)
    PROVE  Unmixed(changed)
BY DEF Overlays, Unmixed

\* serialOpen leaves nothing of the last user's settings that matters.
LEMMA ApplyLineSettingsApplies ==
    ASSUME NEW settings \in DCB, NEW config \in [Kinds -> Int], ValidConfig(config)
    PROVE  LET applied == ApplyLineSettings(settings, config) IN
           /\ applied \in DCB
           /\ Unmixed(applied)
           /\ \A kind \in Kinds : Got(applied, kind) = config[kind]
<1> DEFINE d1 == WithBaudrate(settings, config["baudrate"])
           d2 == WithDataBits(d1, config["data_bits"])
           d3 == WithParity(d2, config["parity"])
           d4 == WithStopBits(d3, config["stop_bits"])
           d5 == ApplyFlowControl(d4, config["flow_mode"])
           d6 == [d5 EXCEPT !.fOutxDsrFlow = FALSE]
<1>0. ApplyLineSettings(settings, config) = d6
    BY DEF ApplyLineSettings
<1>1. config["baudrate"] \in Int /\ config["baudrate"] >= 300
    BY DEF ValidConfig, Kinds
<1>2. Overlays(settings, "baudrate", config["baudrate"], d1) /\ d1 \in DCB
    BY <1>1, BaudrateOverlays DEF Overlays
<1> HIDE DEF d1
<1>3. Overlays(d1, "data_bits", config["data_bits"], d2) /\ d2 \in DCB
    BY <1>2, DataBitsOverlay DEF Overlays, ValidConfig
<1> HIDE DEF d2
<1>4. Overlays(d2, "parity", config["parity"], d3) /\ d3 \in DCB
    BY <1>3, ParityOverlays DEF Overlays, ValidConfig
<1> HIDE DEF d3
<1>5. Overlays(d3, "stop_bits", config["stop_bits"], d4) /\ d4 \in DCB
    BY <1>4, StopBitsOverlay DEF Overlays, ValidConfig
<1> HIDE DEF d4
<1>6. Overlays(d4, "flow_mode", config["flow_mode"], d5) /\ d5 \in DCB
    BY <1>5, FlowControlOverlays DEF Overlays, ValidConfig
<1> HIDE DEF d5
<1>7. ParityFits(d5) /\ OneFlowMode(d5)
    BY <1>4, <1>5, <1>6 DEF Overlays
<1>8. \A kind \in Kinds : Got(d5, kind) = config[kind]
    BY <1>2, <1>3, <1>4, <1>5, <1>6 DEF Overlays, Kinds
<1>9. d6 \in DCB /\ d6.fOutxDsrFlow = FALSE
    BY <1>6 DEF DCB
<1>10. /\ d6.BaudRate = d5.BaudRate /\ d6.ByteSize = d5.ByteSize
       /\ d6.fParity = d5.fParity /\ d6.Parity = d5.Parity /\ d6.StopBits = d5.StopBits
       /\ d6.fOutxCtsFlow = d5.fOutxCtsFlow /\ d6.fRtsControl = d5.fRtsControl
       /\ d6.fOutX = d5.fOutX /\ d6.fInX = d5.fInX
    BY <1>6 DEF DCB
<1> HIDE DEF d6
<1>11. \A kind \in Kinds : Got(d6, kind) = Got(d5, kind)
    BY <1>10 DEF Kinds, Got, GetBaudrate, GetDataBits, GetParity, GetStopBits,
       GetFlowControl
<1>12. Unmixed(d6)
    BY <1>7, <1>9, <1>10 DEF Unmixed, ParityFits, OneFlowMode
<1> QED
    BY <1>0, <1>8, <1>9, <1>11, <1>12

-----------------------------------------------------------------------------
(* Every step preserves the invariant.                                     *)

\* Nothing is set before the port is opened.
LEMMA InitIInv == Init => IInv
<1> SUFFICES ASSUME Init PROVE IInv
    OBVIOUS
<1>1. TypeOK
    <2>1. asked \in [Kinds -> Int]
        BY DEF Init
    <2> QED
        BY <2>1, SettingsAssumption DEF Init, TypeOK
<1>2. /\ port = "closed" /\ \A t \in Threads : at[t] = "idle"
      /\ inBreak = FALSE
    BY DEF Init
<1>3. InUse /\ CopyHasChange /\ CopyIsRecent
    BY <1>2 DEF InUse, CopyHasChange, CopyIsRecent
<1>4. LastSetHolds /\ NeverMixed
    BY <1>2 DEF LastSetHolds, NeverMixed
<1>5. BreakIsSent
    BY <1>2 DEF BreakIsSent, Breaking
<1> QED
    BY <1>1, <1>3, <1>4, <1>5 DEF IInv

\* A thread that is at work has the port open, so nobody opens or closes it.
LEMMA OpenStep ==
    ASSUME IInv, NEW config \in Configs, Open(config)
    PROVE  IInv'
<1>1. /\ dcb' \in DCB /\ Unmixed(dcb') /\ asked' = config
      /\ \A kind \in Kinds : Got(dcb', kind) = config[kind]
    BY ApplyLineSettingsApplies, SettingsAssumption DEF Open, IInv, TypeOK
<1>2. \A t \in Threads : at[t] = "idle"
    BY DEF IInv, InUse, Open
<1>3. TypeOK'
    BY <1>1, SettingsAssumption DEF IInv, TypeOK, Open, breakVars
<1>4. InUse' /\ CopyHasChange' /\ CopyIsRecent'
    BY <1>2 DEF InUse, CopyHasChange, CopyIsRecent, Open
<1>5. LastSetHolds' /\ NeverMixed'
    BY <1>1 DEF LastSetHolds, NeverMixed, Unmixed, ParityFits
<1>6. BreakIsSent'
    BY DEF IInv, BreakIsSent, Breaking, Open, breakVars
<1> QED
    BY <1>3, <1>4, <1>5, <1>6 DEF IInv

\* The settings stay behind with a port that is not open.
LEMMA OpenFailsStep ==
    ASSUME IInv, NEW config \in Configs, OpenFails(config)
    PROVE  IInv'
<1>1. dcb' \in DCB
    BY ApplyLineSettingsApplies, SettingsAssumption DEF OpenFails, IInv, TypeOK
<1>2. TypeOK'
    BY <1>1 DEF IInv, TypeOK, OpenFails, settingVars, breakVars
<1>3. InUse' /\ CopyHasChange' /\ CopyIsRecent' /\ LastSetHolds' /\ NeverMixed' /\ BreakIsSent'
    BY DEF IInv, InUse, CopyHasChange, CopyIsRecent, LastSetHolds, NeverMixed, BreakIsSent,
       Breaking, OpenFails, settingVars, breakVars
<1> QED
    BY <1>2, <1>3 DEF IInv

\* No thread is at work.
LEMMA CloseStep ==
    ASSUME IInv, Close
    PROVE  IInv'
<1>1. TypeOK'
    <2>1. {inBreak', clearFailed'} \subseteq BOOLEAN
        BY DEF IInv, TypeOK, Close
    <2>2. asked' \in [Kinds -> Int]
        BY DEF Close
    <2>3. UNCHANGED <<dcb, at, change, copy, since, cutShort>> /\ port' = "closed" /\ spoiled' = {}
        BY DEF Close
    <2> QED
        BY <2>1, <2>2, <2>3 DEF IInv, TypeOK
<1>2. \A t \in Threads : at[t] = "idle" /\ at'[t] = "idle"
    BY DEF Close
<1>3. InUse' /\ CopyHasChange' /\ CopyIsRecent'
    BY <1>2 DEF InUse, CopyHasChange, CopyIsRecent
<1>4. LastSetHolds' /\ NeverMixed'
    BY DEF LastSetHolds, NeverMixed, Close
<1>5. BreakIsSent'
    <2>1. Breaking = {} /\ Breaking' = {}
        BY <1>2 DEF Breaking
    <2> QED
        BY <2>1 DEF IInv, BreakIsSent, Close
<1> QED
    BY <1>1, <1>3, <1>4, <1>5 DEF IInv

\* The copy of a setter is the DCB of the port with its change.
LEMMA ReadDcbStep ==
    ASSUME IInv, NEW t \in Threads, NEW kind \in Kinds, NEW value \in Int, NEW changed,
           Overlays(dcb, kind, value, changed), ReadDcb(t, kind, value, changed)
    PROVE  IInv'
<1>0. changed \in DCB /\ Got(changed, kind) = value
    BY DEF Overlays
<1>1. TypeOK'
    BY <1>0 DEF IInv, TypeOK, ReadDcb, breakVars
<1>2. InUse'
    BY DEF IInv, TypeOK, InUse, ReadDcb
<1>3. CopyHasChange'
    <2>1. Unmixed(changed)
        BY OverlayUnmixed DEF IInv, NeverMixed, Unmixed, ParityFits, ReadDcb
    <2>2. /\ copy'[t] = changed /\ change'[t] = [kind |-> kind, value |-> value]
          /\ \A u \in Threads \ {t} :
                at'[u] = at[u] /\ copy'[u] = copy[u] /\ change'[u] = change[u]
        BY DEF IInv, TypeOK, ReadDcb
    <2> QED
        BY <1>0, <2>1, <2>2 DEF IInv, CopyHasChange
<1>4. CopyIsRecent'
    <2>1. \A other \in Kinds \ spoiled : other # kind => Got(changed, other) = asked[other]
        BY DEF IInv, LastSetHolds, Overlays, ReadDcb
    <2>2. /\ copy'[t] = changed /\ change'[t].kind = kind /\ since'[t] = {}
          /\ \A u \in Threads \ {t} : /\ at'[u] = at[u] /\ copy'[u] = copy[u]
                                      /\ change'[u] = change[u] /\ since'[u] = since[u]
          /\ spoiled' = spoiled /\ asked' = asked
        BY DEF IInv, TypeOK, ReadDcb
    <2> QED
        BY <2>1, <2>2 DEF IInv, CopyIsRecent
<1>5. LastSetHolds' /\ NeverMixed'
    BY DEF IInv, LastSetHolds, NeverMixed, ReadDcb
<1>6. BreakIsSent'
    BY DEF IInv, TypeOK, BreakIsSent, Breaking, ReadDcb, breakVars
<1> QED
    BY <1>1, <1>2, <1>3, <1>4, <1>5, <1>6 DEF IInv

\* The copy becomes the settings; what it undoes is spoiled from here on.
LEMMA WriteDcbStep ==
    ASSUME IInv, NEW t \in Threads, WriteDcb(t)
    PROVE  IInv'
<1> DEFINE kind == change[t].kind
<1>1. /\ at[t] = "set" /\ copy[t] \in DCB /\ Unmixed(copy[t])
      /\ change[t] \in [kind : Kinds, value : Int]
      /\ Got(copy[t], change[t].kind) = change[t].value
    BY DEF IInv, CopyHasChange, WriteDcb
<1>2. /\ dcb' = copy[t]
      /\ asked' = [asked EXCEPT ![kind] = change[t].value]
      /\ spoiled' = (spoiled \cup since[t]) \ {kind}
      /\ kind \in Kinds
    BY <1>1 DEF WriteDcb
<1>3. since' = [o \in Threads |-> IF o # t /\ at[o] = "set" THEN since[o] \cup {kind} ELSE {}]
    BY DEF WriteDcb
<1>4. /\ at' = [at EXCEPT ![t] = "idle"]
      /\ change' = [change EXCEPT ![t] = NoChange]
      /\ copy' = [copy EXCEPT ![t] = NoDcb]
      /\ UNCHANGED <<port, inBreak, cutShort, clearFailed>>
    BY DEF WriteDcb, Return, breakVars
<1>5. /\ at'[t] = "idle"
      /\ \A u \in Threads \ {t} : at'[u] = at[u] /\ copy'[u] = copy[u] /\ change'[u] = change[u]
    BY <1>4 DEF IInv, TypeOK
<1> HIDE DEF kind
<1>6. TypeOK'
    <2>1. asked' \in [Kinds -> Int]
        BY <1>1, <1>2 DEF IInv, TypeOK
    <2>2. since' \in [Threads -> SUBSET Kinds] /\ spoiled' \subseteq Kinds
        BY <1>2, <1>3 DEF IInv, TypeOK
    <2> QED
        BY <1>1, <1>2, <1>4, <2>1, <2>2 DEF IInv, TypeOK
<1>7. InUse' /\ CopyHasChange'
    BY <1>4, <1>5 DEF IInv, InUse, CopyHasChange
<1>8. CopyIsRecent'
    <2> SUFFICES ASSUME NEW u \in Threads, at'[u] = "set",
                        NEW other \in Kinds \ (spoiled' \cup since'[u]),
                        other # change'[u].kind
                 PROVE  Got(copy'[u], other) = asked'[other]
        BY DEF CopyIsRecent
    <2>1. u # t /\ at[u] = "set" /\ copy'[u] = copy[u] /\ change'[u] = change[u]
        BY <1>5
    <2>2. since'[u] = since[u] \cup {kind}
        BY <1>3, <2>1
    <2>3. other # kind /\ other \notin spoiled /\ other \notin since[u]
        BY <1>2, <2>2
    <2>4. asked'[other] = asked[other]
        BY <1>2, <2>3 DEF IInv, TypeOK
    <2> QED
        BY <2>1, <2>3, <2>4 DEF IInv, CopyIsRecent
<1>9. LastSetHolds'
    <2> SUFFICES ASSUME NEW other \in Kinds \ spoiled'
                 PROVE  Got(dcb', other) = asked'[other]
        BY DEF LastSetHolds
    <2>1. CASE other = kind
        BY <1>1, <1>2, <2>1 DEF IInv, TypeOK, kind
    <2>2. CASE other # kind
        <3>1. other \notin spoiled /\ other \notin since[t] /\ asked'[other] = asked[other]
            BY <1>2, <2>2 DEF IInv, TypeOK
        <3> QED
            BY <1>1, <1>2, <2>2, <3>1 DEF IInv, CopyIsRecent, kind
    <2> QED
        BY <2>1, <2>2
<1>10. NeverMixed'
    BY <1>1, <1>2 DEF NeverMixed, Unmixed, ParityFits
<1>11. BreakIsSent'
    BY <1>1, <1>4, <1>5 DEF IInv, BreakIsSent, Breaking
<1> QED
    BY <1>6, <1>7, <1>8, <1>9, <1>10, <1>11 DEF IInv

\* The settings stay.
LEMMA WriteDcbFailsStep ==
    ASSUME IInv, NEW t \in Threads, WriteDcbFails(t)
    PROVE  IInv'
<1>1. /\ at'[t] = "idle"
      /\ \A u \in Threads \ {t} : /\ at'[u] = at[u] /\ copy'[u] = copy[u]
                                  /\ change'[u] = change[u] /\ since'[u] = since[u]
    BY DEF IInv, TypeOK, WriteDcbFails, Return
<1>2. TypeOK'
    BY DEF IInv, TypeOK, WriteDcbFails, Return, breakVars
<1>3. InUse' /\ CopyHasChange'
    BY <1>1 DEF IInv, InUse, CopyHasChange, WriteDcbFails
<1>4. CopyIsRecent'
    BY <1>1 DEF IInv, CopyIsRecent, WriteDcbFails
<1>5. LastSetHolds' /\ NeverMixed'
    BY DEF IInv, LastSetHolds, NeverMixed, WriteDcbFails
<1>6. BreakIsSent'
    BY <1>1 DEF IInv, BreakIsSent, Breaking, WriteDcbFails, breakVars
<1> QED
    BY <1>2, <1>3, <1>4, <1>5, <1>6 DEF IInv

-----------------------------------------------------------------------------
\* A step of serialSendBreak leaves the settings to the setters.
LEMMA BreakLeavesSettings ==
    ASSUME IInv, NEW t \in Threads, NEW pc \in {"idle", "break"}, port = "open",
           at' = [at EXCEPT ![t] = pc],
           UNCHANGED <<port, dcb, settingVars>>
    PROVE  InUse' /\ CopyHasChange' /\ CopyIsRecent' /\ LastSetHolds' /\ NeverMixed'
<1>1. \A u \in Threads : at'[u] = "set" => at[u] = "set"
    BY DEF IInv, TypeOK
<1>2. InUse'
    BY DEF InUse
<1>3. CopyHasChange' /\ CopyIsRecent' /\ LastSetHolds' /\ NeverMixed'
    BY <1>1 DEF IInv, CopyHasChange, CopyIsRecent, LastSetHolds, NeverMixed, settingVars
<1> QED
    BY <1>2, <1>3

\* The call itself is in break and nobody has cut it short.
LEMMA SetCommBreakStep ==
    ASSUME IInv, NEW t \in Threads, SetCommBreak(t)
    PROVE  IInv'
<1>1. TypeOK'
    BY DEF IInv, TypeOK, SetCommBreak, settingVars
<1>2. BreakIsSent'
    BY DEF IInv, TypeOK, BreakIsSent, Breaking, SetCommBreak
<1> QED
    BY <1>1, <1>2, BreakLeavesSettings DEF IInv, SetCommBreak

\* The breaks that go on are cut short, all of them.
LEMMA ClearCommBreakStep ==
    ASSUME IInv, NEW t \in Threads, ClearCommBreak(t)
    PROVE  IInv'
<1>0. port = "open"
    BY DEF IInv, InUse, ClearCommBreak
<1>1. TypeOK'
    BY DEF IInv, TypeOK, ClearCommBreak, settingVars
<1>2. BreakIsSent'
    BY DEF BreakIsSent, Breaking, ClearCommBreak
<1> QED
    BY <1>0, <1>1, <1>2, BreakLeavesSettings DEF IInv, ClearCommBreak

\* The line may stay in break without a call: ClearCommBreak failed.
LEMMA ClearCommBreakFailsStep ==
    ASSUME IInv, NEW t \in Threads, ClearCommBreakFails(t)
    PROVE  IInv'
<1>0. port = "open"
    BY DEF IInv, InUse, ClearCommBreakFails
<1>1. TypeOK'
    BY DEF IInv, TypeOK, ClearCommBreakFails, settingVars
<1>2. BreakIsSent'
    BY DEF IInv, TypeOK, BreakIsSent, Breaking, ClearCommBreakFails
<1> QED
    BY <1>0, <1>1, <1>2, BreakLeavesSettings DEF IInv, ClearCommBreakFails

-----------------------------------------------------------------------------
\* The five setters are ReadDcb with changes that overlay.
LEMMA SetterStep ==
    ASSUME IInv, NEW t \in Threads,
           \/ \E value \in Values["baudrate"] : SetBaudrate(t, value)
           \/ \E value \in Values["data_bits"] : SetDataBits(t, value)
           \/ \E value \in Values["parity"] : SetParity(t, value)
           \/ \E value \in Values["stop_bits"] : SetStopBits(t, value)
           \/ \E value \in Values["flow_mode"] : SetFlowControl(t, value)
    PROVE  IInv'
<1>0. /\ dcb \in DCB
      /\ \A kind \in Kinds : Values[kind] \subseteq Int
    BY SettingsAssumption DEF IInv, TypeOK
<1>1. ASSUME NEW value \in Values["baudrate"], SetBaudrate(t, value) PROVE IInv'
    BY <1>0, <1>1, BaudrateOverlays, ReadDcbStep DEF SetBaudrate, Kinds
<1>2. ASSUME NEW value \in Values["data_bits"], SetDataBits(t, value) PROVE IInv'
    BY <1>0, <1>2, DataBitsOverlay, ReadDcbStep DEF SetDataBits, Kinds
<1>3. ASSUME NEW value \in Values["parity"], SetParity(t, value) PROVE IInv'
    BY <1>0, <1>3, ParityOverlays, ReadDcbStep DEF SetParity, Kinds
<1>4. ASSUME NEW value \in Values["stop_bits"], SetStopBits(t, value) PROVE IInv'
    BY <1>0, <1>4, StopBitsOverlay, ReadDcbStep DEF SetStopBits, Kinds
<1>5. ASSUME NEW value \in Values["flow_mode"], SetFlowControl(t, value) PROVE IInv'
    BY <1>0, <1>5, FlowControlOverlays, ReadDcbStep DEF SetFlowControl, Kinds
<1> QED
    BY <1>1, <1>2, <1>3, <1>4, <1>5

\* The invariant speaks of the variables only.
LEMMA StutterIInv == IInv /\ UNCHANGED vars => IInv'
BY DEF vars, settingVars, breakVars, IInv, TypeOK, InUse, CopyHasChange, CopyIsRecent,
   LastSetHolds, NeverMixed, BreakIsSent, Breaking

\* The invariant holds of every behaviour of a port.
THEOREM Invariance == Spec => []IInv
<1>1. IInv /\ [Next]_vars => IInv'
    <2> SUFFICES ASSUME IInv, [Next]_vars PROVE IInv'
        OBVIOUS
    <2>1. CASE UNCHANGED vars
        BY <2>1, StutterIInv
    <2>2. CASE Next
        BY <2>2, OpenStep, OpenFailsStep, CloseStep, SetterStep, WriteDcbStep,
           WriteDcbFailsStep, SetCommBreakStep, ClearCommBreakStep, ClearCommBreakFailsStep
           DEF Next
    <2> QED
        BY <2>1, <2>2
<1> QED
    BY <1>1, InitIInv, PTL DEF Spec

\* Every variable keeps its type: the setters give the driver a DCB of valid
\* fields, whatever their arguments.
THEOREM TypeAlwaysRight == Spec => []TypeOK
<1>1. IInv => TypeOK
    BY DEF IInv
<1> QED
    BY <1>1, Invariance, PTL

\* A getter reports what was last set, unless a setter with an older DCB has
\* come between.
THEOREM LastSetAlwaysHolds == Spec => []LastSetHolds
<1>1. IInv => LastSetHolds
    BY DEF IInv
<1> QED
    BY <1>1, Invariance, PTL

\* An open port is never between two settings.
THEOREM AlwaysUnmixed == Spec => []NeverMixed
<1>1. IInv => NeverMixed
    BY DEF IInv
<1> QED
    BY <1>1, Invariance, PTL

\* The line is in break as long as a call of serialSendBreak that nobody has
\* cut short, and no longer than the last, unless ClearCommBreak failed.
THEOREM BreakAlwaysSent == Spec => []BreakIsSent
<1>1. IInv => BreakIsSent
    BY DEF IInv
<1> QED
    BY <1>1, Invariance, PTL

=============================================================================
