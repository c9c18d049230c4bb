---------------------------- MODULE SettingsProofs ----------------------------
(***************************************************************************)
(* Proofs about MCSettings, for any rates, thresholds, sections, lists of  *)
(* preferences, packs and sizes of the flash, and any number of requests,  *)
(* uploads and failures.  Each component has its inductive invariant; that *)
(* of the group is their conjunction.                                      *)
(***************************************************************************)
EXTENDS MCSettings, Integers, SequenceTheorems, WellFoundedInduction, TLAPS

-----------------------------------------------------------------------------
(* Functions *)

LEMMA OneChanged ==
    ASSUME NEW S, NEW T, NEW f \in [S -> T], NEW x \in S, NEW v \in T
    PROVE  /\ [f EXCEPT ![x] = v] \in [S -> T]
           /\ [f EXCEPT ![x] = v][x] = v
           /\ \A y \in S : y # x => [f EXCEPT ![x] = v][y] = f[y]
OBVIOUS

-----------------------------------------------------------------------------
(* The thresholds *)

\* Only what the control unit set is its own.
SetByUser == \A t \in Threshold!Names : wanted[t] # Threshold!None => mode = "USER"

\* A copy under way that will write over a value of the control unit began before it.
CopiedOver ==
    \A t \in Threshold!Names :
        t \in Threshold!Pending /\ wanted[t] # Threshold!None => t \in thrRaced

ThresholdsInv == Threshold!TypeOK /\ SetByUser /\ CopiedOver /\ Threshold!UserValuesKept

LEMMA ThresholdSizes ==
    ASSUME Threshold!ThresholdsAssumption
    PROVE  /\ Threshold!Names = 1 .. ThrCount /\ ThrCount \in Nat \ {0}
           /\ 1 \in Threshold!Names /\ ThrCount \in Threshold!Names
           /\ ThrDefault \in ThrValues /\ Threshold!None \notin ThrValues
           /\ \A t \in Threshold!Names : t # ThrCount => t + 1 \in Threshold!Names
  BY DEF Threshold!ThresholdsAssumption, Threshold!Names

LEMMA ThresholdsInit ==
    ASSUME Threshold!ThresholdsAssumption
    PROVE  Threshold!Init => ThresholdsInv
  <1>1. SUFFICES ASSUME Threshold!Init PROVE ThresholdsInv
    OBVIOUS
  <1>2. /\ thr \in [Threshold!Names -> ThrValues]
        /\ wanted \in [Threshold!Names -> ThrValues \cup {Threshold!None}]
    BY <1>1, ThresholdSizes DEF Threshold!Init, Threshold!Nobody
  <1>3. \A t \in Threshold!Names : wanted[t] = Threshold!None
    BY <1>1 DEF Threshold!Init, Threshold!Nobody
  <1>4. Threshold!Pending = {} /\ 0 \in 0 .. MaxThresholds
    BY <1>1, Threshold!ThresholdsAssumption
      DEF Threshold!Init, Threshold!Pending, Threshold!ThresholdsAssumption
  <1>5. Threshold!TypeOK
    BY <1>1, <1>2, <1>4, ThresholdSizes, Zenon DEF Threshold!Init, Threshold!TypeOK
  <1> QED BY <1>3, <1>4, <1>5, Zenon DEF ThresholdsInv, SetByUser, CopiedOver, Threshold!UserValuesKept

\* Giving the thresholds back, or to the defaults, leaves nothing set by the control unit.
LEMMA NothingWanted ==
    ASSUME wanted' = Threshold!Nobody
    PROVE  SetByUser' /\ CopiedOver' /\ Threshold!UserValuesKept'
  <1>1. \A t \in Threshold!Names : wanted'[t] = Threshold!None
    BY DEF Threshold!Nobody
  <1> QED BY <1>1, Zenon DEF SetByUser, CopiedOver, Threshold!UserValuesKept

LEMMA SetThresholdStep ==
    ASSUME Threshold!ThresholdsAssumption, ThresholdsInv,
           NEW t \in Threshold!Names, NEW v \in ThrValues, Threshold!SetThreshold(t, v)
    PROVE  ThresholdsInv'
  <1> DEFINE N == Threshold!Names
             W == ThrValues \cup {Threshold!None}
  <1>1. /\ thr' = [thr EXCEPT ![t] = v] /\ wanted' = [wanted EXCEPT ![t] = v] /\ mode' = "USER"
        /\ thrRaced' = IF t \in Threshold!Pending THEN thrRaced \cup {t} ELSE thrRaced \ {t}
        /\ UNCHANGED <<module, absent, thrRestore, copying, thrNext>>
    BY DEF Threshold!SetThreshold
  <1>2. thr \in [N -> ThrValues] /\ wanted \in [N -> W] /\ v \in W /\ thrRaced \subseteq N
    BY DEF ThresholdsInv, Threshold!TypeOK
  <1>3. /\ thr' \in [N -> ThrValues] /\ thr'[t] = v
        /\ \A u \in N : u # t => thr'[u] = thr[u]
    BY <1>1, <1>2, OneChanged, Zenon
  <1>4. /\ wanted' \in [N -> W] /\ wanted'[t] = v
        /\ \A u \in N : u # t => wanted'[u] = wanted[u]
    BY <1>1, <1>2, OneChanged, Zenon
  <1>5. /\ \A u \in N : u # t => (u \in thrRaced' <=> u \in thrRaced)
        /\ t \in thrRaced' <=> t \in Threshold!Pending
        /\ thrRaced' \subseteq N
    BY <1>1, <1>2
  <1>6. thrRequests' \in 0 .. MaxThresholds
    BY Threshold!ThresholdsAssumption
       DEF Threshold!SetThreshold, Threshold!Request, ThresholdsInv, Threshold!TypeOK,
           Threshold!ThresholdsAssumption
  <1>7. Threshold!TypeOK'
    BY <1>1, <1>3, <1>4, <1>5, <1>6, Zenon DEF ThresholdsInv, Threshold!TypeOK
  <1>8. Threshold!Pending' = Threshold!Pending
    BY <1>1, Zenon DEF Threshold!Pending
  <1>9. SetByUser' /\ Threshold!UserValuesKept'
    BY <1>1, <1>3, <1>4, <1>5, Zenon DEF ThresholdsInv, SetByUser, Threshold!UserValuesKept
  <1>10. CopiedOver'
    <2>1. ASSUME NEW u \in N, u \in Threshold!Pending', wanted'[u] # Threshold!None
          PROVE  u \in thrRaced'
      <3>1. CASE u = t
        BY <3>1, <2>1, <1>5, <1>8, Zenon
      <3>2. CASE u # t
        BY <3>2, <2>1, <1>4, <1>5, <1>8, Zenon DEF ThresholdsInv, CopiedOver
      <3> QED BY <3>1, <3>2
    <2> QED BY <2>1, Zenon DEF CopiedOver
  <1> QED BY <1>7, <1>9, <1>10, Zenon DEF ThresholdsInv

\* The copy writes over a threshold of the control unit only if it began before it.
LEMMA CopyStep ==
    ASSUME Threshold!ThresholdsAssumption, ThresholdsInv, Threshold!Copy
    PROVE  ThresholdsInv'
  <1> DEFINE N == Threshold!Names
             v == IF copying = "module" THEN module[thrNext] ELSE ThrDefault
  <1>1. /\ thr' = [thr EXCEPT ![thrNext] = v]
        /\ thrNext' = Threshold!After(thrNext) /\ copying # Threshold!None
        /\ UNCHANGED <<mode, module, absent, wanted, thrRaced, thrRequests>>
        /\ IF thrNext = ThrCount
           THEN copying' = Threshold!None /\ thrRestore' = (thrRestore /\ copying # "default")
           ELSE UNCHANGED <<copying, thrRestore>>
    BY DEF Threshold!Copy, Threshold!history
  <1>2. /\ thr \in [N -> ThrValues] /\ module \in [N -> ThrValues] /\ thrNext \in N
        /\ thrRestore \in BOOLEAN /\ copying \in {Threshold!None, "module", "default", "pulled"}
    BY DEF ThresholdsInv, Threshold!TypeOK
  <1>3. v \in ThrValues
    BY <1>2, ThresholdSizes
  <1>4. /\ thr' \in [N -> ThrValues]
        /\ \A u \in N : u # thrNext => thr'[u] = thr[u]
    BY <1>1, <1>2, <1>3, OneChanged, Zenon
  <1>5. thrNext' \in N /\ (thrNext # ThrCount => thrNext' = thrNext + 1)
    BY <1>1, <1>2, ThresholdSizes, Zenon DEF Threshold!After
  <1>6. thrRestore' \in BOOLEAN /\ copying' \in {Threshold!None, "module", "default", "pulled"}
    BY <1>1, <1>2
  <1>7. Threshold!TypeOK'
    BY <1>1, <1>4, <1>5, <1>6, Zenon DEF ThresholdsInv, Threshold!TypeOK
  <1>8. SetByUser'
    BY <1>1, Zenon DEF ThresholdsInv, SetByUser
  <1>9. thrNext \in Threshold!Pending
    BY <1>1, <1>2, ThresholdSizes DEF Threshold!Pending
  <1>10. Threshold!Pending' \subseteq Threshold!Pending
    <2>1. CASE thrNext = ThrCount
      BY <2>1, <1>1 DEF Threshold!Pending
    <2>2. CASE thrNext # ThrCount
      BY <2>2, <1>1, <1>2, <1>5, ThresholdSizes DEF Threshold!Pending
    <2> QED BY <2>1, <2>2
  <1>11. CopiedOver'
    BY <1>1, <1>10, Zenon DEF ThresholdsInv, CopiedOver
  <1>12. Threshold!UserValuesKept'
    BY <1>1, <1>2, <1>4, <1>9, Zenon DEF ThresholdsInv, CopiedOver, Threshold!UserValuesKept
  <1> QED BY <1>7, <1>8, <1>11, <1>12, Zenon DEF ThresholdsInv

LEMMA ThresholdsNext ==
    ASSUME Threshold!ThresholdsAssumption, ThresholdsInv, Threshold!Next
    PROVE  ThresholdsInv'
  <1>1. CASE \E t \in Threshold!Names, v \in ThrValues : Threshold!SetThreshold(t, v)
    BY <1>1, SetThresholdStep, Zenon
  <1>2. CASE Threshold!Copy
    BY <1>2, CopyStep, Zenon
  <1>3. CASE Threshold!ResetThresholds \/ Threshold!set_default
    <2>1. /\ wanted' = Threshold!Nobody /\ thrRaced' = {} /\ mode' = "TRANSCEIVER"
          /\ copying' \in {copying, "default"}
          /\ UNCHANGED <<thr, module, absent, thrRestore, thrNext>>
      BY <1>3 DEF Threshold!ResetThresholds, Threshold!set_default
    <2>2. thrRequests' \in 0 .. MaxThresholds
      BY <1>3, Threshold!ThresholdsAssumption
         DEF Threshold!ResetThresholds, Threshold!set_default, Threshold!Request, ThresholdsInv,
             Threshold!TypeOK, Threshold!ThresholdsAssumption
    <2>3. wanted' \in [Threshold!Names -> ThrValues \cup {Threshold!None}]
      BY <2>1 DEF Threshold!Nobody
    <2>4. Threshold!TypeOK'
      BY <2>1, <2>2, <2>3 DEF ThresholdsInv, Threshold!TypeOK
    <2> QED BY <2>1, <2>4, NothingWanted, Zenon DEF ThresholdsInv
  <1>4. CASE Threshold!AskRestore \/ Threshold!Plug
    <2>1. /\ thrRestore' \in BOOLEAN /\ absent' \in BOOLEAN
          /\ module' \in [Threshold!Names -> ThrValues]
          /\ UNCHANGED <<mode, thr, copying, thrNext, wanted, thrRaced>>
      BY <1>4 DEF Threshold!AskRestore, Threshold!Plug, Threshold!history,
                  ThresholdsInv, Threshold!TypeOK
    <2>2. thrRequests' \in 0 .. MaxThresholds
      BY <1>4, Threshold!ThresholdsAssumption
         DEF Threshold!AskRestore, Threshold!Plug, Threshold!history,
             Threshold!Request, ThresholdsInv, Threshold!TypeOK, Threshold!ThresholdsAssumption
    <2>3. Threshold!TypeOK'
      BY <2>1, <2>2, Zenon DEF ThresholdsInv, Threshold!TypeOK
    <2> QED BY <2>1, <2>3, Zenon DEF ThresholdsInv, SetByUser, CopiedOver, Threshold!Pending,
               Threshold!UserValuesKept
  <1>5. CASE Threshold!update_if_kurs_power
    <2>1. /\ mode = "TRANSCEIVER" /\ copying' = "module"
          /\ UNCHANGED <<mode, thr, module, absent, thrRestore, thrNext, wanted, thrRaced, thrRequests>>
      BY <1>5 DEF Threshold!update_if_kurs_power, Threshold!FollowsModule, Threshold!history
    <2>2. \A t \in Threshold!Names : wanted[t] = Threshold!None
      BY <2>1 DEF ThresholdsInv, SetByUser
    <2>3. Threshold!TypeOK'
      BY <2>1 DEF ThresholdsInv, Threshold!TypeOK
    <2> QED BY <2>1, <2>2, <2>3, Zenon DEF ThresholdsInv, SetByUser, CopiedOver, Threshold!UserValuesKept
  <1>6. CASE Threshold!Pull
    <2>1. /\ thrRaced' = {t \in Threshold!Names : wanted[t] # Threshold!None}
          /\ absent' = TRUE /\ copying' = "pulled"
          /\ UNCHANGED <<mode, thr, module, thrRestore, thrNext, wanted, thrRequests>>
      BY <1>6, Zenon DEF Threshold!Pull
    <2>2. \A t \in Threshold!Names : wanted'[t] # Threshold!None <=> t \in thrRaced'
      BY <2>1
    <2>3. Threshold!TypeOK'
      BY <2>1 DEF ThresholdsInv, Threshold!TypeOK
    <2> QED BY <2>1, <2>2, <2>3, Zenon
            DEF ThresholdsInv, SetByUser, CopiedOver, Threshold!UserValuesKept
  <1> QED BY <1>1, <1>2, <1>3, <1>4, <1>5, <1>6, Zenon DEF Threshold!Next, Threshold!Main

LEMMA ThresholdsStay ==
    ASSUME ThresholdsInv, UNCHANGED thresholdsVars
    PROVE  ThresholdsInv'
  <1>1. /\ mode' = mode /\ thr' = thr /\ module' = module /\ absent' = absent
        /\ thrRestore' = thrRestore /\ copying' = copying /\ thrNext' = thrNext
        /\ wanted' = wanted /\ thrRaced' = thrRaced /\ thrRequests' = thrRequests
    BY Zenon DEF thresholdsVars
  <1> QED BY <1>1, Zenon DEF ThresholdsInv, Threshold!TypeOK, SetByUser, CopiedOver,
          Threshold!Pending, Threshold!UserValuesKept

-----------------------------------------------------------------------------
(* The laser shutdown *)

AlsInv == Shutdown!TypeOK /\ Shutdown!ControlInForce

LEMMA AlsTyped ==
    /\ Shutdown!TypeOK <=>
          /\ alsKind \in AlsKinds /\ alsEnabled \in BOOLEAN /\ hwMode \in 0 .. 2
          /\ control \in Shutdown!Modes /\ saved \in Shutdown!Modes
          /\ alsSave \in BOOLEAN /\ alsRestore \in BOOLEAN /\ booting \in BOOLEAN
          /\ failed \in BOOLEAN /\ alsRestored \in BOOLEAN
    /\ Shutdown!TypeOK' <=>
          /\ alsKind' \in AlsKinds /\ alsEnabled' \in BOOLEAN /\ hwMode' \in 0 .. 2
          /\ control' \in Shutdown!Modes /\ saved' \in Shutdown!Modes
          /\ alsSave' \in BOOLEAN /\ alsRestore' \in BOOLEAN /\ booting' \in BOOLEAN
          /\ failed' \in BOOLEAN /\ alsRestored' \in BOOLEAN
  <1>1. \A a, b, c, d, e : {a, b, c, d, e} \subseteq BOOLEAN
            <=> a \in BOOLEAN /\ b \in BOOLEAN /\ c \in BOOLEAN /\ d \in BOOLEAN /\ e \in BOOLEAN
    OBVIOUS
  <1> QED BY <1>1, Zenon DEF Shutdown!TypeOK

LEMMA AlsInit ==
    ASSUME Shutdown!AlsAssumption
    PROVE  Shutdown!Init => AlsInv
  <1>1. SUFFICES ASSUME Shutdown!Init PROVE AlsInv
    OBVIOUS
  <1>2. hwMode \in 0 .. 2 /\ control \in Shutdown!Modes
    BY <1>1 DEF Shutdown!Init, Shutdown!Modes, Shutdown!ALS_CONTROL_DISABLED
  <1>3. Shutdown!TypeOK
    BY <1>1, <1>2, AlsTyped, Zenon DEF Shutdown!Init
  <1> QED BY <1>1, <1>3, Zenon DEF Shutdown!Init, AlsInv, Shutdown!ControlInForce

\* The hardware after a mode was written: a write that was not taken leaves the bit
\* as it was, and then the mode of the register does not matter.
LEMMA ModeWritten ==
    ASSUME Shutdown!TypeOK, NEW m \in Shutdown!Modes, NEW taken \in BOOLEAN,
           Shutdown!set_port_als_mode(m, taken)
    PROVE  /\ alsEnabled' \in BOOLEAN /\ hwMode' \in 0 .. 2
           /\ alsKind = "client" /\ Shutdown!Succeeds(m, taken) => Shutdown!InForce(m)'
           /\ \A c \in Shutdown!Modes :
                 alsKind = "client" /\ ~Shutdown!Succeeds(m, taken) /\ Shutdown!InForce(c)
                     => Shutdown!InForce(c)'
           /\ Shutdown!Succeeds(m, taken) \in BOOLEAN
  <1>1. m \in {0, 1, 2, 3}
    BY DEF Shutdown!Modes
  <1>2. m # 0 => Shutdown!HardwareMode(m) \in 0 .. 2
    BY <1>1 DEF Shutdown!HardwareMode, Shutdown!ALS_CONTROL_LINE, Shutdown!ALS_CONTROL_CLIENT,
                Shutdown!ALS_CONTROL_REMOTE
  <1>3. alsEnabled \in BOOLEAN /\ hwMode \in 0 .. 2
    BY DEF Shutdown!TypeOK
  <1>4. CASE alsKind = "line"
    BY <1>3, <1>4 DEF Shutdown!set_port_als_mode, Shutdown!registers, Shutdown!Succeeds
  <1>5. CASE alsKind # "line"
    <2>1. /\ alsEnabled' = IF taken THEN m # 0 ELSE alsEnabled
          /\ hwMode' = IF m = 0 THEN hwMode ELSE Shutdown!HardwareMode(m)
          /\ Shutdown!Succeeds(m, taken) <=> (m # 0) = alsEnabled'
      BY <1>5, Zenon DEF Shutdown!set_port_als_mode, Shutdown!Succeeds, Shutdown!Verified,
          Shutdown!Written, Shutdown!ALS_CONTROL_DISABLED
    <2>2. Shutdown!Succeeds(m, taken) \in BOOLEAN
      BY <1>5, Zenon DEF Shutdown!Succeeds, Shutdown!Verified
    <2>3. \A c : /\ Shutdown!InForce(c) <=>
                       alsEnabled = (c # 0) /\ (alsEnabled => hwMode = Shutdown!HardwareMode(c))
                 /\ Shutdown!InForce(c)' <=>
                       alsEnabled' = (c # 0) /\ (alsEnabled' => hwMode' = Shutdown!HardwareMode(c))
      BY Zenon DEF Shutdown!InForce, Shutdown!HardwareMode, Shutdown!ALS_CONTROL_DISABLED
    <2> QED BY <1>2, <1>3, <2>1, <2>2, <2>3
  <1> QED BY <1>4, <1>5

LEMMA AlsNext ==
    ASSUME Shutdown!AlsAssumption, AlsInv, Shutdown!Next
    PROVE  AlsInv'
  <1>1. ASSUME NEW x \in Requested, NEW taken \in BOOLEAN, Shutdown!SetAlsMode(x, taken)
        PROVE  AlsInv'
    <2> DEFINE m == Shutdown!ModeOf(x)
    <2>1. m \in Shutdown!Modes
      BY DEF Shutdown!ModeOf, Shutdown!Modes, Shutdown!AlsAssumption
    <2>2. /\ Shutdown!set_port_als_mode(m, taken)
          /\ IF Shutdown!Succeeds(m, taken)
             THEN control' = m /\ alsSave' = TRUE /\ failed' = FALSE /\ alsRestored' = FALSE
             ELSE UNCHANGED <<control, alsSave, failed, alsRestored>>
          /\ UNCHANGED <<alsKind, saved, alsRestore, booting>>
      BY <1>1, Zenon DEF Shutdown!SetAlsMode
    <2> HIDE DEF m
    <2>3. /\ alsEnabled' \in BOOLEAN /\ hwMode' \in 0 .. 2
          /\ alsKind = "client" /\ Shutdown!Succeeds(m, taken) => Shutdown!InForce(m)'
          /\ \A c \in Shutdown!Modes :
                alsKind = "client" /\ ~Shutdown!Succeeds(m, taken) /\ Shutdown!InForce(c)
                    => Shutdown!InForce(c)'
      BY <2>1, <2>2, ModeWritten, Zenon DEF AlsInv
    <2>4. Shutdown!TypeOK'
      BY <2>1, <2>2, <2>3, AlsTyped, Zenon DEF AlsInv
    <2>5. Shutdown!ControlInForce'
      <3>1. CASE Shutdown!Succeeds(m, taken)
        <4>1. Shutdown!InForce(m)' = Shutdown!InForce(control)'
          BY <3>1, <2>2, Zenon DEF Shutdown!InForce, Shutdown!HardwareMode
        <4> QED BY <3>1, <4>1, <2>2, <2>3, Zenon DEF Shutdown!ControlInForce
      <3>2. CASE ~Shutdown!Succeeds(m, taken)
        <4>1. control \in Shutdown!Modes
          BY DEF AlsInv, Shutdown!TypeOK
        <4>2. alsKind = "client" /\ Shutdown!InForce(control) => Shutdown!InForce(control)'
          <5>1. control' = control
            BY <3>2, <2>2
          <5>2. PICK c \in Shutdown!Modes : c = control
            BY <4>1
          <5>3. Shutdown!InForce(c)' = Shutdown!InForce(control)' /\ Shutdown!InForce(c) = Shutdown!InForce(control)
            BY <5>1, <5>2, Zenon DEF Shutdown!InForce, Shutdown!HardwareMode
          <5> QED BY <3>2, <2>3, <5>2, <5>3, Zenon
        <4> QED BY <3>2, <4>2, <2>2, Zenon DEF AlsInv, Shutdown!ControlInForce
      <3> QED BY <3>1, <3>2
    <2> QED BY <2>4, <2>5 DEF AlsInv
  <1>2. ASSUME NEW taken \in BOOLEAN, Shutdown!Boot(taken)
        PROVE  AlsInv'
    <2>1. /\ booting' = FALSE /\ control' = saved /\ Shutdown!set_port_als_mode(saved, taken)
          /\ failed' = ~Shutdown!Succeeds(saved, taken)
          /\ UNCHANGED <<alsKind, saved, alsSave, alsRestore, alsRestored>>
      BY <1>2, Zenon DEF Shutdown!Boot
    <2>2. PICK m \in Shutdown!Modes : m = saved
      BY DEF AlsInv, Shutdown!TypeOK
    <2>3. Shutdown!set_port_als_mode(m, taken) /\ failed' = ~Shutdown!Succeeds(m, taken)
      BY <2>1, <2>2, Zenon
    <2>4. /\ alsEnabled' \in BOOLEAN /\ hwMode' \in 0 .. 2
          /\ Shutdown!Succeeds(m, taken) \in BOOLEAN
          /\ alsKind = "client" /\ Shutdown!Succeeds(m, taken) => Shutdown!InForce(m)'
      BY <2>3, ModeWritten, Zenon DEF AlsInv
    <2>5. Shutdown!TypeOK'
      BY <2>1, <2>2, <2>3, <2>4, AlsTyped, Zenon DEF AlsInv
    <2>6. Shutdown!InForce(m)' = Shutdown!InForce(control)'
      BY <2>1, <2>2, Zenon DEF Shutdown!InForce, Shutdown!HardwareMode
    <2> QED BY <2>1, <2>3, <2>4, <2>5, <2>6, Zenon DEF AlsInv, Shutdown!ControlInForce
  <1>3. CASE Shutdown!AskRestore \/ Shutdown!SetDefault \/ Shutdown!Save
             \/ Shutdown!Restart \/ Shutdown!PowerFailure
    <2>1. Shutdown!TypeOK'
      <3>1. 0 \in 0 .. 2 /\ 0 \in Shutdown!Modes
        BY DEF Shutdown!Modes
      <3> QED BY <1>3, <3>1, AlsTyped, Zenon DEF AlsInv, Shutdown!AskRestore, Shutdown!SetDefault,
          Shutdown!Save, Shutdown!Restart, Shutdown!PowerFailure, Shutdown!registers,
          Shutdown!ALS_CONTROL_DISABLED
    <2>2. \/ booting' = TRUE \/ alsRestored' = TRUE
          \/ UNCHANGED <<alsKind, alsEnabled, hwMode, control, booting, failed, alsRestored>>
      BY <1>3, Zenon DEF Shutdown!AskRestore, Shutdown!SetDefault, Shutdown!Save,
          Shutdown!Restart, Shutdown!PowerFailure, Shutdown!registers
    <2>3. Shutdown!ControlInForce'
      BY <2>2, Zenon DEF AlsInv, Shutdown!ControlInForce, Shutdown!InForce, Shutdown!HardwareMode
    <2> QED BY <2>1, <2>3 DEF AlsInv
  <1> QED BY <1>1, <1>2, <1>3, Zenon DEF Shutdown!Next

LEMMA AlsStays ==
    ASSUME AlsInv, UNCHANGED alsVars
    PROVE  AlsInv'
  <1>1. /\ alsKind' = alsKind /\ alsEnabled' = alsEnabled /\ hwMode' = hwMode /\ control' = control
        /\ saved' = saved /\ alsSave' = alsSave /\ alsRestore' = alsRestore /\ booting' = booting
        /\ failed' = failed /\ alsRestored' = alsRestored
    BY Zenon DEF alsVars
  <1> QED BY <1>1, Zenon DEF AlsInv, Shutdown!TypeOK, Shutdown!ControlInForce, Shutdown!InForce,
          Shutdown!HardwareMode

-----------------------------------------------------------------------------
(* The profile *)

\* The power has a colour for each severity.
PowerColoured ==
    degrade["power"] # Profile!COLOR_NA /\ failure["power"] # Profile!COLOR_NA

ProfileInv == Profile!TypeOK /\ Profile!OneSeverity /\ PowerColoured

LEMMA ProfileTyped ==
    /\ Profile!TypeOK <=>
          /\ profEnabled \in BOOLEAN /\ value \in [Profile!Writable -> Profile!Values]
          /\ monitored \in BOOLEAN
          /\ level \in [Profile!Coloured -> 0 .. 2] /\ level["alarm"] < 2
          /\ degrade \in [Profile!Coloured -> 0 .. 7] /\ failure \in [Profile!Coloured -> 0 .. 7]
          /\ colour \in [Profile!Coloured -> 1 .. 7] /\ profBlock \in {0} \cup (3 .. 7)
          /\ profSave \in BOOLEAN /\ unsaved \in BOOLEAN
          /\ reply.verdict \in {"OK", "NA"} /\ profRequests \in 0 .. MaxWrites
    /\ Profile!TypeOK' <=>
          /\ profEnabled' \in BOOLEAN /\ value' \in [Profile!Writable -> Profile!Values]
          /\ monitored' \in BOOLEAN
          /\ level' \in [Profile!Coloured -> 0 .. 2] /\ level'["alarm"] < 2
          /\ degrade' \in [Profile!Coloured -> 0 .. 7] /\ failure' \in [Profile!Coloured -> 0 .. 7]
          /\ colour' \in [Profile!Coloured -> 1 .. 7] /\ profBlock' \in {0} \cup (3 .. 7)
          /\ profSave' \in BOOLEAN /\ unsaved' \in BOOLEAN
          /\ reply'.verdict \in {"OK", "NA"} /\ profRequests' \in 0 .. MaxWrites
  <1>1. \A a, b : {a, b} \subseteq BOOLEAN <=> a \in BOOLEAN /\ b \in BOOLEAN
    BY Zenon
  <1> QED BY <1>1, Zenon DEF Profile!TypeOK, Profile!COLOR_NO, Profile!COLOR_Normal,
          Profile!COLOR_Critical

LEMMA ProfileInit ==
    ASSUME Profile!KursProfileAssumption
    PROVE  Profile!Init => ProfileInv
  <1>1. SUFFICES ASSUME Profile!Init PROVE ProfileInv
    OBVIOUS
  <1>2. /\ value \in [Profile!Writable -> Profile!Values]
        /\ level \in [Profile!Coloured -> 0 .. 2] /\ level["alarm"] < 2
        /\ degrade \in [Profile!Coloured -> 0 .. 7] /\ failure \in [Profile!Coloured -> 0 .. 7]
        /\ colour \in [Profile!Coloured -> 1 .. 7]
    BY <1>1 DEF Profile!Init, Profile!Values, Profile!Coloured, Profile!COLOR_Minor,
                Profile!COLOR_NA, Profile!COLOR_Critical, Profile!COLOR_Normal
  <1>3. 0 \in 0 .. MaxWrites
    BY DEF Profile!KursProfileAssumption
  <1>4. reply.verdict = "OK"
    BY <1>1 DEF Profile!Init, Profile!Reply
  <1>5. Profile!TypeOK
    BY <1>1, <1>2, <1>3, <1>4, ProfileTyped, Zenon DEF Profile!Init
  <1>6. Profile!OneSeverity /\ PowerColoured
    BY <1>1 DEF Profile!Init, Profile!OneSeverity, PowerColoured, Profile!Coloured,
                Profile!COLOR_Minor, Profile!COLOR_NA, Profile!COLOR_Critical
  <1> QED BY <1>5, <1>6 DEF ProfileInv

\* What a colour becomes keeps its range, and NA where it was NA.
LEMMA Recolours ==
    ASSUME NEW old \in 0 .. 7, NEW new \in 0 .. 9
    PROVE  /\ Profile!Recoloured(old, new) \in 0 .. 7
           /\ Profile!Recoloured(old, new) = Profile!COLOR_NA <=> old = Profile!COLOR_NA
  BY DEF Profile!Recoloured, Profile!COLOR_NA, Profile!COLOR_Critical

\* The values have a colour.
LEMMA DeservedColours ==
    ASSUME ProfileInv
    PROVE  Profile!Deserved \in [Profile!Coloured -> 1 .. 7]
  <1>1. /\ level["alarm"] \in 0 .. 2 /\ level["power"] \in {0, 1, 2}
        /\ degrade["alarm"] \in 0 .. 7 /\ degrade["power"] \in 0 .. 7
        /\ failure["alarm"] \in 0 .. 7 /\ failure["power"] \in 0 .. 7
    BY ProfileTyped DEF ProfileInv, Profile!Coloured
  <1>2. Profile!AlarmColour \in 1 .. 7
    BY <1>1 DEF Profile!AlarmColour, Profile!COLOR_Normal, Profile!COLOR_NA
  <1>3. Profile!PowerColour \in 1 .. 7
    BY <1>1 DEF ProfileInv, PowerColoured, Profile!PowerColour, Profile!COLOR_Normal,
                Profile!COLOR_NO, Profile!COLOR_NA
  <1> QED BY <1>2, <1>3 DEF Profile!Deserved

\* Of three numbers one is the greatest.
LEMMA GreatestOfThree ==
    ASSUME NEW a \in Nat, NEW b \in Nat, NEW c \in Nat
    PROVE  /\ Profile!Max({a} \cup {b, c}) \in {a, b, c}
           /\ Profile!Max({a} \cup {b, c}) >= a
  <1> DEFINE S == {a} \cup {b, c}
  <1>1. \E x \in S : \A y \in S : x >= y
    <2>1. CASE a >= b /\ a >= c
      BY <2>1
    <2>2. CASE b >= a /\ b >= c
      BY <2>2
    <2>3. CASE c >= a /\ c >= b
      BY <2>3
    <2> QED BY <2>1, <2>2, <2>3
  <1>2. Profile!Max(S) \in S /\ \A y \in S : Profile!Max(S) >= y
    BY <1>1, Zenon DEF Profile!Max
  <1> QED BY <1>2

LEMMA WriteStep ==
    ASSUME Profile!KursProfileAssumption, ProfileInv, Profile!HandleKursSetParamValue
    PROVE  ProfileInv' /\ Profile!RefusedKeepsAll
  <1>1. CASE Profile!Refuse
    <2>1. /\ reply'.verdict = "NA"
          /\ UNCHANGED <<profEnabled, value, degrade, failure, level, monitored, colour, profBlock,
                         profSave, unsaved, profRequests>>
      BY <1>1 DEF Profile!Refuse, Profile!Reply, Profile!settings, Profile!plant, Profile!history
    <2>2. Profile!TypeOK'
      BY <2>1, ProfileTyped, SMT DEF ProfileInv
    <2> QED BY <2>1, <2>2, Zenon DEF ProfileInv, Profile!OneSeverity, PowerColoured,
               Profile!RefusedKeepsAll, Profile!settings
  <1>2. CASE ~Profile!Refuse
    <2>1. PICK s \in SectionsAsked \cap Profile!Writable, v \in Profile!Values, ready \in BOOLEAN :
             /\ value' = Profile!SetStrValueItem(s, v, ready)
             /\ IF Profile!Accepted(s, v, ready)
                THEN /\ Profile!Change(value[s] # v)
                     /\ reply' = [Profile!Reply("set", "OK") EXCEPT !.section = s]
                ELSE /\ reply' = Profile!Reply("set", "NA")
                     /\ UNCHANGED <<profSave, Profile!history>>
             /\ UNCHANGED <<profEnabled, degrade, failure, Profile!plant, colour, profBlock>>
      BY <1>2, Zenon DEF Profile!HandleKursSetParamValue
    <2>2. value \in [Profile!Writable -> Profile!Values]
      BY ProfileTyped, Zenon DEF ProfileInv
    <2>3. value' \in [Profile!Writable -> Profile!Values]
      BY <2>1, <2>2, OneChanged, Zenon DEF Profile!SetStrValueItem
    <2>4. /\ UNCHANGED <<profEnabled, degrade, failure, level, monitored, colour, profBlock>>
          /\ profSave' \in BOOLEAN /\ unsaved' \in BOOLEAN /\ profRequests' \in 0 .. MaxWrites
          /\ reply'.verdict \in {"OK", "NA"}
          /\ reply'.verdict = "NA" => ~Profile!Accepted(s, v, ready)
      <3>1. profSave \in BOOLEAN /\ unsaved \in BOOLEAN /\ profRequests \in 0 .. MaxWrites
        BY ProfileTyped, Zenon DEF ProfileInv
      <3>2. UNCHANGED <<profEnabled, degrade, failure, level, monitored, colour, profBlock>>
        BY <2>1, Zenon DEF Profile!plant
      <3>3. CASE Profile!Accepted(s, v, ready)
        <4>1. Profile!Change(value[s] # v) /\ reply' = [Profile!Reply("set", "OK") EXCEPT !.section = s]
          BY <3>3, <2>1
        <4>2. reply'.verdict = "OK"
          BY <4>1 DEF Profile!Reply
        <4> QED BY <3>1, <3>2, <4>1, <4>2 DEF Profile!Change, Profile!KursProfileAssumption
      <3>4. CASE ~Profile!Accepted(s, v, ready)
        <4>1. reply' = Profile!Reply("set", "NA") /\ UNCHANGED <<profSave, unsaved, profRequests>>
          BY <3>4, <2>1 DEF Profile!history
        <4>2. reply'.verdict = "NA"
          BY <4>1 DEF Profile!Reply
        <4> QED BY <3>1, <3>2, <3>4, <4>1, <4>2
      <3> QED BY <3>3, <3>4
    <2>5. Profile!TypeOK'
      BY <2>3, <2>4, ProfileTyped, SMT DEF ProfileInv
    <2>6. Profile!RefusedKeepsAll
      BY <2>1, <2>4, Zenon DEF Profile!RefusedKeepsAll, Profile!settings, Profile!SetStrValueItem
    <2> QED BY <2>4, <2>5, <2>6, Zenon DEF ProfileInv, Profile!OneSeverity, PowerColoured
  <1> QED BY <1>1, <1>2

LEMMA RecolourStep ==
    ASSUME Profile!KursProfileAssumption, ProfileInv, Profile!HandleKursSetColorDegradeAndFailure
    PROVE  ProfileInv' /\ Profile!RefusedKeepsAll
  <1>1. CASE Profile!Refuse
    BY <1>1, WriteStep, Zenon DEF Profile!HandleKursSetParamValue
  <1>2. CASE ~Profile!Refuse
    <2>1. PICK item \in Profile!Coloured, c1 \in Colours, c2 \in Colours :
             /\ Profile!Change(Profile!Recoloured(degrade[item], c1) # degrade[item]
                               \/ Profile!Recoloured(failure[item], c2) # failure[item])
             /\ degrade' = [degrade EXCEPT ![item] = Profile!Recoloured(@, c1)]
             /\ failure' = [failure EXCEPT ![item] = Profile!Recoloured(@, c2)]
             /\ reply' = [Profile!Reply("set", "OK") EXCEPT !.section = 2]
             /\ UNCHANGED <<profEnabled, value, Profile!plant, colour, profBlock>>
      BY <1>2, Zenon DEF Profile!HandleKursSetColorDegradeAndFailure
    <2> DEFINE d == Profile!Recoloured(degrade[item], c1)
               f == Profile!Recoloured(failure[item], c2)
    <2>2. /\ degrade \in [Profile!Coloured -> 0 .. 7] /\ failure \in [Profile!Coloured -> 0 .. 7]
          /\ profSave \in BOOLEAN /\ unsaved \in BOOLEAN /\ profRequests \in 0 .. MaxWrites
      BY ProfileTyped, Zenon DEF ProfileInv
    <2>3. /\ c1 \in 0 .. 9 /\ c2 \in 0 .. 9
          /\ degrade[item] \in 0 .. 7 /\ failure[item] \in 0 .. 7
      BY <2>2 DEF Profile!KursProfileAssumption
    <2>4. /\ d \in 0 .. 7 /\ (d = Profile!COLOR_NA <=> degrade[item] = Profile!COLOR_NA)
          /\ f \in 0 .. 7 /\ (f = Profile!COLOR_NA <=> failure[item] = Profile!COLOR_NA)
      BY <2>3, Recolours, Zenon
    <2>5. degrade' = [degrade EXCEPT ![item] = d] /\ failure' = [failure EXCEPT ![item] = f]
      BY <2>1
    <2> HIDE DEF d, f
    <2>6. /\ degrade' \in [Profile!Coloured -> 0 .. 7] /\ failure' \in [Profile!Coloured -> 0 .. 7]
          /\ degrade'[item] = d /\ failure'[item] = f
          /\ \A j \in Profile!Coloured : j # item => degrade'[j] = degrade[j] /\ failure'[j] = failure[j]
      BY <2>2, <2>4, <2>5, OneChanged, Zenon
    <2>7. \A j \in Profile!Coloured :
             /\ degrade'[j] = Profile!COLOR_NA <=> degrade[j] = Profile!COLOR_NA
             /\ failure'[j] = Profile!COLOR_NA <=> failure[j] = Profile!COLOR_NA
      BY <2>4, <2>6, Zenon
    <2>8. "alarm" \in Profile!Coloured /\ "power" \in Profile!Coloured
      BY DEF Profile!Coloured
    <2>9. Profile!OneSeverity' /\ PowerColoured'
      <3>1. PowerColoured'
        BY <2>7, <2>8, Zenon DEF ProfileInv, PowerColoured, Profile!COLOR_NA
      <3>2. Profile!OneSeverity'
        BY <2>7, <2>8, SMT DEF ProfileInv, Profile!OneSeverity, Profile!COLOR_NA
      <3> QED BY <3>1, <3>2
    <2>10. profSave' \in BOOLEAN /\ unsaved' \in BOOLEAN /\ profRequests' \in 0 .. MaxWrites
      BY <2>1, <2>2 DEF Profile!Change, Profile!KursProfileAssumption
    <2>11. reply'.verdict = "OK"
      BY <2>1 DEF Profile!Reply
    <2>12. UNCHANGED <<profEnabled, value, level, monitored, colour, profBlock>>
      BY <2>1, Zenon DEF Profile!plant
    <2>13. Profile!TypeOK'
      BY <2>6, <2>10, <2>11, <2>12, ProfileTyped, SMT DEF ProfileInv
    <2> QED BY <2>9, <2>11, <2>13, SMT DEF ProfileInv, Profile!RefusedKeepsAll
  <1> QED BY <1>1, <1>2

LEMMA ProfileNext ==
    ASSUME Profile!KursProfileAssumption, ProfileInv, Profile!Next
    PROVE  ProfileInv' /\ Profile!RefusedKeepsAll
  <1>1. CASE Profile!HandleKursSetParamValue
    BY <1>1, WriteStep, Zenon
  <1>2. CASE Profile!HandleKursSetColorDegradeAndFailure
    BY <1>2, RecolourStep, Zenon
  <1>3. CASE Profile!Inform \/ Profile!HandleKursUnknownCommand \/ Profile!HandleKursEnableSetParams
             \/ Profile!HandleKursRdStrValueAndColor
    <2>1. /\ reply'.verdict \in {"OK", "NA"} /\ profEnabled' \in BOOLEAN
          /\ colour' \in {colour, Profile!Deserved}
          /\ UNCHANGED <<value, degrade, failure, level, monitored, profBlock, profSave, unsaved,
                         profRequests>>
      <3> profEnabled \in BOOLEAN
        BY ProfileTyped, Zenon DEF ProfileInv
      <3>1. CASE Profile!Inform \/ Profile!HandleKursUnknownCommand \/ Profile!HandleKursEnableSetParams
        <4>1. reply' = Profile!Reply("inform", "OK") \/ reply' = Profile!Reply("inform", "NA")
          BY <3>1, Zenon DEF Profile!Inform, Profile!HandleKursUnknownCommand,
             Profile!HandleKursEnableSetParams
        <4>2. reply'.verdict \in {"OK", "NA"}
          BY <4>1 DEF Profile!Reply
        <4> QED BY <3>1, <4>2, Zenon DEF Profile!Inform, Profile!HandleKursUnknownCommand,
               Profile!HandleKursEnableSetParams, Profile!settings, Profile!plant, Profile!history
      <3>2. CASE Profile!HandleKursRdStrValueAndColor
        <4>1. PICK n \in SectionsAsked : reply' = [Profile!Reply("read", "OK") EXCEPT !.section = n]
          BY <3>2, Zenon DEF Profile!HandleKursRdStrValueAndColor
        <4>2. reply'.verdict = "OK"
          BY <4>1 DEF Profile!Reply
        <4> QED BY <3>2, <4>2, Zenon DEF Profile!HandleKursRdStrValueAndColor, Profile!settings,
               Profile!plant, Profile!history
      <3> QED BY <1>3, <3>1, <3>2
    <2>2. colour' \in [Profile!Coloured -> 1 .. 7]
      BY <2>1, DeservedColours, ProfileTyped, Zenon DEF ProfileInv
    <2>3. Profile!TypeOK'
      BY <2>1, <2>2, ProfileTyped, Zenon DEF ProfileInv
    <2> QED BY <2>1, <2>3, Zenon DEF ProfileInv, Profile!OneSeverity, PowerColoured,
               Profile!RefusedKeepsAll, Profile!settings
  <1>4. CASE Profile!Measure
    <2>1. UNCHANGED <<profEnabled, value, degrade, failure, colour, profBlock, profSave, reply,
                      unsaved, profRequests>>
      BY <1>4, Zenon DEF Profile!Measure, Profile!settings, Profile!history
    <2>2. /\ level \in [Profile!Coloured -> 0 .. 2] /\ level["alarm"] < 2 /\ monitored \in BOOLEAN
          /\ "alarm" \in Profile!Coloured /\ "power" \in Profile!Coloured
      BY ProfileTyped DEF ProfileInv, Profile!Coloured
    <2>3. monitored' \in BOOLEAN
      BY <1>4, <2>2 DEF Profile!Measure
    <2>4. level' \in [Profile!Coloured -> 0 .. 2] /\ level'["alarm"] < 2
      <3>1. CASE UNCHANGED level
        BY <3>1, <2>2
      <3>2. CASE level' = [level EXCEPT !["alarm"] = 1 - @]
        <4>1. 1 - level["alarm"] \in 0 .. 1
          BY <2>2
        <4> QED BY <2>2, <3>2, <4>1
      <3>3. ASSUME NEW l \in 0 .. 2, level' = [level EXCEPT !["power"] = l]
            PROVE  level' \in [Profile!Coloured -> 0 .. 2] /\ level'["alarm"] < 2
        BY <2>2, <3>3
      <3> QED BY <1>4, <3>1, <3>2, <3>3, Zenon DEF Profile!Measure
    <2>5. Profile!TypeOK'
      BY <2>1, <2>3, <2>4, ProfileTyped, SMT DEF ProfileInv
    <2> QED BY <2>1, <2>5, Zenon DEF ProfileInv, Profile!OneSeverity, PowerColoured,
               Profile!RefusedKeepsAll, Profile!settings
  <1>5. CASE Profile!ColorDynamicParameters
    <2>1. /\ profBlock' = Profile!Max({Profile!COLOR_Normal} \cup {colour[i] : i \in Profile!Coloured})
          /\ UNCHANGED <<profEnabled, value, degrade, failure, level, monitored, colour, profSave,
                         reply, unsaved, profRequests>>
      BY <1>5, Zenon DEF Profile!ColorDynamicParameters, Profile!settings, Profile!plant,
         Profile!history
    <2>2. colour["alarm"] \in 1 .. 7 /\ colour["power"] \in 1 .. 7
      BY ProfileTyped DEF ProfileInv, Profile!Coloured
    <2>3. {colour[i] : i \in Profile!Coloured} = {colour["alarm"], colour["power"]}
      BY DEF Profile!Coloured
    <2>4. profBlock' \in {3, colour["alarm"], colour["power"]} /\ profBlock' >= 3
      <3>1. 3 \in Nat /\ colour["alarm"] \in Nat /\ colour["power"] \in Nat
        BY <2>2
      <3>2. profBlock' = Profile!Max({3} \cup {colour["alarm"], colour["power"]})
        BY <2>1, <2>3, Zenon DEF Profile!COLOR_Normal
      <3> QED BY <3>1, <3>2, GreatestOfThree, Zenon
    <2>5. profBlock' \in 3 .. 7
      BY <2>2, <2>4
    <2>6. Profile!TypeOK'
      BY <2>1, <2>5, ProfileTyped, SMT DEF ProfileInv
    <2> QED BY <2>1, <2>6, Zenon DEF ProfileInv, Profile!OneSeverity, PowerColoured,
               Profile!RefusedKeepsAll, Profile!settings
  <1>6. CASE Profile!Save
    <2>1. /\ profSave' = FALSE /\ unsaved' = FALSE /\ profRequests' = 0
          /\ UNCHANGED <<profEnabled, value, degrade, failure, level, monitored, colour, profBlock,
                         reply>>
      BY <1>6, Zenon DEF Profile!Save, Profile!settings, Profile!plant
    <2>2. 0 \in 0 .. MaxWrites
      BY DEF Profile!KursProfileAssumption
    <2>3. Profile!TypeOK'
      BY <2>1, <2>2, ProfileTyped, Zenon DEF ProfileInv
    <2> QED BY <2>1, <2>3, Zenon DEF ProfileInv, Profile!OneSeverity, PowerColoured,
               Profile!RefusedKeepsAll, Profile!settings
  <1> QED BY <1>1, <1>2, <1>3, <1>4, <1>5, <1>6, Zenon DEF Profile!Next

LEMMA ProfileStays ==
    ASSUME ProfileInv, UNCHANGED profileVars
    PROVE  ProfileInv' /\ UNCHANGED Profile!vars
  <1>1. /\ profEnabled' = profEnabled /\ value' = value /\ level' = level /\ monitored' = monitored
        /\ degrade' = degrade /\ failure' = failure /\ colour' = colour /\ profBlock' = profBlock
        /\ profSave' = profSave /\ reply' = reply /\ unsaved' = unsaved
        /\ profRequests' = profRequests
    BY Zenon DEF profileVars
  <1>2. ProfileInv'
    BY <1>1, ProfileTyped, Zenon DEF ProfileInv, Profile!OneSeverity, PowerColoured
  <1> QED BY <1>1, <1>2, Zenon DEF Profile!vars, Profile!settings, Profile!plant, Profile!history

-----------------------------------------------------------------------------
(* The performance counters *)

PortRate == PortRates \cup {"OTU2"}
Errors == SUBSET Counter!Error
DataOf(C) ==
    [alloc : BOOLEAN, base : {"own", "stray"}, running : BOOLEAN, elapsed : 0 .. Period - 1, copy : C]
CounterSteps ==
    {"idle", "zero", "eop", "again", "lower", "read", "prot", "check", "free", "null", "done"}

\* The structure is there for as long as the rate is capable, and freed only while it
\* is being destroyed; the rate and the protocol that led there show nothing of it.
StructureInv ==
    /\ pfcPc = "check" => prot = Counter!Protocol(pfcRate)
    /\ pfcPc \notin {"free", "null"} => (capable <=> pfc = "set")
    /\ pfcPc \in {"free", "null"} => ~capable /\ pfc = "set" /\ \A g \in Counter!Groups : ~Counter!Shows(g)
    /\ pfc = "set" /\ pfcPc # "null" => data.alloc

CountersInv == Counter!TypeOK /\ StructureInv

LEMMA CounterTyped ==
    /\ Counter!TypeOK <=>
          /\ pfcKind \in PortKinds /\ pfcBlock \in Errors
          /\ select \in PortRate /\ pfcNext \in PortRate /\ pfcRate \in PortRate
          /\ change \in BOOLEAN /\ resets \in BOOLEAN /\ capable \in BOOLEAN
          /\ prot \in {"SDH", "OTU", "ETHERNET", "FIBER_CHANNEL"}
          /\ pfc \in {"null", "set"} /\ data \in DataOf(Errors) /\ pfcPc \in CounterSteps
          /\ pulled \in BOOLEAN /\ pfcRaced \subseteq {"reset", "rate"}
          /\ pfcRequests \in 0 .. MaxResets
    /\ Counter!TypeOK' <=>
          /\ pfcKind' \in PortKinds /\ pfcBlock' \in Errors
          /\ select' \in PortRate /\ pfcNext' \in PortRate /\ pfcRate' \in PortRate
          /\ change' \in BOOLEAN /\ resets' \in BOOLEAN /\ capable' \in BOOLEAN
          /\ prot' \in {"SDH", "OTU", "ETHERNET", "FIBER_CHANNEL"}
          /\ pfc' \in {"null", "set"} /\ data' \in DataOf(Errors) /\ pfcPc' \in CounterSteps
          /\ pulled' \in BOOLEAN /\ pfcRaced' \subseteq {"reset", "rate"}
          /\ pfcRequests' \in 0 .. MaxResets
  <1>1. \A a, b, c, S : {a, b, c} \subseteq S <=> a \in S /\ b \in S /\ c \in S
    BY Zenon
  <1>2. \A b : b \in Errors <=> b \subseteq Counter!Error
    BY Zenon DEF Errors
  <1>3. /\ {select, pfcNext, pfcRate} \subseteq PortRate
              <=> select \in PortRate /\ pfcNext \in PortRate /\ pfcRate \in PortRate
        /\ {select', pfcNext', pfcRate'} \subseteq PortRate
              <=> select' \in PortRate /\ pfcNext' \in PortRate /\ pfcRate' \in PortRate
    BY <1>1, Zenon
  <1>4. /\ pfcBlock \in Errors <=> pfcBlock \subseteq Counter!Error
        /\ pfcBlock' \in Errors <=> pfcBlock' \subseteq Counter!Error
    BY <1>2, Zenon
  <1> QED BY <1>3, <1>4, Zenon DEF Counter!TypeOK, PortRate, DataOf, Errors, CounterSteps

LEMMA CounterSizes ==
    ASSUME Counter!PfcCountsAssumption
    PROVE  /\ Period \in Nat /\ Period > 1 /\ 0 \in 0 .. Period - 1
           /\ MaxResets \in Nat /\ 0 \in 0 .. MaxResets
           /\ PortRate \subseteq {"STM1", "OTU1", "GE", "FC1", "OTU2"}
           /\ "STM1" \in PortRate /\ "OTU2" \in PortRate /\ {} \in Errors
  BY DEF Counter!PfcCountsAssumption, PortRate, Errors

LEMMA DataParts ==
    ASSUME NEW C, NEW d \in DataOf(C)
    PROVE  d.elapsed \in 0 .. Period - 1 /\ d.copy \in C /\ d.alloc \in BOOLEAN
  BY Zenon DEF DataOf

LEMMA AllocSet ==
    ASSUME NEW C, NEW d \in DataOf(C), NEW x \in BOOLEAN
    PROVE  [d EXCEPT !.alloc = x] \in DataOf(C) /\ [d EXCEPT !.alloc = x].alloc = x
  BY Zenon DEF DataOf

LEMMA RunningSet ==
    ASSUME NEW C, NEW d \in DataOf(C), NEW x \in BOOLEAN
    PROVE  [d EXCEPT !.running = x] \in DataOf(C) /\ [d EXCEPT !.running = x].alloc = d.alloc
  BY Zenon DEF DataOf

LEMMA StartedAnew ==
    ASSUME NEW C, NEW d \in DataOf(C), NEW x \in BOOLEAN, NEW e \in 0 .. Period - 1
    PROVE  [d EXCEPT !.running = x, !.elapsed = e] \in DataOf(C) /\ [d EXCEPT !.running = x, !.elapsed = e].alloc = d.alloc
  BY Zenon DEF DataOf

LEMMA ElapsedSet ==
    ASSUME NEW C, NEW d \in DataOf(C), NEW e \in 0 .. Period - 1
    PROVE  [d EXCEPT !.elapsed = e] \in DataOf(C) /\ [d EXCEPT !.elapsed = e].alloc = d.alloc
  BY Zenon DEF DataOf

LEMMA CopySet ==
    ASSUME NEW C, NEW d \in DataOf(C), NEW c \in C
    PROVE  [d EXCEPT !.copy = c] \in DataOf(C) /\ [d EXCEPT !.copy = c].alloc = d.alloc
  BY Zenon DEF DataOf

LEMMA NewData ==
    ASSUME Counter!PfcCountsAssumption, NEW b \in {"own", "stray"}
    PROVE  LET d == [alloc |-> TRUE, base |-> b, running |-> TRUE, elapsed |-> 0, copy |-> {}]
           IN  d \in DataOf(Errors) /\ d.alloc
  BY CounterSizes, Zenon DEF DataOf

LEMMA AgedErrors ==
    ASSUME NEW s \in Errors
    PROVE  Counter!Aged(s) \in Errors
  BY DEF Counter!Aged, Errors, Counter!Error

\* What a rate that has counters shows, and one that has none.
LEMMA ProtocolIs ==
    ASSUME Counter!PfcCountsAssumption, NEW r \in PortRate
    PROVE  /\ Counter!Protocol(r) \in {"SDH", "OTU", "ETHERNET", "FIBER_CHANNEL"}
           /\ r \notin Counter!PfcRates => Counter!Protocol(r) # "SDH" /\ r # "OTU1"
  BY CounterSizes DEF Counter!Protocol, Counter!PfcRates

LEMMA CountersInit ==
    ASSUME Counter!PfcCountsAssumption
    PROVE  Counter!Init => CountersInv
  <1>1. SUFFICES ASSUME Counter!Init PROVE CountersInv
    OBVIOUS
  <1>2. select \in PortRate
    BY <1>1, CounterSizes DEF Counter!Init
  <1>3. Counter!Base \in {"own", "stray"}
    BY DEF Counter!Base
  <1>4. data \in DataOf(Errors) /\ data.alloc
    BY <1>1, <1>3, NewData, Zenon DEF Counter!Init
  <1>5. Counter!Protocol(select) \in {"SDH", "OTU", "ETHERNET", "FIBER_CHANNEL"}
    BY <1>2, ProtocolIs, Zenon
  <1>6. Counter!TypeOK
    <2>1. "idle" \in CounterSteps /\ {} \subseteq {"reset", "rate"} /\ "set" \in {"null", "set"}
      BY DEF CounterSteps
    <2> QED BY <1>1, <1>2, <1>4, <1>5, <2>1, CounterSizes, CounterTyped, Zenon DEF Counter!Init
  <1>7. StructureInv
    BY <1>1, <1>4 DEF Counter!Init, StructureInv
  <1> QED BY <1>6, <1>7 DEF CountersInv

\* The hardware and the alarms leave what StructureInv looks at.
LEMMA StructureStays ==
    ASSUME CountersInv, data'.alloc = data.alloc, pfc' = pfc, pfcRate' = pfcRate, prot' = prot,
           capable' = capable, pfcPc' = pfcPc \/ {pfcPc, pfcPc'} \cap {"check", "free", "null"} = {}
    PROVE  StructureInv'
  <1>1. /\ Counter!Protocol(pfcRate)' = Counter!Protocol(pfcRate)
        /\ \A g : Counter!Shows(g)' <=> Counter!Shows(g)
    BY Zenon DEF Counter!Protocol, Counter!Shows
  <1>2. pfcPc' # pfcPc => pfcPc \notin {"check", "free", "null"} /\ pfcPc' \notin {"check", "free", "null"}
    OBVIOUS
  <1> QED BY <1>1, <1>2 DEF CountersInv, StructureInv

LEMMA CountingStep ==
    ASSUME Counter!PfcCountsAssumption, CountersInv,
           \/ Counter!Count \/ Counter!pfc_timer_isr \/ Counter!ResetCounters
           \/ \E r \in PortRates : Counter!SetDataType(r)
    PROVE  CountersInv'
  <1>1. /\ pfcBlock \in Errors /\ data \in DataOf(Errors) /\ select \in PortRate /\ pfcNext \in PortRate
        /\ data.copy \in Errors /\ data.elapsed \in 0 .. Period - 1 /\ 0 \in 0 .. Period - 1
        /\ pfcRequests \in 0 .. MaxResets /\ pfcRaced \subseteq {"reset", "rate"}
        /\ change \in BOOLEAN /\ resets \in BOOLEAN
    BY CounterTyped, DataParts, CounterSizes, Zenon DEF CountersInv
  <1>2. CASE Counter!Count
    <2>1. /\ pfcBlock' = pfcBlock \cup {[rate |-> select, old |-> FALSE]}
          /\ UNCHANGED <<pfcKind, select, pfcNext, change, resets, pfcRate, prot, capable, pfc, data,
                         pfcPc, pulled, pfcRaced, pfcRequests>>
      BY <1>2, Zenon DEF Counter!Count, Counter!settings, Counter!monitor
    <2>2. pfcBlock' \in Errors
      <3>1. [rate |-> select, old |-> FALSE] \in Counter!Error
        BY <1>1 DEF Counter!Error, PortRate
      <3> QED BY <1>1, <2>1, <3>1, Zenon DEF Errors
    <2>3. Counter!TypeOK'
      BY <2>1, <2>2, CounterTyped, Zenon DEF CountersInv
    <2> QED BY <2>1, <2>3, StructureStays, Zenon DEF CountersInv
  <1>3. CASE Counter!pfc_timer_isr
    <2>1. /\ data' \in DataOf(Errors) /\ data'.alloc = data.alloc
      <3>1. CASE data.elapsed + 1 = Period
        <4>1. data' = [data EXCEPT !.elapsed = 0]
          BY <1>3, <3>1 DEF Counter!pfc_timer_isr
        <4> QED BY <1>1, <4>1, ElapsedSet, Zenon
      <3>2. CASE data.elapsed + 1 # Period
        <4>1. PICK r \in Counter!Registers :
                 data' = [data EXCEPT !.elapsed = data.elapsed + 1, !.copy = r]
          BY <1>3, <3>2 DEF Counter!pfc_timer_isr
        <4>2. r \in Errors
          BY <1>1, Zenon DEF Counter!Registers, Errors
        <4>3. data.elapsed + 1 \in 0 .. Period - 1
          BY <1>1, <3>2, CounterSizes
        <4>4. /\ [data EXCEPT !.elapsed = data.elapsed + 1, !.copy = r] \in DataOf(Errors)
              /\ [data EXCEPT !.elapsed = data.elapsed + 1, !.copy = r].alloc = data.alloc
          BY <1>1, <4>2, <4>3 DEF DataOf
        <4> QED BY <4>1, <4>4, Zenon
      <3> QED BY <3>1, <3>2
    <2>2. UNCHANGED <<pfcKind, pfcBlock, select, pfcNext, change, resets, pfcRate, prot, capable, pfc,
                      pfcPc, pulled, pfcRaced, pfcRequests>>
      BY <1>3, Zenon DEF Counter!pfc_timer_isr, Counter!settings, Counter!monitor
    <2>3. Counter!TypeOK'
      BY <2>1, <2>2, CounterTyped, Zenon DEF CountersInv
    <2> QED BY <2>1, <2>2, <2>3, StructureStays, Zenon DEF CountersInv
  <1>4. CASE Counter!ResetCounters
    <2>1. /\ pfcBlock' = Counter!Aged(pfcBlock)
          /\ data' = [data EXCEPT !.copy = Counter!Aged(data.copy)] /\ resets' = TRUE
          /\ UNCHANGED <<pfcKind, select, pfcNext, change, pfcRate, prot, capable, pfc, pfcPc, pulled>>
      BY <1>4 DEF Counter!ResetCounters, Counter!Forget, Counter!monitor
    <2>2. /\ pfcBlock' \in Errors /\ data' \in DataOf(Errors) /\ data'.alloc = data.alloc
      BY <1>1, <2>1, AgedErrors, CopySet, Zenon
    <2>3. pfcRequests' \in 0 .. MaxResets /\ pfcRaced' \subseteq {"reset", "rate"}
      BY <1>1, <1>4, CounterSizes DEF Counter!ResetCounters, Counter!Asked
    <2>4. Counter!TypeOK'
      BY <2>1, <2>2, <2>3, CounterTyped, Zenon DEF CountersInv
    <2> QED BY <2>1, <2>2, <2>4, StructureStays, Zenon DEF CountersInv
  <1>5. ASSUME NEW r \in PortRates, Counter!SetDataType(r)
        PROVE  CountersInv'
    <2>1. /\ pfcNext' = r /\ change' = TRUE
          /\ UNCHANGED <<pfcKind, pfcBlock, select, resets, pfcRate, prot, capable, pfc, data, pfcPc, pulled>>
      BY <1>5 DEF Counter!SetDataType, Counter!monitor
    <2>2. pfcNext' \in PortRate
      BY <2>1 DEF PortRate
    <2>3. pfcRequests' \in 0 .. MaxResets /\ pfcRaced' \subseteq {"reset", "rate"}
      BY <1>1, <1>5, CounterSizes DEF Counter!SetDataType, Counter!Asked
    <2>4. Counter!TypeOK'
      BY <2>1, <2>2, <2>3, CounterTyped, Zenon DEF CountersInv
    <2> QED BY <2>1, <2>4, StructureStays, Zenon DEF CountersInv
  <1> QED BY <1>2, <1>3, <1>4, <1>5, Zenon

LEMMA ResettingStep ==
    ASSUME Counter!PfcCountsAssumption, CountersInv,
           \/ Counter!Reset \/ Counter!Pulled \/ Counter!Zero
           \/ Counter!Eop("eop", "again") \/ Counter!Eop("again", "lower") \/ Counter!Lower
    PROVE  CountersInv'
  <1>1. /\ pfcBlock \in Errors /\ data \in DataOf(Errors) /\ data.copy \in Errors
        /\ pfcRequests \in 0 .. MaxResets /\ resets \in BOOLEAN /\ pulled \in BOOLEAN
        /\ {} \in Errors
    BY CounterTyped, DataParts, CounterSizes, Zenon DEF CountersInv
  <1>2. /\ {pfcPc, pfcPc'} \cap {"check", "free", "null"} = {} /\ pfcPc' \in CounterSteps
    BY DEF Counter!Reset, Counter!Pulled, Counter!Zero, Counter!Eop, Counter!Lower, Counter!Main,
           Counter!Step, CounterSteps
  <1>3. UNCHANGED <<pfcKind, select, pfcNext, change, pfcRate, prot, capable, pfc, pfcRaced>>
    BY Zenon DEF Counter!Reset, Counter!Pulled, Counter!Zero, Counter!Eop, Counter!Lower,
       Counter!Main, Counter!Step, Counter!settings, Counter!monitor
  <1>4. CASE Counter!Reset \/ Counter!Lower
    <2>1. pfcBlock' = pfcBlock /\ data' = data /\ pfcRequests' = pfcRequests
      BY <1>4, Zenon DEF Counter!Reset, Counter!Lower, Counter!Main
    <2>2. resets' \in BOOLEAN /\ pulled' \in BOOLEAN
      BY <1>1, <1>4, Zenon DEF Counter!Reset, Counter!Lower, Counter!Main, Counter!settings
    <2>3. Counter!TypeOK'
      BY <1>2, <1>3, <2>1, <2>2, CounterTyped, Zenon DEF CountersInv
    <2> QED BY <1>2, <1>3, <2>1, <2>3, StructureStays, Zenon DEF CountersInv
  <1>5. CASE Counter!Pulled
    <2>1. /\ pfcBlock' = Counter!Aged(pfcBlock) /\ pulled' = TRUE /\ resets' = resets
          /\ data' = [data EXCEPT !.copy = Counter!Aged(data.copy)]
      BY <1>5 DEF Counter!Pulled, Counter!Forget, Counter!settings
    <2>2. /\ pfcBlock' \in Errors /\ data' \in DataOf(Errors) /\ data'.alloc = data.alloc
      BY <1>1, <2>1, AgedErrors, CopySet, Zenon
    <2>3. pfcRequests' \in 0 .. MaxResets
      BY <1>1, <1>5, CounterSizes DEF Counter!Pulled, Counter!Asked
    <2>4. Counter!TypeOK'
      BY <1>2, <1>3, <2>1, <2>2, <2>3, CounterTyped, Zenon DEF CountersInv
    <2> QED BY <1>2, <1>3, <2>2, <2>4, StructureStays, Zenon DEF CountersInv
  <1>6. CASE Counter!Zero \/ Counter!Eop("eop", "again") \/ Counter!Eop("again", "lower")
    <2>1. /\ pfcBlock' \in {pfcBlock, {}} /\ data' \in {data, [data EXCEPT !.copy = {}]}
          /\ UNCHANGED <<resets, pulled, pfcRequests>>
      BY <1>6, Zenon DEF Counter!Zero, Counter!Eop, Counter!Main, Counter!settings,
         Counter!reset_pfc_hw_counters
    <2>2. /\ pfcBlock' \in Errors /\ data' \in DataOf(Errors) /\ data'.alloc = data.alloc
      <3>1. /\ [data EXCEPT !.copy = {}] \in DataOf(Errors)
            /\ [data EXCEPT !.copy = {}].alloc = data.alloc
        BY <1>1, CopySet, Zenon
      <3>2. data' = data \/ data' = [data EXCEPT !.copy = {}]
        BY <2>1, Zenon
      <3>3. data' \in DataOf(Errors) /\ data'.alloc = data.alloc
        BY <1>1, <3>1, <3>2, Zenon
      <3> QED BY <1>1, <2>1, <3>3, Zenon
    <2>3. Counter!TypeOK'
      BY <1>2, <1>3, <2>1, <2>2, CounterTyped, Zenon DEF CountersInv
    <2> QED BY <1>2, <1>3, <2>2, <2>3, StructureStays, Zenon DEF CountersInv
  <1> QED BY <1>4, <1>5, <1>6

\* The capability decides, once rate and protocol are stored, what becomes of the structure.
LEMMA CheckStep ==
    ASSUME Counter!PfcCountsAssumption, CountersInv, Counter!RateCheck
    PROVE  CountersInv'
  <1> DEFINE can == IF pfcRate = pfcNext THEN pfcRate \in Counter!PfcRates ELSE capable
  <1>1. /\ pfcPc = "check" /\ pfcPc' = IF ~can /\ pfc = "set" THEN "free" ELSE "done"
        /\ capable' = can /\ pfc' = (IF can THEN "set" ELSE pfc)
        /\ data' = IF can THEN Counter!Created ELSE [data EXCEPT !.running = FALSE]
        /\ IF can /\ pfc = "null" THEN pfcBlock' = {} ELSE pfcBlock' = pfcBlock
        /\ UNCHANGED <<pfcKind, select, pfcNext, change, resets, pfcRate, prot, pulled, pfcRaced,
                       pfcRequests>>
    BY Zenon DEF Counter!RateCheck, Counter!Main, Counter!Step, Counter!settings
  <1>2. /\ capable \in BOOLEAN /\ pfc \in {"null", "set"} /\ pfcRate \in PortRate
        /\ data \in DataOf(Errors) /\ pfcBlock \in Errors
    BY CounterTyped, Zenon DEF CountersInv
  <1>3. can \in BOOLEAN
    <2>1. CASE pfcRate = pfcNext
      BY <2>1, SMT
    <2>2. CASE pfcRate # pfcNext
      BY <1>2, <2>2, Zenon
    <2> QED BY <2>1, <2>2, Zenon
  <1>4. /\ (capable <=> pfc = "set") /\ prot = Counter!Protocol(pfcRate)
        /\ pfc = "set" => data.alloc
    BY <1>1 DEF CountersInv, StructureInv
  <1>5. /\ Counter!Created \in DataOf(Errors) /\ Counter!Created.alloc
        /\ [data EXCEPT !.running = FALSE] \in DataOf(Errors)
        /\ [data EXCEPT !.running = FALSE].alloc = data.alloc
    <2>1. Counter!Base \in {"own", "stray"}
      BY DEF Counter!Base
    <2>2. TRUE \in BOOLEAN /\ FALSE \in BOOLEAN /\ 0 \in 0 .. Period - 1 /\ {} \in Errors
      BY CounterSizes
    <2>3. /\ [data EXCEPT !.running = FALSE] \in DataOf(Errors)
          /\ [data EXCEPT !.running = FALSE].alloc = data.alloc
          /\ [data EXCEPT !.running = TRUE, !.elapsed = 0] \in DataOf(Errors)
          /\ [data EXCEPT !.running = TRUE, !.elapsed = 0].alloc = data.alloc
      BY <1>2, <2>2, RunningSet, StartedAnew, Zenon
    <2>4. CASE pfc = "null"
      BY <2>1, <2>3, <2>4, NewData, Zenon DEF Counter!Created
    <2>5. CASE pfc # "null"
      BY <1>2, <1>4, <2>3, <2>5, Zenon DEF Counter!Created
    <2> QED BY <2>4, <2>5
  <1>6. data' \in DataOf(Errors) /\ (data'.alloc \/ (~can /\ data'.alloc = data.alloc))
    BY <1>1, <1>5, Zenon
  <1>7. pfcBlock' \in Errors /\ pfcPc' \in {"free", "done"} /\ pfc' \in {"null", "set"}
    BY <1>1, <1>2, CounterSizes, Zenon
  <1>8. Counter!TypeOK'
    <2>1. pfcPc' \in CounterSteps /\ capable' \in BOOLEAN
      BY <1>1, <1>3, <1>7 DEF CounterSteps
    <2> QED BY <1>1, <1>6, <1>7, <2>1, CounterTyped, Zenon DEF CountersInv
  <1>9. ~can /\ pfc = "set" => pfcRate \notin Counter!PfcRates
    <2>1. CASE pfcRate = pfcNext
      BY <2>1, Zenon
    <2>2. CASE pfcRate # pfcNext
      BY <1>2, <1>4, <2>2, SMT
    <2> QED BY <2>1, <2>2, Zenon
  <1> HIDE DEF can
  <1>10. StructureInv'
    <2>1. CASE can
      BY <1>1, <1>6, <2>1 DEF StructureInv
    <2>2. CASE ~can /\ pfc = "set"
      <3>1. prot # "SDH" /\ pfcRate # "OTU1"
        <4>1. pfcRate \notin Counter!PfcRates
          BY <1>9, <2>2, Zenon
        <4>2. Counter!Protocol(pfcRate) # "SDH" /\ pfcRate # "OTU1"
          BY <1>2, <4>1, ProtocolIs, Zenon
        <4> QED BY <1>4, <4>2, Zenon
      <3>2. \A g \in Counter!Groups : ~Counter!Shows(g)'
        BY <1>1, <3>1 DEF Counter!Groups, Counter!Shows
      <3> QED BY <1>1, <1>4, <1>6, <2>2, <3>2 DEF StructureInv
    <2>3. CASE ~can /\ pfc # "set"
      BY <1>1, <2>3 DEF StructureInv
    <2> QED BY <2>1, <2>2, <2>3
  <1> QED BY <1>8, <1>10 DEF CountersInv

LEMMA RateStep ==
    ASSUME Counter!PfcCountsAssumption, CountersInv,
           \/ Counter!RateSet \/ Counter!RateRead \/ Counter!ProtRead \/ Counter!Free \/ Counter!Null
           \/ Counter!RateDone
    PROVE  CountersInv'
  <1>1. /\ select \in PortRate /\ pfcNext \in PortRate /\ pfcRate \in PortRate
        /\ data \in DataOf(Errors) /\ {} \in Errors /\ 0 \in 0 .. Period - 1
        /\ capable \in BOOLEAN /\ pfc \in {"null", "set"}
    BY CounterTyped, CounterSizes, Zenon DEF CountersInv
  <1>2. CASE Counter!RateSet \/ Counter!RateDone
    <2>1. /\ {pfcPc, pfcPc'} \cap {"check", "free", "null"} = {} /\ pfcPc' \in CounterSteps
      BY <1>2 DEF Counter!RateSet, Counter!RateDone, Counter!Main, Counter!Step, CounterSteps
    <2>2. /\ select' \in {select, pfcNext} /\ change' \in {change, FALSE} /\ resets' \in {resets, TRUE}
          /\ UNCHANGED <<pfcKind, pfcBlock, pfcNext, pfcRate, prot, capable, pfc, data, pulled,
                         pfcRaced, pfcRequests>>
      BY <1>2, Zenon DEF Counter!RateSet, Counter!RateDone, Counter!Main, Counter!Step,
         Counter!settings, Counter!monitor
    <2>3. Counter!TypeOK'
      BY <1>1, <2>1, <2>2, CounterTyped, Zenon DEF CountersInv
    <2> QED BY <2>1, <2>2, <2>3, StructureStays, Zenon DEF CountersInv
  <1>3. CASE Counter!RateRead
    <2>1. /\ pfcPc = "read" /\ pfcPc' = "prot" /\ pfcRate' = select
          /\ UNCHANGED <<pfcKind, pfcBlock, select, pfcNext, change, resets, prot, capable, pfc, data,
                         pulled, pfcRaced, pfcRequests>>
      BY <1>3, Zenon DEF Counter!RateRead, Counter!Main, Counter!Step, Counter!settings
    <2>2. pfcPc' \in CounterSteps
      BY <2>1 DEF CounterSteps
    <2>3. Counter!TypeOK'
      BY <1>1, <2>1, <2>2, CounterTyped, Zenon DEF CountersInv
    <2> QED BY <2>1, <2>3 DEF CountersInv, StructureInv
  <1>4. CASE Counter!ProtRead
    <2>1. /\ pfcPc = "prot" /\ pfcPc' = "check" /\ prot' = Counter!Protocol(pfcRate)
          /\ UNCHANGED <<pfcKind, pfcBlock, select, pfcNext, change, resets, pfcRate, capable, pfc, data,
                         pulled, pfcRaced, pfcRequests>>
      BY <1>4, Zenon DEF Counter!ProtRead, Counter!Main, Counter!Step, Counter!settings
    <2>2. pfcPc' \in CounterSteps
      BY <2>1 DEF CounterSteps
    <2>3. prot' \in {"SDH", "OTU", "ETHERNET", "FIBER_CHANNEL"}
      BY <1>1, <2>1, ProtocolIs, Zenon
    <2>4. Counter!TypeOK'
      BY <1>1, <2>1, <2>2, <2>3, CounterTyped, Zenon DEF CountersInv
    <2>5. Counter!Protocol(pfcRate)' = Counter!Protocol(pfcRate)
      BY <2>1, Zenon DEF Counter!Protocol
    <2> QED BY <2>1, <2>4, <2>5 DEF CountersInv, StructureInv
  <1>5. CASE Counter!Free
    <2>1. /\ pfcPc = "free" /\ pfcPc' = "null" /\ data' = [data EXCEPT !.alloc = FALSE]
          /\ UNCHANGED <<pfcKind, pfcBlock, select, pfcNext, change, resets, pfcRate, prot, capable, pfc,
                         pulled, pfcRaced, pfcRequests>>
      BY <1>5, Zenon DEF Counter!Free, Counter!Main, Counter!Step, Counter!settings, Counter!monitor
    <2>2. pfcPc' \in CounterSteps
      BY <2>1 DEF CounterSteps
    <2>3. data' \in DataOf(Errors)
      BY <1>1, <2>1, AllocSet, Zenon
    <2>4. Counter!TypeOK'
      BY <1>1, <2>1, <2>2, <2>3, CounterTyped, Zenon DEF CountersInv
    <2> QED BY <2>1, <2>4 DEF CountersInv, StructureInv, Counter!Groups, Counter!Shows
  <1>6. CASE Counter!Null
    <2>1. /\ pfcPc = "null" /\ pfcPc' = "done" /\ pfc' = "null"
          /\ UNCHANGED <<pfcKind, pfcBlock, select, pfcNext, change, resets, pfcRate, prot, capable, data,
                         pulled, pfcRaced, pfcRequests>>
      BY <1>6, Zenon DEF Counter!Null, Counter!Main, Counter!Step, Counter!settings, Counter!monitor
    <2>2. pfcPc' \in CounterSteps /\ pfc' \in {"null", "set"}
      BY <2>1 DEF CounterSteps
    <2>3. Counter!TypeOK'
      BY <1>1, <2>1, <2>2, CounterTyped, Zenon DEF CountersInv
    <2> QED BY <2>1, <2>3 DEF CountersInv, StructureInv
  <1> QED BY <1>2, <1>3, <1>4, <1>5, <1>6

LEMMA CountersNext ==
    ASSUME Counter!PfcCountsAssumption, CountersInv, Counter!Next
    PROVE  CountersInv'
  BY CountingStep, ResettingStep, CheckStep, RateStep, Zenon DEF Counter!Next, Counter!MainStep

LEMMA CountersStay ==
    ASSUME CountersInv, UNCHANGED countersVars
    PROVE  CountersInv'
  <1>1. /\ pfcKind' = pfcKind /\ pfcBlock' = pfcBlock /\ select' = select /\ pfcNext' = pfcNext
        /\ change' = change /\ resets' = resets /\ pfcRate' = pfcRate /\ prot' = prot
        /\ capable' = capable /\ pfc' = pfc /\ data' = data /\ pfcPc' = pfcPc /\ pulled' = pulled
        /\ pfcRaced' = pfcRaced /\ pfcRequests' = pfcRequests
    BY Zenon DEF countersVars
  <1>2. Counter!TypeOK'
    BY <1>1, CounterTyped, Zenon DEF CountersInv
  <1> QED BY <1>1, <1>2, StructureStays, Zenon DEF CountersInv

\* A structure that was freed is not read.
LEMMA FreedIsHidden ==
    ASSUME CountersInv
    PROVE  Counter!FreedIsNotRead
  BY DEF CountersInv, StructureInv, Counter!FreedIsNotRead

-----------------------------------------------------------------------------
(* The controls *)

ControlSteps == {"idle", "flags", "service", "switched", "copied", "lb", "lb_rate", "lb_done",
                 "rate", "rate_read", "rate_check", "rate_clear", "tx", "tx_check", "tx_equal"}
RateWindow == {"rate_read", "rate_check", "rate_clear"}

ServiceStates == [next : Control!States, current : Control!States, change : BOOLEAN]
TxStates == [next : BOOLEAN, current : BOOLEAN, change : BOOLEAN]
LoopStates == [next : Control!Modes, current : Control!Modes, change : BOOLEAN]
RateStates == [next : CtlRates \cup {"none", "OTU2"}, current : CtlRates \cup {"OTU2"}, change : BOOLEAN]
PortStates == [rate : Control!AllRates \cup {"OTU2"}, pfcCapable : BOOLEAN,
               fecCapable : BOOLEAN, pfc : BOOLEAN, activity : BOOLEAN]
HwStates == [dark : BOOLEAN, loop : BOOLEAN, rate : 0 .. 6]

\* Control c asks for nothing that is not done, or task_10 is at one of the steps
\* `at', where it has done it and has not lowered the flag yet.
Done(c, at) == ctlPc \in at \/ (~c.change /\ ctlPc # "flags")

\* What was asked for the service state is what is in force, and an interface out of
\* service is to be dark.
ServiceInv ==
    /\ "service" \notin ctlRaced => service.next = service.current
    /\ "service" \notin ctlRaced /\ ctlPc = "copied" => loaded = service.next
    /\ "service" \notin ctlRaced /\ Done(service, {"switched", "copied"}) /\ service.current = "OOS" =>
           ~port.activity /\ tx.next

TxInv == "tx" \notin ctlRaced /\ Done(tx, {"tx_equal"}) => hw.dark = tx.next

LoopInv ==
    /\ lb.next = lb.current
    /\ "lb" \notin ctlRaced /\ Done(lb, {"lb_rate", "lb_done"}) /\ ~(ctlKind = "line" /\ lb.next = "CL") =>
           hw.loop = (lb.next = "LN")

CountsRate(p) ==
    /\ p.pfc = (p.rate \in {"STM1", "STM4", "STM16", "OTU1"})
    /\ p.fecCapable = (p.rate = "OTU1")

\* The rate of a client, that of its hardware and what it counts.  Once it is set the
\* hardware is read back, which cannot fail.
RateInv ==
    /\ ctlKind # "line" => ctlRate.next \in CtlRates
    /\ ctlPc \in {"lb_rate"} \cup RateWindow => ctlKind # "line"
    /\ ctlPc \in {"rate_read", "rate_check"} => ctlRate.change
    /\ ctlPc \in RateWindow => hw.rate # 6
    /\ ctlKind # "line" /\ "rate" \notin ctlRaced /\ Done(ctlRate, RateWindow) =>
           /\ ctlRate.current = ctlRate.next
           /\ hw.rate # 6 => hw.rate = Control!top_level_rate(ctlRate.next)
    /\ ctlKind # "line" /\ "rate" \notin ctlRaced /\ Done(ctlRate, {"rate_clear"})
           /\ port.rate = ctlRate.current => CountsRate(port)

\* A transmitter that is to be lit was asked for.
LitInv == ~tx.next => ctlAsked \/ ctlRestored

ControlsInv ==
    Control!TypeOK /\ ServiceInv /\ TxInv /\ LoopInv /\ RateInv /\ LitInv

LEMMA ControlTyped ==
    /\ Control!TypeOK <=>
          /\ ctlKind \in CtlKinds /\ service \in ServiceStates /\ tx \in TxStates /\ lb \in LoopStates
          /\ ctlRate \in RateStates /\ port \in PortStates /\ hw \in HwStates
          /\ ctlRestore \in BOOLEAN /\ ctlAsked \in BOOLEAN /\ ctlRestored \in BOOLEAN
          /\ ctlPc \in ControlSteps /\ loaded \in Control!States
          /\ ctlRaced \subseteq {"service", "tx", "lb", "rate"} /\ ctlRequests \in 0 .. MaxControls
    /\ Control!TypeOK' <=>
          /\ ctlKind' \in CtlKinds /\ service' \in ServiceStates /\ tx' \in TxStates /\ lb' \in LoopStates
          /\ ctlRate' \in RateStates /\ port' \in PortStates /\ hw' \in HwStates
          /\ ctlRestore' \in BOOLEAN /\ ctlAsked' \in BOOLEAN /\ ctlRestored' \in BOOLEAN
          /\ ctlPc' \in ControlSteps /\ loaded' \in Control!States
          /\ ctlRaced' \subseteq {"service", "tx", "lb", "rate"} /\ ctlRequests' \in 0 .. MaxControls
  BY Zenon
    DEF Control!TypeOK, Control!Reset, ServiceStates, TxStates, LoopStates, RateStates, PortStates,
     HwStates, ControlSteps

LEMMA ControlSizes ==
    ASSUME Control!ControlsAssumption
    PROVE  /\ CtlKinds \subseteq {"client1", "client2", "line"} /\ MaxControls \in Nat
           /\ CtlRates \subseteq Control!AllRates /\ "STM1" \in CtlRates
           /\ "none" \notin CtlRates /\ "OTU2" \notin CtlRates
           /\ \A r : Control!top_level_rate(r) \in 0 .. 5
  BY DEF Control!ControlsAssumption, Control!AllRates, Control!top_level_rate

LEMMA ControlsInit ==
    ASSUME Control!ControlsAssumption
    PROVE  Control!Init => ControlsInv
  <1>1. SUFFICES ASSUME Control!Init PROVE ControlsInv
    OBVIOUS
  <1>2. PICK s \in Control!States, off \in BOOLEAN, m \in Control!Modes, r \in CtlRates, lit \in BOOLEAN :
           /\ service = Control!Control(s)
           /\ tx = Control!Control(off \/ s = "OOS")
           /\ lb = Control!Control(m)
           /\ ctlRate = IF ctlKind = "line"
                        THEN [next |-> "none", current |-> "OTU2", change |-> FALSE]
                        ELSE [Control!Control(r) EXCEPT !.change = r \notin {"OTU1", "STM16", "FC2"}]
           /\ hw = [dark |-> ~lit, loop |-> FALSE, rate |-> 6]
           /\ ctlAsked = ~(off \/ s = "OOS")
    BY <1>1, Zenon DEF Control!Init, Control!Reset
  <1>3. /\ ctlKind \in CtlKinds /\ ctlRestore = FALSE /\ ctlRestored = FALSE /\ ctlPc = "idle"
        /\ loaded = "IS" /\ ctlRaced = {} /\ ctlRequests = 0
        /\ port = [rate |-> IF ctlKind = "line" THEN "OTU2" ELSE "STM1", pfcCapable |-> TRUE,
                   fecCapable |-> ctlKind = "line", pfc |-> TRUE, activity |-> FALSE]
    BY <1>1, Zenon DEF Control!Init
  <1>4. service \in ServiceStates /\ tx \in TxStates /\ lb \in LoopStates
    BY <1>2 DEF ServiceStates, TxStates, LoopStates, Control!Control
  <1>5. ctlRate \in RateStates /\ (ctlKind # "line" => ctlRate.next = r /\ ctlRate.current = r)
    BY <1>2 DEF RateStates, Control!Control
  <1>6. port \in PortStates /\ hw \in HwStates
    BY <1>2, <1>3 DEF PortStates, HwStates, Control!AllRates
  <1>7. Control!TypeOK
    <2>1. /\ ctlRestore \in BOOLEAN /\ ctlAsked \in BOOLEAN /\ ctlRestored \in BOOLEAN
          /\ ctlPc \in ControlSteps /\ loaded \in Control!States
          /\ ctlRaced \subseteq {"service", "tx", "lb", "rate"}
      BY <1>2, <1>3 DEF ControlSteps, Control!States
    <2>2. ctlRequests \in 0 .. MaxControls
      BY <1>3, ControlSizes
    <2> QED BY <1>3, <1>4, <1>5, <1>6, <2>1, <2>2, ControlTyped, Zenon
  <1>8. ServiceInv /\ TxInv /\ LoopInv /\ LitInv
    BY <1>2, <1>3 DEF ServiceInv, TxInv, LoopInv, LitInv, Done, Control!Control
  <1>9. RateInv
    BY <1>2, <1>3, <1>5 DEF RateInv, Done, CountsRate, RateWindow
  <1> QED BY <1>7, <1>8, <1>9, Zenon DEF ControlsInv

\* The steps that have nothing to do with one of the controls.
LEMMA ServiceStays ==
    ASSUME ServiceInv, service' = service, port'.activity = port.activity,
           ("service" \in ctlRaced' <=> "service" \in ctlRaced),
           loaded' = loaded, service.current = "OOS" => tx'.next = tx.next,
           ctlPc' = ctlPc \/ {ctlPc, ctlPc'} \cap {"flags", "switched", "copied"} = {}
    PROVE  ServiceInv'
  BY DEF ServiceInv, Done

LEMMA TxStays ==
    ASSUME TxInv, tx' = tx, hw'.dark = hw.dark, ("tx" \in ctlRaced' <=> "tx" \in ctlRaced),
           ctlPc' = ctlPc \/ {ctlPc, ctlPc'} \cap {"flags", "tx_equal"} = {}
    PROVE  TxInv'
  BY DEF TxInv, Done

LEMMA LoopStays ==
    ASSUME LoopInv, lb' = lb, hw'.loop = hw.loop, ("lb" \in ctlRaced' <=> "lb" \in ctlRaced),
           ctlKind' = ctlKind,
           ctlPc' = ctlPc \/ {ctlPc, ctlPc'} \cap {"flags", "lb_rate", "lb_done"} = {}
    PROVE  LoopInv'
  BY DEF LoopInv, Done

LEMMA RateStays ==
    ASSUME RateInv, ctlRate' = ctlRate, hw'.rate = hw.rate,
           ("rate" \in ctlRaced' <=> "rate" \in ctlRaced), ctlKind' = ctlKind,
           port'.rate = port.rate, port'.pfc = port.pfc, port'.fecCapable = port.fecCapable,
           ctlPc' = ctlPc \/ {ctlPc, ctlPc'} \cap ({"flags", "lb_rate"} \cup RateWindow) = {}
    PROVE  RateInv'
  <1>1. Control!top_level_rate(ctlRate.next)' = Control!top_level_rate(ctlRate.next)
    BY Zenon DEF Control!top_level_rate
  <1>2. CountsRate(port)' <=> CountsRate(port)
    BY DEF CountsRate
  <1> QED BY <1>1, <1>2 DEF RateInv, Done, RateWindow

LEMMA LitStays ==
    ASSUME LitInv, tx'.next = tx.next, ctlAsked' = ctlAsked, ctlRestored' = ctlRestored
    PROVE  LitInv'
  BY DEF LitInv

\* The requests of the control unit.
LEMMA AskedFor ==
    ASSUME Control!ControlsAssumption, ControlsInv, NEW c \in {"service", "tx", "lb", "rate", "restore"},
           Control!Asked(c)
    PROVE  /\ ctlRequests' \in 0 .. MaxControls /\ ctlRestored' = ctlRestored
           /\ ctlKind' = ctlKind /\ port' = port /\ hw' = hw /\ ctlPc' = ctlPc /\ loaded' = loaded
           /\ ctlRaced' \subseteq {"service", "tx", "lb", "rate"}
           /\ \A d \in {"service", "tx", "lb", "rate"} : d # c => (d \in ctlRaced' <=> d \in ctlRaced)
           /\ c \notin ctlRaced' => ctlPc \notin Control!Window(c)
  <1>1. ctlRequests \in 0 .. MaxControls /\ ctlRaced \subseteq {"service", "tx", "lb", "rate"}
    BY ControlTyped, Zenon DEF ControlsInv
  <1>2. ctlRequests' \in 0 .. MaxControls
    BY <1>1, ControlSizes DEF Control!Asked
  <1>3. /\ ctlRestored' = ctlRestored /\ ctlKind' = ctlKind /\ port' = port /\ hw' = hw
        /\ ctlPc' = ctlPc /\ loaded' = loaded
    BY Zenon DEF Control!Asked
  <1>4. /\ ctlPc \in Control!Window(c) => ctlRaced' = ctlRaced \cup {c}
        /\ ctlPc \notin Control!Window(c) => ctlRaced' = ctlRaced \ {c}
    BY Zenon DEF Control!Asked
  <1>5. CASE c = "restore"
    <2>1. ctlPc \notin Control!Window(c)
      BY <1>5 DEF Control!Window
    <2> QED BY <1>1, <1>2, <1>3, <1>4, <1>5, <2>1
  <1>6. CASE c # "restore"
    BY <1>1, <1>2, <1>3, <1>4, <1>6
  <1> QED BY <1>5, <1>6

LEMMA AlarmStep ==
    ASSUME Control!ControlsAssumption, ControlsInv, Control!Alarm
    PROVE  ControlsInv' /\ Control!LitOnRequest
  <1>1. /\ ctlKind \in CtlKinds /\ service \in ServiceStates /\ tx \in TxStates /\ lb \in LoopStates
        /\ ctlRate \in RateStates /\ port \in PortStates /\ hw \in HwStates
        /\ ctlRestore \in BOOLEAN /\ ctlAsked \in BOOLEAN /\ ctlRestored \in BOOLEAN
        /\ ctlPc \in ControlSteps /\ loaded \in Control!States
        /\ ctlRaced \subseteq {"service", "tx", "lb", "rate"} /\ ctlRequests \in 0 .. MaxControls
    BY ControlTyped, Zenon DEF ControlsInv
  <1>2. ServiceInv /\ TxInv /\ LoopInv /\ RateInv /\ LitInv
    BY Zenon DEF ControlsInv
  <1>3. ASSUME hw' = hw
        PROVE  Control!LitOnRequest
    BY <1>3, Zenon DEF Control!LitOnRequest
  <1>4. ASSUME NEW s \in Control!States, Control!SetState(s)
        PROVE  ControlsInv' /\ Control!LitOnRequest
    <2>1. /\ service' = Control!Control(s) /\ tx' = tx /\ lb' = lb /\ ctlRate' = ctlRate
          /\ ctlRestore' = ctlRestore /\ ctlAsked' = ctlAsked
      BY <1>4, Zenon DEF Control!SetState
    <2>2. /\ ctlRequests' \in 0 .. MaxControls /\ ctlRestored' = ctlRestored
          /\ ctlKind' = ctlKind /\ port' = port /\ hw' = hw /\ ctlPc' = ctlPc /\ loaded' = loaded
          /\ ctlRaced' \subseteq {"service", "tx", "lb", "rate"}
          /\ ("tx" \in ctlRaced' <=> "tx" \in ctlRaced) /\ ("lb" \in ctlRaced' <=> "lb" \in ctlRaced)
          /\ ("rate" \in ctlRaced' <=> "rate" \in ctlRaced)
          /\ "service" \notin ctlRaced' => ctlPc \notin Control!Window("service")
      <3>1. Control!Asked("service")
        BY <1>4, Zenon DEF Control!SetState
      <3> QED BY <3>1, AskedFor
    <2>3. service' \in ServiceStates
      BY <2>1 DEF ServiceStates, Control!Control
    <2>4. Control!TypeOK'
      BY <1>1, <2>1, <2>2, <2>3, ControlTyped, Zenon
    <2>5. ServiceInv'
      BY <1>2, <2>1, <2>2 DEF ServiceInv, Done, Control!Control, Control!Window
    <2>6. TxInv' /\ LoopInv' /\ RateInv' /\ LitInv'
      BY <1>2, <2>1, <2>2, TxStays, LoopStays, RateStays, LitStays, Zenon
    <2> QED BY <1>3, <2>2, <2>4, <2>5, <2>6, Zenon DEF ControlsInv
  <1>5. ASSUME NEW on \in BOOLEAN, Control!EnableTx(on)
        PROVE  ControlsInv' /\ Control!LitOnRequest
    <2>1. /\ tx' = [tx EXCEPT !.next = ~on, !.change = TRUE] /\ ctlAsked' = on
          /\ service' = service /\ lb' = lb /\ ctlRate' = ctlRate /\ ctlRestore' = ctlRestore
          /\ service.current # "OOS"
      BY <1>5, Zenon DEF Control!EnableTx
    <2>2. /\ ctlRequests' \in 0 .. MaxControls /\ ctlRestored' = ctlRestored
          /\ ctlKind' = ctlKind /\ port' = port /\ hw' = hw /\ ctlPc' = ctlPc /\ loaded' = loaded
          /\ ctlRaced' \subseteq {"service", "tx", "lb", "rate"}
          /\ ("service" \in ctlRaced' <=> "service" \in ctlRaced)
          /\ ("lb" \in ctlRaced' <=> "lb" \in ctlRaced) /\ ("rate" \in ctlRaced' <=> "rate" \in ctlRaced)
          /\ "tx" \notin ctlRaced' => ctlPc \notin Control!Window("tx")
      <3>1. Control!Asked("tx")
        BY <1>5, Zenon DEF Control!EnableTx
      <3> QED BY <3>1, AskedFor
    <2>3. tx' \in TxStates /\ tx'.change /\ tx'.next = ~on
      BY <1>1, <2>1 DEF TxStates
    <2>4. Control!TypeOK'
      BY <1>1, <2>1, <2>2, <2>3, ControlTyped, Zenon
    <2>5. TxInv'
      BY <2>2, <2>3 DEF TxInv, Done, Control!Window
    <2>6. LitInv'
      BY <2>1, <2>3 DEF LitInv
    <2>7. ServiceInv' /\ LoopInv' /\ RateInv'
      BY <1>2, <2>1, <2>2, ServiceStays, LoopStays, RateStays, Zenon
    <2> QED BY <1>3, <2>2, <2>4, <2>5, <2>6, <2>7, Zenon DEF ControlsInv
  <1>6. ASSUME NEW m \in Control!Modes, Control!SetLoopback(m)
        PROVE  ControlsInv' /\ Control!LitOnRequest
    <2>1. /\ lb' = Control!Control(m) /\ service' = service /\ tx' = tx /\ ctlRate' = ctlRate
          /\ ctlRestore' = ctlRestore /\ ctlAsked' = ctlAsked
      BY <1>6, Zenon DEF Control!SetLoopback
    <2>2. /\ ctlRequests' \in 0 .. MaxControls /\ ctlRestored' = ctlRestored
          /\ ctlKind' = ctlKind /\ port' = port /\ hw' = hw /\ ctlPc' = ctlPc /\ loaded' = loaded
          /\ ctlRaced' \subseteq {"service", "tx", "lb", "rate"}
          /\ ("service" \in ctlRaced' <=> "service" \in ctlRaced)
          /\ ("tx" \in ctlRaced' <=> "tx" \in ctlRaced) /\ ("rate" \in ctlRaced' <=> "rate" \in ctlRaced)
          /\ "lb" \notin ctlRaced' => ctlPc \notin Control!Window("lb")
      <3>1. Control!Asked("lb")
        BY <1>6, Zenon DEF Control!SetLoopback
      <3> QED BY <3>1, AskedFor
    <2>3. lb' \in LoopStates
      BY <2>1 DEF LoopStates, Control!Control
    <2>4. Control!TypeOK'
      BY <1>1, <2>1, <2>2, <2>3, ControlTyped, Zenon
    <2>5. LoopInv'
      BY <2>1, <2>2 DEF LoopInv, Done, Control!Control, Control!Window
    <2>6. ServiceInv' /\ TxInv' /\ RateInv' /\ LitInv'
      BY <1>2, <2>1, <2>2, ServiceStays, TxStays, RateStays, LitStays, Zenon
    <2> QED BY <1>3, <2>2, <2>4, <2>5, <2>6, Zenon DEF ControlsInv
  <1>7. ASSUME NEW r \in CtlRates, Control!SetDataType(r)
        PROVE  ControlsInv' /\ Control!LitOnRequest
    <2>1. /\ ctlRate' = [ctlRate EXCEPT !.next = r, !.change = TRUE]
          /\ service' = service /\ tx' = tx /\ lb' = lb /\ ctlRestore' = ctlRestore /\ ctlAsked' = ctlAsked
      BY <1>7, Zenon DEF Control!SetDataType
    <2>2. /\ ctlRequests' \in 0 .. MaxControls /\ ctlRestored' = ctlRestored
          /\ ctlKind' = ctlKind /\ port' = port /\ hw' = hw /\ ctlPc' = ctlPc /\ loaded' = loaded
          /\ ctlRaced' \subseteq {"service", "tx", "lb", "rate"}
          /\ ("service" \in ctlRaced' <=> "service" \in ctlRaced)
          /\ ("tx" \in ctlRaced' <=> "tx" \in ctlRaced) /\ ("lb" \in ctlRaced' <=> "lb" \in ctlRaced)
          /\ "rate" \notin ctlRaced' => ctlPc \notin Control!Window("rate")
      <3>1. Control!Asked("rate")
        BY <1>7, Zenon DEF Control!SetDataType
      <3> QED BY <3>1, AskedFor
    <2>3. ctlRate' \in RateStates /\ ctlRate'.change /\ ctlRate'.next = r
      BY <1>1, <2>1 DEF RateStates
    <2>4. Control!TypeOK'
      BY <1>1, <2>1, <2>2, <2>3, ControlTyped, Zenon
    <2>5. RateInv'
      BY <1>2, <2>2, <2>3 DEF RateInv, RateWindow, Done, Control!Window
    <2>6. ServiceInv' /\ TxInv' /\ LoopInv' /\ LitInv'
      BY <1>2, <2>1, <2>2, ServiceStays, TxStays, LoopStays, LitStays, Zenon
    <2> QED BY <1>3, <2>2, <2>4, <2>5, <2>6, Zenon DEF ControlsInv
  <1>8. ASSUME NEW r \in CtlRates, Control!SetDataTypeElsewhere(r)
        PROVE  ControlsInv' /\ Control!LitOnRequest
    <2>1. /\ UNCHANGED <<ctlKind, service, tx, lb, ctlRate, port, hw, ctlRestore, ctlPc, loaded,
                         ctlRaced, ctlAsked, ctlRestored>>
      BY <1>8, Zenon DEF Control!SetDataTypeElsewhere, Control!settings
    <2>2. ctlRequests' \in 0 .. MaxControls
      BY <1>1, <1>8, ControlSizes DEF Control!SetDataTypeElsewhere
    <2>3. Control!TypeOK'
      BY <1>1, <2>1, <2>2, ControlTyped, Zenon
    <2>4. ServiceInv' /\ TxInv' /\ LoopInv' /\ RateInv' /\ LitInv'
      BY <1>2, <2>1, ServiceStays, TxStays, LoopStays, RateStays, LitStays, Zenon
    <2> QED BY <1>3, <2>1, <2>3, <2>4, Zenon DEF ControlsInv
  <1>9. ASSUME Control!ResetSettings
        PROVE  ControlsInv' /\ Control!LitOnRequest
    <2>1. /\ service' = service /\ tx' = tx /\ lb' = lb /\ ctlRate' = ctlRate /\ ctlRestore' = TRUE
          /\ ctlAsked' = ctlAsked
      BY <1>9, Zenon DEF Control!ResetSettings, Control!settings
    <2>2. /\ ctlRequests' \in 0 .. MaxControls /\ ctlRestored' = ctlRestored
          /\ ctlKind' = ctlKind /\ port' = port /\ hw' = hw /\ ctlPc' = ctlPc /\ loaded' = loaded
          /\ ctlRaced' \subseteq {"service", "tx", "lb", "rate"}
          /\ ("service" \in ctlRaced' <=> "service" \in ctlRaced) /\ ("tx" \in ctlRaced' <=> "tx" \in ctlRaced)
          /\ ("lb" \in ctlRaced' <=> "lb" \in ctlRaced) /\ ("rate" \in ctlRaced' <=> "rate" \in ctlRaced)
      <3>1. Control!Asked("restore")
        BY <1>9, Zenon DEF Control!ResetSettings
      <3> QED BY <3>1, AskedFor
    <2>3. Control!TypeOK'
      BY <1>1, <2>1, <2>2, ControlTyped, Zenon
    <2>4. ServiceInv' /\ TxInv' /\ LoopInv' /\ RateInv' /\ LitInv'
      BY <1>2, <2>1, <2>2, ServiceStays, TxStays, LoopStays, RateStays, LitStays, Zenon
    <2> QED BY <1>3, <2>2, <2>3, <2>4, Zenon DEF ControlsInv
  <1> QED BY <1>4, <1>5, <1>6, <1>7, <1>8, <1>9, Zenon DEF Control!Alarm

\* The defaults, and the turns of task_10 that find nothing to do.
LEMMA DefaultsStep ==
    ASSUME Control!ControlsAssumption, ControlsInv,
           \/ Control!SetDefault \/ Control!RaiseFlags \/ Control!QuietTurn \/ Control!Turn
           \/ Control!Skip("service", "lb", service.change)
           \/ Control!Skip("lb", "rate", lb.change)
           \/ Control!Skip("rate", "tx", ctlRate.change)
           \/ Control!Skip("tx", "idle", tx.change)
    PROVE  ControlsInv' /\ Control!LitOnRequest
  <1>1. /\ ctlKind \in CtlKinds /\ service \in ServiceStates /\ tx \in TxStates /\ lb \in LoopStates
        /\ ctlRate \in RateStates /\ port \in PortStates /\ hw \in HwStates
        /\ ctlRestore \in BOOLEAN /\ ctlAsked \in BOOLEAN /\ ctlRestored \in BOOLEAN
        /\ ctlPc \in ControlSteps /\ loaded \in Control!States
        /\ ctlRaced \subseteq {"service", "tx", "lb", "rate"} /\ ctlRequests \in 0 .. MaxControls
    BY ControlTyped, Zenon DEF ControlsInv
  <1>2. ServiceInv /\ TxInv /\ LoopInv /\ RateInv /\ LitInv
    BY Zenon DEF ControlsInv
  <1>3. CASE Control!SetDefault
    <2>1. /\ ctlPc = "idle" /\ ctlPc' = "flags" /\ ctlRestored' = TRUE
          /\ service' = [service EXCEPT !.next = "IS", !.current = "IS"]
          /\ tx' = [tx EXCEPT !.next = FALSE, !.current = FALSE]
          /\ lb' = [lb EXCEPT !.next = "NORMAL", !.current = "NORMAL"]
          /\ ctlRate' = [ctlRate EXCEPT !.next = "STM1", !.current = "STM1"]
          /\ port' = [port EXCEPT !.activity = TRUE]
          /\ UNCHANGED <<ctlKind, hw, ctlRestore, loaded, ctlRaced, ctlAsked, ctlRequests>>
      BY <1>3, Zenon DEF Control!SetDefault
    <2>2. ctlPc' \in ControlSteps /\ ctlRestored' \in BOOLEAN
      BY <2>1 DEF ControlSteps
    <2>3. /\ service' \in ServiceStates /\ service'.next = "IS" /\ service'.current = "IS"
          /\ tx' \in TxStates /\ lb' \in LoopStates /\ lb'.next = "NORMAL" /\ lb'.current = "NORMAL"
      BY <1>1, <2>1 DEF ServiceStates, TxStates, LoopStates, Control!States, Control!Modes
    <2>4. /\ ctlRate' \in RateStates /\ ctlRate'.next = "STM1" /\ "STM1" \in CtlRates
          /\ port' \in PortStates
      BY <1>1, <2>1, ControlSizes DEF RateStates, PortStates
    <2>5. Control!TypeOK'
      BY <1>1, <2>1, <2>2, <2>3, <2>4, ControlTyped, Zenon
    <2>6. ServiceInv'
      BY <1>1, <1>2, <2>1, <2>2, <2>3, <2>4 DEF ServiceInv, Done
    <2>7. TxInv'
      BY <1>1, <1>2, <2>1, <2>2, <2>3, <2>4 DEF TxInv, Done
    <2>8. LoopInv'
      BY <1>1, <1>2, <2>1, <2>2, <2>3, <2>4 DEF LoopInv, Done
    <2>9. RateInv'
      BY <1>1, <1>2, <2>1, <2>2, <2>3, <2>4 DEF RateInv, RateWindow, Done
    <2>10. LitInv'
      BY <1>1, <1>2, <2>1, <2>2, <2>3, <2>4 DEF LitInv
    <2>11. Control!LitOnRequest
      BY <2>1, <2>2, <2>3, <2>4, Zenon DEF Control!LitOnRequest
    <2> QED BY <2>5, <2>6, <2>7, <2>8, <2>9, <2>10, <2>11, Zenon DEF ControlsInv
  <1>4. CASE Control!RaiseFlags
    <2>1. /\ ctlPc = "flags" /\ ctlPc' = "idle" /\ ctlRestore' = FALSE
          /\ service' = [service EXCEPT !.change = TRUE]
          /\ tx' = [tx EXCEPT !.change = TRUE]
          /\ lb' = [lb EXCEPT !.change = TRUE]
          /\ ctlRate' = [ctlRate EXCEPT !.change = TRUE]
          /\ UNCHANGED <<ctlKind, port, hw, loaded, ctlRaced, ctlAsked, ctlRestored,
                        ctlRequests>>
      BY <1>4, Zenon DEF Control!RaiseFlags, Control!history
    <2>2. ctlPc' \in ControlSteps /\ ctlRestore' \in BOOLEAN
      BY <2>1 DEF ControlSteps
    <2>3. /\ service' \in ServiceStates /\ service'.change /\ service'.next = service.next
          /\ service'.current = service.current
          /\ tx' \in TxStates /\ tx'.change /\ tx'.next = tx.next
          /\ lb' \in LoopStates /\ lb'.change /\ lb'.next = lb.next /\ lb'.current = lb.current
          /\ ctlRate' \in RateStates /\ ctlRate'.change /\ ctlRate'.next = ctlRate.next
      BY <1>1, <2>1 DEF ServiceStates, TxStates, LoopStates, RateStates
    <2>4. Control!TypeOK'
      BY <1>1, <2>1, <2>2, <2>3, ControlTyped, Zenon
    <2>5. ServiceInv'
      BY <1>1, <1>2, <2>1, <2>2, <2>3 DEF ServiceInv, Done
    <2>6. TxInv'
      BY <1>1, <1>2, <2>1, <2>2, <2>3 DEF TxInv, Done
    <2>7. LoopInv'
      BY <1>1, <1>2, <2>1, <2>2, <2>3 DEF LoopInv, Done
    <2>8. RateInv'
      BY <1>1, <1>2, <2>1, <2>2, <2>3 DEF RateInv, RateWindow, Done
    <2>9. LitInv'
      BY <1>2, <2>1, <2>2, <2>3, LitStays, Zenon
    <2>10. Control!LitOnRequest
      BY <2>1, <2>2, <2>3, Zenon DEF Control!LitOnRequest
    <2> QED BY <2>4, <2>5, <2>6, <2>7, <2>8, <2>9, <2>10, Zenon DEF ControlsInv
  <1>5. CASE Control!QuietTurn
    <2>1. UNCHANGED <<ctlKind, service, tx, lb, ctlRate, port, hw, ctlRestore, ctlPc, loaded, ctlRaced,
                      ctlAsked, ctlRestored, ctlRequests>>
      BY <1>5, Zenon DEF Control!QuietTurn, Control!vars, Control!settings, Control!history
    <2>2. Control!TypeOK'
      BY <1>1, <2>1, ControlTyped, Zenon
    <2>3. ServiceInv' /\ TxInv' /\ LoopInv' /\ RateInv' /\ LitInv'
      BY <1>2, <2>1, ServiceStays, TxStays, LoopStays, RateStays, LitStays, Zenon
    <2>4. Control!LitOnRequest
      BY <2>1, Zenon DEF Control!LitOnRequest
    <2> QED BY <2>2, <2>3, <2>4, Zenon DEF ControlsInv
  <1>6. CASE Control!Turn
    <2>1. /\ ctlPc = "idle" /\ ctlPc' = "service"
          /\ UNCHANGED <<ctlKind, service, tx, lb, ctlRate, port, hw, ctlRestore, loaded,
                        ctlRaced, ctlAsked, ctlRestored, ctlRequests>>
      BY <1>6, Zenon DEF Control!Turn, Control!settings, Control!history
    <2>2. /\ ctlPc' \in ControlSteps
          /\ {ctlPc, ctlPc'} \cap {"flags", "switched", "copied"} = {}
          /\ {ctlPc, ctlPc'} \cap {"flags", "tx_equal"} = {}
          /\ {ctlPc, ctlPc'} \cap {"flags", "lb_rate", "lb_done"} = {}
          /\ {ctlPc, ctlPc'} \cap ({"flags", "lb_rate"} \cup RateWindow) = {}
      BY <2>1 DEF ControlSteps, RateWindow
    <2>3. Control!TypeOK'
      BY <1>1, <2>1, <2>2, ControlTyped, Zenon
    <2>4. ServiceInv' /\ TxInv' /\ LoopInv' /\ RateInv' /\ LitInv'
      BY <1>2, <2>1, <2>2, ServiceStays, TxStays, LoopStays, RateStays, LitStays, Zenon
    <2>5. Control!LitOnRequest
      BY <2>1, <2>2, Zenon DEF Control!LitOnRequest
    <2> QED BY <2>3, <2>4, <2>5, Zenon DEF ControlsInv
  <1>7. CASE Control!Skip("service", "lb", service.change)
    <2>1. /\ ctlPc = "service" /\ ctlPc' = "lb" /\ ~service.change
          /\ UNCHANGED <<ctlKind, service, tx, lb, ctlRate, port, hw, ctlRestore, loaded,
                        ctlRaced, ctlAsked, ctlRestored, ctlRequests>>
      BY <1>7, Zenon DEF Control!Skip, Control!Main, Control!settings, Control!history
    <2>2. /\ ctlPc' \in ControlSteps
          /\ {ctlPc, ctlPc'} \cap {"flags", "switched", "copied"} = {}
          /\ {ctlPc, ctlPc'} \cap {"flags", "tx_equal"} = {}
          /\ {ctlPc, ctlPc'} \cap {"flags", "lb_rate", "lb_done"} = {}
          /\ {ctlPc, ctlPc'} \cap ({"flags", "lb_rate"} \cup RateWindow) = {}
      BY <2>1 DEF ControlSteps, RateWindow
    <2>3. Control!TypeOK'
      BY <1>1, <2>1, <2>2, ControlTyped, Zenon
    <2>4. ServiceInv' /\ TxInv' /\ LoopInv' /\ RateInv' /\ LitInv'
      BY <1>2, <2>1, <2>2, ServiceStays, TxStays, LoopStays, RateStays, LitStays, Zenon
    <2>5. Control!LitOnRequest
      BY <2>1, <2>2, Zenon DEF Control!LitOnRequest
    <2> QED BY <2>3, <2>4, <2>5, Zenon DEF ControlsInv
  <1>8. CASE Control!Skip("lb", "rate", lb.change)
    <2>1. /\ ctlPc = "lb" /\ ctlPc' = "rate" /\ ~lb.change
          /\ UNCHANGED <<ctlKind, service, tx, lb, ctlRate, port, hw, ctlRestore, loaded,
                        ctlRaced, ctlAsked, ctlRestored, ctlRequests>>
      BY <1>8, Zenon DEF Control!Skip, Control!Main, Control!settings, Control!history
    <2>2. /\ ctlPc' \in ControlSteps
          /\ {ctlPc, ctlPc'} \cap {"flags", "switched", "copied"} = {}
          /\ {ctlPc, ctlPc'} \cap {"flags", "tx_equal"} = {}
          /\ {ctlPc, ctlPc'} \cap {"flags", "lb_rate", "lb_done"} = {}
          /\ {ctlPc, ctlPc'} \cap ({"flags", "lb_rate"} \cup RateWindow) = {}
      BY <2>1 DEF ControlSteps, RateWindow
    <2>3. Control!TypeOK'
      BY <1>1, <2>1, <2>2, ControlTyped, Zenon
    <2>4. ServiceInv' /\ TxInv' /\ LoopInv' /\ RateInv' /\ LitInv'
      BY <1>2, <2>1, <2>2, ServiceStays, TxStays, LoopStays, RateStays, LitStays, Zenon
    <2>5. Control!LitOnRequest
      BY <2>1, <2>2, Zenon DEF Control!LitOnRequest
    <2> QED BY <2>3, <2>4, <2>5, Zenon DEF ControlsInv
  <1>9. CASE Control!Skip("rate", "tx", ctlRate.change)
    <2>1. /\ ctlPc = "rate" /\ ctlPc' = "tx" /\ ~ctlRate.change
          /\ UNCHANGED <<ctlKind, service, tx, lb, ctlRate, port, hw, ctlRestore, loaded,
                        ctlRaced, ctlAsked, ctlRestored, ctlRequests>>
      BY <1>9, Zenon DEF Control!Skip, Control!Main, Control!settings, Control!history
    <2>2. /\ ctlPc' \in ControlSteps
          /\ {ctlPc, ctlPc'} \cap {"flags", "switched", "copied"} = {}
          /\ {ctlPc, ctlPc'} \cap {"flags", "tx_equal"} = {}
          /\ {ctlPc, ctlPc'} \cap {"flags", "lb_rate", "lb_done"} = {}
          /\ {ctlPc, ctlPc'} \cap ({"flags", "lb_rate"} \cup RateWindow) = {}
      BY <2>1 DEF ControlSteps, RateWindow
    <2>3. Control!TypeOK'
      BY <1>1, <2>1, <2>2, ControlTyped, Zenon
    <2>4. ServiceInv' /\ TxInv' /\ LoopInv' /\ RateInv' /\ LitInv'
      BY <1>2, <2>1, <2>2, ServiceStays, TxStays, LoopStays, RateStays, LitStays, Zenon
    <2>5. Control!LitOnRequest
      BY <2>1, <2>2, Zenon DEF Control!LitOnRequest
    <2> QED BY <2>3, <2>4, <2>5, Zenon DEF ControlsInv
  <1>10. CASE Control!Skip("tx", "idle", tx.change)
    <2>1. /\ ctlPc = "tx" /\ ctlPc' = "idle" /\ ~tx.change
          /\ UNCHANGED <<ctlKind, service, tx, lb, ctlRate, port, hw, ctlRestore, loaded,
                        ctlRaced, ctlAsked, ctlRestored, ctlRequests>>
      BY <1>10, Zenon DEF Control!Skip, Control!Main, Control!settings, Control!history
    <2>2. /\ ctlPc' \in ControlSteps
          /\ {ctlPc, ctlPc'} \cap {"flags", "switched", "copied"} = {}
          /\ {ctlPc, ctlPc'} \cap {"flags", "tx_equal"} = {}
          /\ {ctlPc, ctlPc'} \cap {"flags", "lb_rate", "lb_done"} = {}
          /\ {ctlPc, ctlPc'} \cap ({"flags", "lb_rate"} \cup RateWindow) = {}
      BY <2>1 DEF ControlSteps, RateWindow
    <2>3. Control!TypeOK'
      BY <1>1, <2>1, <2>2, ControlTyped, Zenon
    <2>4. ServiceInv' /\ TxInv' /\ LoopInv' /\ RateInv' /\ LitInv'
      BY <1>2, <2>1, <2>2, ServiceStays, TxStays, LoopStays, RateStays, LitStays, Zenon
    <2>5. Control!LitOnRequest
      BY <2>1, <2>2, Zenon DEF Control!LitOnRequest
    <2> QED BY <2>3, <2>4, <2>5, Zenon DEF ControlsInv
  <1> QED BY <1>3, <1>4, <1>5, <1>6, <1>7, <1>8, <1>9, <1>10, Zenon

\* The service state.
LEMMA ServiceStep ==
    ASSUME Control!ControlsAssumption, ControlsInv,
           \/ Control!ServiceSwitch \/ Control!ServiceLoad \/ Control!ServiceStore
    PROVE  ControlsInv' /\ Control!LitOnRequest
  <1>1. /\ ctlKind \in CtlKinds /\ service \in ServiceStates /\ tx \in TxStates /\ lb \in LoopStates
        /\ ctlRate \in RateStates /\ port \in PortStates /\ hw \in HwStates
        /\ ctlRestore \in BOOLEAN /\ ctlAsked \in BOOLEAN /\ ctlRestored \in BOOLEAN
        /\ ctlPc \in ControlSteps /\ loaded \in Control!States
        /\ ctlRaced \subseteq {"service", "tx", "lb", "rate"} /\ ctlRequests \in 0 .. MaxControls
    BY ControlTyped, Zenon DEF ControlsInv
  <1>2. ServiceInv /\ TxInv /\ LoopInv /\ RateInv /\ LitInv
    BY Zenon DEF ControlsInv
  <1>3. CASE Control!ServiceSwitch
    <2>1. /\ ctlPc = "service" /\ ctlPc' = "switched"
          /\ port' = [port EXCEPT !.activity = service.next = "IS"]
          /\ tx' = IF service.next = "OOS" THEN [tx EXCEPT !.next = TRUE, !.change = TRUE] ELSE tx
          /\ UNCHANGED <<ctlKind, service, lb, ctlRate, hw, ctlRestore, loaded, ctlRaced,
                        ctlAsked, ctlRestored, ctlRequests>>
      BY <1>3, Zenon DEF Control!ServiceSwitch, Control!Main, Control!settings, Control!history
    <2>2. /\ ctlPc' \in ControlSteps
          /\ {ctlPc, ctlPc'} \cap {"flags", "lb_rate", "lb_done"} = {}
          /\ {ctlPc, ctlPc'} \cap ({"flags", "lb_rate"} \cup RateWindow) = {}
      BY <2>1 DEF ControlSteps, RateWindow
    <2>3. /\ port' \in PortStates /\ port'.rate = port.rate /\ port'.pfc = port.pfc
          /\ port'.fecCapable = port.fecCapable /\ (port'.activity <=> service.next = "IS")
      BY <1>1, <2>1 DEF PortStates
    <2>4. /\ tx' \in TxStates /\ (tx' = tx \/ (tx'.next /\ tx'.change))
          /\ service.next = "OOS" => tx'.next
      BY <1>1, <2>1 DEF TxStates
    <2>5. Control!TypeOK'
      BY <1>1, <2>1, <2>2, <2>3, <2>4, ControlTyped, Zenon
    <2>6. ServiceInv'
      BY <1>1, <1>2, <2>1, <2>2, <2>3, <2>4 DEF ServiceInv, Done
    <2>7. TxInv'
      BY <1>1, <1>2, <2>1, <2>2, <2>3, <2>4 DEF TxInv, Done
    <2>8. LitInv'
      BY <1>1, <1>2, <2>1, <2>2, <2>3, <2>4 DEF LitInv
    <2>9. LoopInv' /\ RateInv'
      BY <1>2, <2>1, <2>2, <2>3, <2>4, LoopStays, RateStays, Zenon
    <2>10. Control!LitOnRequest
      BY <2>1, <2>2, <2>3, <2>4, Zenon DEF Control!LitOnRequest
    <2> QED BY <2>5, <2>6, <2>7, <2>8, <2>9, <2>10, Zenon DEF ControlsInv
  <1>4. CASE Control!ServiceLoad
    <2>1. /\ ctlPc = "switched" /\ ctlPc' = "copied" /\ loaded' = service.next
          /\ UNCHANGED <<ctlKind, service, tx, lb, ctlRate, port, hw, ctlRestore, ctlRaced,
                        ctlAsked, ctlRestored, ctlRequests>>
      BY <1>4, Zenon DEF Control!ServiceLoad, Control!Main, Control!settings, Control!history
    <2>2. /\ ctlPc' \in ControlSteps
          /\ {ctlPc, ctlPc'} \cap {"flags", "tx_equal"} = {}
          /\ {ctlPc, ctlPc'} \cap {"flags", "lb_rate", "lb_done"} = {}
          /\ {ctlPc, ctlPc'} \cap ({"flags", "lb_rate"} \cup RateWindow) = {}
      BY <2>1 DEF ControlSteps, RateWindow
    <2>3. loaded' \in Control!States
      BY <1>1, <2>1 DEF ServiceStates
    <2>4. Control!TypeOK'
      BY <1>1, <2>1, <2>2, <2>3, ControlTyped, Zenon
    <2>5. ServiceInv'
      BY <1>1, <1>2, <2>1, <2>2, <2>3 DEF ServiceInv, Done
    <2>6. TxInv' /\ LoopInv' /\ RateInv' /\ LitInv'
      BY <1>2, <2>1, <2>2, <2>3, TxStays, LoopStays, RateStays, LitStays, Zenon
    <2>7. Control!LitOnRequest
      BY <2>1, <2>2, <2>3, Zenon DEF Control!LitOnRequest
    <2> QED BY <2>4, <2>5, <2>6, <2>7, Zenon DEF ControlsInv
  <1>5. CASE Control!ServiceStore
    <2>1. /\ ctlPc = "copied" /\ ctlPc' = "lb" /\ loaded' = "IS"
          /\ service' = [service EXCEPT !.current = loaded, !.change = FALSE]
          /\ UNCHANGED <<ctlKind, tx, lb, ctlRate, port, hw, ctlRestore, ctlRaced, ctlAsked,
                        ctlRestored, ctlRequests>>
      BY <1>5, Zenon DEF Control!ServiceStore, Control!Main, Control!settings, Control!history
    <2>2. /\ ctlPc' \in ControlSteps
          /\ {ctlPc, ctlPc'} \cap {"flags", "tx_equal"} = {}
          /\ {ctlPc, ctlPc'} \cap {"flags", "lb_rate", "lb_done"} = {}
          /\ {ctlPc, ctlPc'} \cap ({"flags", "lb_rate"} \cup RateWindow) = {}
      BY <2>1 DEF ControlSteps, RateWindow
    <2>3. /\ loaded' \in Control!States /\ service' \in ServiceStates /\ service'.next = service.next
          /\ service'.current = loaded
      BY <1>1, <2>1 DEF ServiceStates, Control!States
    <2>4. Control!TypeOK'
      BY <1>1, <2>1, <2>2, <2>3, ControlTyped, Zenon
    <2>5. ServiceInv'
      BY <1>1, <1>2, <2>1, <2>2, <2>3 DEF ServiceInv, Done
    <2>6. TxInv' /\ LoopInv' /\ RateInv' /\ LitInv'
      BY <1>2, <2>1, <2>2, <2>3, TxStays, LoopStays, RateStays, LitStays, Zenon
    <2>7. Control!LitOnRequest
      BY <2>1, <2>2, <2>3, Zenon DEF Control!LitOnRequest
    <2> QED BY <2>4, <2>5, <2>6, <2>7, Zenon DEF ControlsInv
  <1> QED BY <1>3, <1>4, <1>5, Zenon

\* The loopback mode.
LEMMA LoopStep ==
    ASSUME Control!ControlsAssumption, ControlsInv,
           \/ Control!LoopSet \/ Control!LoopRate \/ Control!LoopDone
    PROVE  ControlsInv' /\ Control!LitOnRequest
  <1>1. /\ ctlKind \in CtlKinds /\ service \in ServiceStates /\ tx \in TxStates /\ lb \in LoopStates
        /\ ctlRate \in RateStates /\ port \in PortStates /\ hw \in HwStates
        /\ ctlRestore \in BOOLEAN /\ ctlAsked \in BOOLEAN /\ ctlRestored \in BOOLEAN
        /\ ctlPc \in ControlSteps /\ loaded \in Control!States
        /\ ctlRaced \subseteq {"service", "tx", "lb", "rate"} /\ ctlRequests \in 0 .. MaxControls
    BY ControlTyped, Zenon DEF ControlsInv
  <1>2. ServiceInv /\ TxInv /\ LoopInv /\ RateInv /\ LitInv
    BY Zenon DEF ControlsInv
  <1>3. CASE Control!LoopSet
    <2>1. /\ ctlPc = "lb" /\ ctlPc' = IF Control!LoopSetsRate(lb.next) THEN "lb_rate" ELSE "lb_done"
          /\ hw' = [hw EXCEPT !.loop = Control!LoopBit(lb.next, hw.loop)]
          /\ UNCHANGED <<ctlKind, service, tx, lb, ctlRate, port, ctlRestore, loaded, ctlRaced,
                        ctlAsked, ctlRestored, ctlRequests>>
      BY <1>3, Zenon DEF Control!LoopSet, Control!Main, Control!settings, Control!history
    <2>2. /\ ctlPc' \in ControlSteps
          /\ {ctlPc, ctlPc'} \cap {"flags", "switched", "copied"} = {}
          /\ {ctlPc, ctlPc'} \cap {"flags", "tx_equal"} = {}
      BY <2>1 DEF ControlSteps, RateWindow
    <2>3. /\ hw' \in HwStates /\ hw'.dark = hw.dark /\ hw'.rate = hw.rate
          /\ ~(ctlKind = "line" /\ lb.next = "CL") => hw'.loop = (lb.next = "LN")
      BY <1>1, <2>1 DEF HwStates, LoopStates, Control!Modes, Control!LoopBit
    <2>4. ctlPc' = "lb_rate" => ctlKind # "line"
      BY <2>1 DEF Control!LoopSetsRate
    <2>5. Control!TypeOK'
      BY <1>1, <2>1, <2>2, <2>3, <2>4, ControlTyped, Zenon
    <2>6. LoopInv'
      BY <1>1, <1>2, <2>1, <2>2, <2>3, <2>4 DEF LoopInv, Done
    <2>7. RateInv'
      BY <1>1, <1>2, <2>1, <2>2, <2>3, <2>4 DEF RateInv, RateWindow, Done
    <2>8. ServiceInv' /\ TxInv' /\ LitInv'
      BY <1>2, <2>1, <2>2, <2>3, <2>4, ServiceStays, TxStays, LitStays, Zenon
    <2>9. Control!LitOnRequest
      BY <2>1, <2>2, <2>3, <2>4, Zenon DEF Control!LitOnRequest
    <2> QED BY <2>5, <2>6, <2>7, <2>8, <2>9, Zenon DEF ControlsInv
  <1>4. CASE Control!LoopRate
    <2>1. /\ ctlPc = "lb_rate" /\ ctlPc' = "lb_done"
          /\ hw' = [hw EXCEPT !.rate = Control!top_level_rate(ctlRate.next)]
          /\ ctlRate' = [ctlRate EXCEPT !.current = ctlRate.next]
          /\ UNCHANGED <<ctlKind, service, tx, lb, port, ctlRestore, loaded, ctlRaced, ctlAsked,
                        ctlRestored, ctlRequests>>
      BY <1>4, Zenon DEF Control!LoopRate, Control!set_if_port_rate, Control!Main, Control!settings,
         Control!history
    <2>2. /\ ctlPc' \in ControlSteps
          /\ {ctlPc, ctlPc'} \cap {"flags", "switched", "copied"} = {}
          /\ {ctlPc, ctlPc'} \cap {"flags", "tx_equal"} = {}
      BY <2>1 DEF ControlSteps, RateWindow
    <2>3. /\ ctlRate' \in RateStates /\ ctlRate'.next = ctlRate.next /\ ctlRate'.current = ctlRate.next
          /\ ctlRate'.change = ctlRate.change
      BY <1>1, <1>2, <2>1 DEF RateStates, RateInv, RateWindow
    <2>4. /\ hw' \in HwStates /\ hw'.dark = hw.dark /\ hw'.loop = hw.loop /\ hw'.rate # 6
          /\ hw'.rate = Control!top_level_rate(ctlRate.next)
      BY <1>1, <2>1, ControlSizes DEF HwStates
    <2>5. Control!TypeOK'
      BY <1>1, <2>1, <2>2, <2>3, <2>4, ControlTyped, Zenon
    <2>6. LoopInv'
      BY <1>1, <1>2, <2>1, <2>2, <2>3, <2>4 DEF LoopInv, Done
    <2>7. RateInv'
      BY <1>1, <1>2, <2>1, <2>2, <2>3, <2>4 DEF RateInv, RateWindow, Done
    <2>8. ServiceInv' /\ TxInv' /\ LitInv'
      BY <1>2, <2>1, <2>2, <2>3, <2>4, ServiceStays, TxStays, LitStays, Zenon
    <2>9. Control!LitOnRequest
      BY <2>1, <2>2, <2>3, <2>4, Zenon DEF Control!LitOnRequest
    <2> QED BY <2>5, <2>6, <2>7, <2>8, <2>9, Zenon DEF ControlsInv
  <1>5. CASE Control!LoopDone
    <2>1. /\ ctlPc = "lb_done" /\ ctlPc' = "rate"
          /\ lb' = [lb EXCEPT !.current = lb.next, !.change = FALSE]
          /\ UNCHANGED <<ctlKind, service, tx, ctlRate, port, hw, ctlRestore, loaded, ctlRaced,
                        ctlAsked, ctlRestored, ctlRequests>>
      BY <1>5, Zenon DEF Control!LoopDone, Control!Main, Control!settings, Control!history
    <2>2. /\ ctlPc' \in ControlSteps
          /\ {ctlPc, ctlPc'} \cap {"flags", "switched", "copied"} = {}
          /\ {ctlPc, ctlPc'} \cap {"flags", "tx_equal"} = {}
          /\ {ctlPc, ctlPc'} \cap ({"flags", "lb_rate"} \cup RateWindow) = {}
      BY <2>1 DEF ControlSteps, RateWindow
    <2>3. /\ lb' \in LoopStates /\ lb'.next = lb.next /\ lb'.current = lb.next
      BY <1>1, <2>1 DEF LoopStates
    <2>4. Control!TypeOK'
      BY <1>1, <2>1, <2>2, <2>3, ControlTyped, Zenon
    <2>5. LoopInv'
      BY <1>1, <1>2, <2>1, <2>2, <2>3 DEF LoopInv, Done
    <2>6. ServiceInv' /\ TxInv' /\ RateInv' /\ LitInv'
      BY <1>2, <2>1, <2>2, <2>3, ServiceStays, TxStays, RateStays, LitStays, Zenon
    <2>7. Control!LitOnRequest
      BY <2>1, <2>2, <2>3, Zenon DEF Control!LitOnRequest
    <2> QED BY <2>4, <2>5, <2>6, <2>7, Zenon DEF ControlsInv
  <1> QED BY <1>3, <1>4, <1>5, Zenon

\* The rate, up to its being set.
LEMMA RateSetStep ==
    ASSUME Control!ControlsAssumption, ControlsInv,
           \/ Control!CancelRate \/ Control!RateSet
    PROVE  ControlsInv' /\ Control!LitOnRequest
  <1>1. /\ ctlKind \in CtlKinds /\ service \in ServiceStates /\ tx \in TxStates /\ lb \in LoopStates
        /\ ctlRate \in RateStates /\ port \in PortStates /\ hw \in HwStates
        /\ ctlRestore \in BOOLEAN /\ ctlAsked \in BOOLEAN /\ ctlRestored \in BOOLEAN
        /\ ctlPc \in ControlSteps /\ loaded \in Control!States
        /\ ctlRaced \subseteq {"service", "tx", "lb", "rate"} /\ ctlRequests \in 0 .. MaxControls
    BY ControlTyped, Zenon DEF ControlsInv
  <1>2. ServiceInv /\ TxInv /\ LoopInv /\ RateInv /\ LitInv
    BY Zenon DEF ControlsInv
  <1>3. CASE Control!CancelRate
    <2>1. /\ ctlPc = "rate" /\ ctlPc' = "tx" /\ ctlKind = "line"
          /\ ctlRate' = [ctlRate EXCEPT !.next = ctlRate.current, !.change = FALSE]
          /\ UNCHANGED <<ctlKind, service, tx, lb, port, hw, ctlRestore, loaded, ctlRaced,
                        ctlAsked, ctlRestored, ctlRequests>>
      BY <1>3, Zenon DEF Control!CancelRate, Control!Main, Control!settings, Control!history
    <2>2. /\ ctlPc' \in ControlSteps
          /\ {ctlPc, ctlPc'} \cap {"flags", "switched", "copied"} = {}
          /\ {ctlPc, ctlPc'} \cap {"flags", "tx_equal"} = {}
          /\ {ctlPc, ctlPc'} \cap {"flags", "lb_rate", "lb_done"} = {}
      BY <2>1 DEF ControlSteps, RateWindow
    <2>3. ctlRate' \in RateStates
      BY <1>1, <2>1 DEF RateStates
    <2>4. Control!TypeOK'
      BY <1>1, <2>1, <2>2, <2>3, ControlTyped, Zenon
    <2>5. RateInv'
      BY <1>1, <1>2, <2>1, <2>2, <2>3 DEF RateInv, RateWindow, Done
    <2>6. ServiceInv' /\ TxInv' /\ LoopInv' /\ LitInv'
      BY <1>2, <2>1, <2>2, <2>3, ServiceStays, TxStays, LoopStays, LitStays, Zenon
    <2>7. Control!LitOnRequest
      BY <2>1, <2>2, <2>3, Zenon DEF Control!LitOnRequest
    <2> QED BY <2>4, <2>5, <2>6, <2>7, Zenon DEF ControlsInv
  <1>4. CASE Control!RateSet
    <2>1. /\ ctlPc = "rate" /\ ctlPc' = "rate_read" /\ ctlRate.change /\ ctlKind # "line"
          /\ hw' = [hw EXCEPT !.rate = Control!top_level_rate(ctlRate.next)]
          /\ ctlRate' = [ctlRate EXCEPT !.current = ctlRate.next]
          /\ UNCHANGED <<ctlKind, service, tx, lb, port, ctlRestore, loaded, ctlRaced, ctlAsked,
                        ctlRestored, ctlRequests>>
      BY <1>4, Zenon DEF Control!RateSet, Control!set_if_port_rate, Control!Main, Control!settings,
         Control!history
    <2>2. /\ ctlPc' \in ControlSteps
          /\ {ctlPc, ctlPc'} \cap {"flags", "switched", "copied"} = {}
          /\ {ctlPc, ctlPc'} \cap {"flags", "tx_equal"} = {}
          /\ {ctlPc, ctlPc'} \cap {"flags", "lb_rate", "lb_done"} = {}
      BY <2>1 DEF ControlSteps, RateWindow
    <2>3. /\ ctlRate' \in RateStates /\ ctlRate'.next = ctlRate.next /\ ctlRate'.current = ctlRate.next
          /\ ctlRate'.change = ctlRate.change
      BY <1>1, <1>2, <2>1 DEF RateStates, RateInv, RateWindow
    <2>4. /\ hw' \in HwStates /\ hw'.dark = hw.dark /\ hw'.loop = hw.loop /\ hw'.rate # 6
          /\ hw'.rate = Control!top_level_rate(ctlRate.next)
      BY <1>1, <2>1, ControlSizes DEF HwStates
    <2>5. Control!TypeOK'
      BY <1>1, <2>1, <2>2, <2>3, <2>4, ControlTyped, Zenon
    <2>6. RateInv'
      BY <1>1, <1>2, <2>1, <2>2, <2>3, <2>4 DEF RateInv, RateWindow, Done
    <2>7. ServiceInv' /\ TxInv' /\ LoopInv' /\ LitInv'
      BY <1>2, <2>1, <2>2, <2>3, <2>4, ServiceStays, TxStays, LoopStays, LitStays, Zenon
    <2>8. Control!LitOnRequest
      BY <2>1, <2>2, <2>3, <2>4, Zenon DEF Control!LitOnRequest
    <2> QED BY <2>5, <2>6, <2>7, <2>8, Zenon DEF ControlsInv
  <1> QED BY <1>3, <1>4, Zenon

\* The transmitter.
LEMMA TxStep ==
    ASSUME Control!ControlsAssumption, ControlsInv,
           \/ Control!TxSet \/ Control!TxCheck \/ Control!TxClear
    PROVE  ControlsInv' /\ Control!LitOnRequest
  <1>1. /\ ctlKind \in CtlKinds /\ service \in ServiceStates /\ tx \in TxStates /\ lb \in LoopStates
        /\ ctlRate \in RateStates /\ port \in PortStates /\ hw \in HwStates
        /\ ctlRestore \in BOOLEAN /\ ctlAsked \in BOOLEAN /\ ctlRestored \in BOOLEAN
        /\ ctlPc \in ControlSteps /\ loaded \in Control!States
        /\ ctlRaced \subseteq {"service", "tx", "lb", "rate"} /\ ctlRequests \in 0 .. MaxControls
    BY ControlTyped, Zenon DEF ControlsInv
  <1>2. ServiceInv /\ TxInv /\ LoopInv /\ RateInv /\ LitInv
    BY Zenon DEF ControlsInv
  <1>3. CASE Control!TxSet
    <2>1. /\ ctlPc = "tx" /\ ctlPc' = "tx_check" /\ tx.change
          /\ hw' = [hw EXCEPT !.dark = tx.next]
          /\ UNCHANGED <<ctlKind, service, tx, lb, ctlRate, port, ctlRestore, loaded, ctlRaced,
                        ctlAsked, ctlRestored, ctlRequests>>
      BY <1>3, Zenon DEF Control!TxSet, Control!Main, Control!settings, Control!history
    <2>2. /\ ctlPc' \in ControlSteps
          /\ {ctlPc, ctlPc'} \cap {"flags", "switched", "copied"} = {}
          /\ {ctlPc, ctlPc'} \cap {"flags", "lb_rate", "lb_done"} = {}
          /\ {ctlPc, ctlPc'} \cap ({"flags", "lb_rate"} \cup RateWindow) = {}
      BY <2>1 DEF ControlSteps, RateWindow
    <2>3. /\ hw' \in HwStates /\ hw'.rate = hw.rate /\ hw'.loop = hw.loop /\ hw'.dark = tx.next
      BY <1>1, <2>1 DEF HwStates, TxStates
    <2>4. Control!TypeOK'
      BY <1>1, <2>1, <2>2, <2>3, ControlTyped, Zenon
    <2>5. TxInv'
      BY <1>1, <1>2, <2>1, <2>2, <2>3 DEF TxInv, Done
    <2>6. ServiceInv' /\ LoopInv' /\ RateInv' /\ LitInv'
      BY <1>2, <2>1, <2>2, <2>3, ServiceStays, LoopStays, RateStays, LitStays, Zenon
    <2>7. Control!LitOnRequest
      BY <1>1, <1>2, <2>1, <2>3 DEF LitInv, Control!LitOnRequest
    <2> QED BY <2>4, <2>5, <2>6, <2>7, Zenon DEF ControlsInv
  <1>4. CASE Control!TxCheck
    <2>1. /\ ctlPc = "tx_check" /\ ctlPc' = IF hw.dark = tx.next THEN "tx_equal" ELSE "idle"
          /\ tx' = [tx EXCEPT !.current = hw.dark]
          /\ UNCHANGED <<ctlKind, service, lb, ctlRate, port, hw, ctlRestore, loaded, ctlRaced,
                        ctlAsked, ctlRestored, ctlRequests>>
      BY <1>4, Zenon DEF Control!TxCheck, Control!Main, Control!settings, Control!history
    <2>2. /\ ctlPc' \in ControlSteps
          /\ {ctlPc, ctlPc'} \cap {"flags", "switched", "copied"} = {}
          /\ {ctlPc, ctlPc'} \cap {"flags", "lb_rate", "lb_done"} = {}
          /\ {ctlPc, ctlPc'} \cap ({"flags", "lb_rate"} \cup RateWindow) = {}
      BY <2>1 DEF ControlSteps, RateWindow
    <2>3. /\ tx' \in TxStates /\ tx'.next = tx.next /\ tx'.change = tx.change
      BY <1>1, <2>1 DEF TxStates, HwStates
    <2>4. Control!TypeOK'
      BY <1>1, <2>1, <2>2, <2>3, ControlTyped, Zenon
    <2>5. TxInv'
      BY <1>1, <1>2, <2>1, <2>2, <2>3 DEF TxInv, Done
    <2>6. ServiceInv' /\ LoopInv' /\ RateInv' /\ LitInv'
      BY <1>2, <2>1, <2>2, <2>3, ServiceStays, LoopStays, RateStays, LitStays, Zenon
    <2>7. Control!LitOnRequest
      BY <2>1, <2>2, <2>3, Zenon DEF Control!LitOnRequest
    <2> QED BY <2>4, <2>5, <2>6, <2>7, Zenon DEF ControlsInv
  <1>5. CASE Control!TxClear
    <2>1. /\ ctlPc = "tx_equal" /\ ctlPc' = "idle"
          /\ tx' = [tx EXCEPT !.change = FALSE]
          /\ UNCHANGED <<ctlKind, service, lb, ctlRate, port, hw, ctlRestore, loaded, ctlRaced,
                        ctlAsked, ctlRestored, ctlRequests>>
      BY <1>5, Zenon DEF Control!TxClear, Control!Main, Control!settings, Control!history
    <2>2. /\ ctlPc' \in ControlSteps
          /\ {ctlPc, ctlPc'} \cap {"flags", "switched", "copied"} = {}
          /\ {ctlPc, ctlPc'} \cap {"flags", "lb_rate", "lb_done"} = {}
          /\ {ctlPc, ctlPc'} \cap ({"flags", "lb_rate"} \cup RateWindow) = {}
      BY <2>1 DEF ControlSteps, RateWindow
    <2>3. /\ tx' \in TxStates /\ tx'.next = tx.next
      BY <1>1, <2>1 DEF TxStates
    <2>4. Control!TypeOK'
      BY <1>1, <2>1, <2>2, <2>3, ControlTyped, Zenon
    <2>5. TxInv'
      BY <1>1, <1>2, <2>1, <2>2, <2>3 DEF TxInv, Done
    <2>6. ServiceInv' /\ LoopInv' /\ RateInv' /\ LitInv'
      BY <1>2, <2>1, <2>2, <2>3, ServiceStays, LoopStays, RateStays, LitStays, Zenon
    <2>7. Control!LitOnRequest
      BY <2>1, <2>2, <2>3, Zenon DEF Control!LitOnRequest
    <2> QED BY <2>4, <2>5, <2>6, <2>7, Zenon DEF ControlsInv
  <1> QED BY <1>3, <1>4, <1>5, Zenon

\* What read_if_port_rate finds is a rate, and that of the hardware when it is in force.
LEMMA ReadBackIs ==
    ASSUME Control!ControlsAssumption
    PROVE  /\ Control!ReadBack \subseteq Control!AllRates
           /\ hw.rate = Control!top_level_rate(ctlRate.next) => Control!ReadBack # {}
  <1>1. Control!ReadBack \subseteq Control!AllRates
    BY DEF Control!ReadBack, Control!AllRates, Control!Ethernet
  <1>2. ASSUME hw.rate = Control!top_level_rate(ctlRate.next) PROVE Control!ReadBack # {}
    <2>1. Control!top_level_rate(ctlRate.next) = 0 => ctlRate.next \in Control!Ethernet
      BY DEF Control!top_level_rate, Control!Ethernet
    <2>2. Control!top_level_rate(ctlRate.next) \in 0 .. 5
      BY ControlSizes, Zenon
    <2> QED BY <1>2, <2>1, <2>2 DEF Control!ReadBack
  <1> QED BY <1>1, <1>2

LEMMA Capability ==
    ASSUME NEW p \in PortStates, NEW q, NEW a \in BOOLEAN, NEW b \in BOOLEAN,
           q = [p EXCEPT !.pfcCapable = a, !.fecCapable = b, !.pfc = a]
    PROVE  /\ q \in PortStates /\ q.activity = p.activity /\ q.rate = p.rate
           /\ q.pfc = a /\ q.fecCapable = b
  BY DEF PortStates

\* The rate from its being set to the lowering of its flag.
LEMMA RateReadStep ==
    ASSUME Control!ControlsAssumption, ControlsInv,
           Control!RateRead \/ Control!RateCheck \/ Control!RateClear
    PROVE  ControlsInv' /\ Control!LitOnRequest
  <1>1. /\ ctlKind \in CtlKinds /\ service \in ServiceStates /\ tx \in TxStates /\ lb \in LoopStates
        /\ ctlRate \in RateStates /\ port \in PortStates /\ hw \in HwStates
        /\ ctlRestore \in BOOLEAN /\ ctlAsked \in BOOLEAN /\ ctlRestored \in BOOLEAN
        /\ ctlPc \in ControlSteps /\ loaded \in Control!States
        /\ ctlRaced \subseteq {"service", "tx", "lb", "rate"} /\ ctlRequests \in 0 .. MaxControls
    BY ControlTyped, Zenon DEF ControlsInv
  <1>2. ServiceInv /\ TxInv /\ LoopInv /\ RateInv /\ LitInv
    BY Zenon DEF ControlsInv
  <1>3. CASE Control!RateRead
    <2>1. /\ ctlPc = "rate_read"
          /\ ctlPc' = IF Control!ReadBack = {} THEN "rate_clear" ELSE "rate_check"
          /\ UNCHANGED <<ctlKind, service, tx, lb, ctlRate, hw, ctlRestore, loaded, ctlRaced, ctlAsked,
                         ctlRestored, ctlRequests>>
      BY <1>3, Zenon DEF Control!RateRead, Control!Main, Control!settings, Control!history
    <2>2. PICK r \in Control!AllRates \cup {"OTU2"} : port' = [port EXCEPT !.rate = r]
      <3>1. CASE Control!ReadBack = {}
        BY <1>1, <1>3, <3>1 DEF Control!RateRead, PortStates
      <3>2. CASE Control!ReadBack # {}
        BY <1>3, <3>2, ReadBackIs DEF Control!RateRead
      <3> QED BY <3>1, <3>2
    <2>3. /\ ctlPc' \in ControlSteps
          /\ {ctlPc, ctlPc'} \cap {"flags", "switched", "copied"} = {}
          /\ {ctlPc, ctlPc'} \cap {"flags", "tx_equal"} = {}
          /\ {ctlPc, ctlPc'} \cap {"flags", "lb_rate", "lb_done"} = {}
      BY <2>1 DEF ControlSteps
    <2>4. port' \in PortStates /\ port'.activity = port.activity
      BY <1>1, <2>2 DEF PortStates
    <2>5. Control!TypeOK'
      BY <1>1, <2>1, <2>3, <2>4, ControlTyped, Zenon
    <2>6. ctlKind # "line" /\ "rate" \notin ctlRaced => ctlPc' = "rate_check"
      BY <1>2, <2>1, ReadBackIs DEF RateInv, RateWindow, Done
    <2>7. Control!top_level_rate(ctlRate.next)' = Control!top_level_rate(ctlRate.next)
      BY <2>1, Zenon DEF Control!top_level_rate
    <2>8. RateInv'
      BY <1>1, <1>2, <2>1, <2>6, <2>7 DEF RateInv, RateWindow, Done
    <2>9. ServiceInv' /\ TxInv' /\ LoopInv' /\ LitInv'
      BY <1>2, <2>1, <2>3, <2>4, ServiceStays, TxStays, LoopStays, LitStays, Zenon
    <2>10. Control!LitOnRequest
      BY <2>1, Zenon DEF Control!LitOnRequest
    <2> QED BY <2>5, <2>8, <2>9, <2>10, Zenon DEF ControlsInv
  <1>4. CASE Control!RateCheck
    <2>1. /\ ctlPc = "rate_check" /\ ctlPc' = "rate_clear"
          /\ UNCHANGED <<ctlKind, service, tx, lb, hw, ctlRestore, loaded, ctlRaced, ctlAsked,
                         ctlRestored, ctlRequests>>
      BY <1>4, Zenon DEF Control!RateCheck, Control!Main, Control!history
    <2>2. /\ port.rate = ctlRate.next =>
                 /\ ctlRate' = [ctlRate EXCEPT !.current = ctlRate.next, !.change = FALSE]
                 /\ port' = [port EXCEPT
                        !.pfcCapable = port.rate \in {"STM1", "STM4", "STM16", "OTU1"},
                        !.fecCapable = port.rate = "OTU1",
                        !.pfc = port.rate \in {"STM1", "STM4", "STM16", "OTU1"}]
          /\ port.rate # ctlRate.next =>
                 ctlRate' = ctlRate /\ port' = [port EXCEPT !.pfc = port.pfcCapable]
      BY <1>1, <1>4 DEF Control!RateCheck, Control!Capable, PortStates
    <2>3. /\ ctlPc' \in ControlSteps
          /\ {ctlPc, ctlPc'} \cap {"flags", "switched", "copied"} = {}
          /\ {ctlPc, ctlPc'} \cap {"flags", "tx_equal"} = {}
          /\ {ctlPc, ctlPc'} \cap {"flags", "lb_rate", "lb_done"} = {}
      BY <2>1 DEF ControlSteps
    <2>4. /\ port' \in PortStates /\ port'.activity = port.activity /\ port'.rate = port.rate
          /\ port.rate = ctlRate.next => CountsRate(port')
      <3>1. CASE port.rate = ctlRate.next
        <4> DEFINE a == port.rate \in {"STM1", "STM4", "STM16", "OTU1"}
                   b == port.rate = "OTU1"
        <4>1. port' = [port EXCEPT !.pfcCapable = a, !.fecCapable = b, !.pfc = a]
          BY <2>2, <3>1, Zenon
        <4>2. a \in BOOLEAN /\ b \in BOOLEAN
          OBVIOUS
        <4> HIDE DEF a, b
        <4>3. /\ port' \in PortStates /\ port'.activity = port.activity /\ port'.rate = port.rate
              /\ port'.pfc = a /\ port'.fecCapable = b
          BY <1>1, <4>1, <4>2, Capability, Zenon
        <4> QED BY <4>3, Zenon DEF CountsRate, a, b
      <3>2. CASE port.rate # ctlRate.next
        <4>1. port' = [port EXCEPT !.pfc = port.pfcCapable]
          BY <2>2, <3>2, Zenon
        <4> QED BY <1>1, <3>2, <4>1 DEF PortStates
      <3> QED BY <3>1, <3>2, Zenon
    <2>5. /\ ctlRate' \in RateStates /\ ctlRate'.next = ctlRate.next
          /\ ctlRate' # ctlRate => ctlRate'.current = ctlRate.next
      <3>1. ctlRate.next \in CtlRates \cup {"OTU2"}
        BY <1>2, <2>1, Zenon DEF RateInv, RateWindow
      <3> QED BY <1>1, <2>2, <3>1 DEF RateStates
    <2>6. Control!TypeOK'
      BY <1>1, <2>1, <2>3, <2>4, <2>5, ControlTyped, Zenon
    <2>7. Control!top_level_rate(ctlRate.next)' = Control!top_level_rate(ctlRate.next)
      BY <2>5, Zenon DEF Control!top_level_rate
    <2>8. RateInv'
      BY <1>1, <1>2, <2>1, <2>4, <2>5, <2>7 DEF RateInv, RateWindow, Done
    <2>9. ServiceInv' /\ TxInv' /\ LoopInv' /\ LitInv'
      BY <1>2, <2>1, <2>3, <2>4, ServiceStays, TxStays, LoopStays, LitStays, Zenon
    <2>10. Control!LitOnRequest
      BY <2>1, Zenon DEF Control!LitOnRequest
    <2> QED BY <2>6, <2>8, <2>9, <2>10, Zenon DEF ControlsInv
  <1>5. CASE Control!RateClear
    <2>1. /\ ctlPc = "rate_clear" /\ ctlPc' = "tx"
          /\ ctlRate' = [ctlRate EXCEPT !.change = FALSE]
          /\ UNCHANGED <<ctlKind, service, tx, lb, port, hw, ctlRestore, loaded, ctlRaced, ctlAsked,
                         ctlRestored, ctlRequests>>
      BY <1>5, Zenon DEF Control!RateClear, Control!Main, Control!history
    <2>2. /\ ctlPc' \in ControlSteps
          /\ {ctlPc, ctlPc'} \cap {"flags", "switched", "copied"} = {}
          /\ {ctlPc, ctlPc'} \cap {"flags", "tx_equal"} = {}
          /\ {ctlPc, ctlPc'} \cap {"flags", "lb_rate", "lb_done"} = {}
      BY <2>1 DEF ControlSteps
    <2>3. /\ ctlRate' \in RateStates /\ ctlRate'.next = ctlRate.next /\ ctlRate'.current = ctlRate.current
      BY <1>1, <2>1 DEF RateStates
    <2>4. Control!TypeOK'
      BY <1>1, <2>1, <2>2, <2>3, ControlTyped, Zenon
    <2>5. /\ Control!top_level_rate(ctlRate.next)' = Control!top_level_rate(ctlRate.next)
          /\ CountsRate(port)' = CountsRate(port)
      BY <2>1, <2>3, Zenon DEF Control!top_level_rate, CountsRate
    <2>6. RateInv'
      BY <1>1, <1>2, <2>1, <2>3, <2>5 DEF RateInv, RateWindow, Done
    <2>7. ServiceInv' /\ TxInv' /\ LoopInv' /\ LitInv'
      BY <1>2, <2>1, <2>2, ServiceStays, TxStays, LoopStays, LitStays, Zenon
    <2>8. Control!LitOnRequest
      BY <2>1, Zenon DEF Control!LitOnRequest
    <2> QED BY <2>4, <2>6, <2>7, <2>8, Zenon DEF ControlsInv
  <1> QED BY <1>3, <1>4, <1>5, Zenon

LEMMA ControlsNext ==
    ASSUME Control!ControlsAssumption, ControlsInv, Control!Next
    PROVE  ControlsInv' /\ Control!LitOnRequest
  BY AlarmStep, DefaultsStep, ServiceStep, LoopStep, RateSetStep, RateReadStep, TxStep, Zenon
  DEF Control!Next, Control!MainLoop, Control!task_10

LEMMA ControlsStay ==
    ASSUME ControlsInv, UNCHANGED controlsVars
    PROVE  ControlsInv' /\ Control!LitOnRequest
  <1>1. /\ ctlKind' = ctlKind /\ service' = service /\ tx' = tx /\ lb' = lb /\ ctlRate' = ctlRate
        /\ port' = port /\ hw' = hw /\ ctlRestore' = ctlRestore /\ ctlPc' = ctlPc /\ loaded' = loaded
        /\ ctlRaced' = ctlRaced /\ ctlAsked' = ctlAsked /\ ctlRestored' = ctlRestored
        /\ ctlRequests' = ctlRequests
    BY Zenon DEF controlsVars
  <1>2. Control!TypeOK'
    BY <1>1, ControlTyped, Zenon DEF ControlsInv
  <1>3. ServiceInv' /\ TxInv' /\ LoopInv' /\ RateInv' /\ LitInv'
    BY <1>1, ServiceStays, TxStays, LoopStays, RateStays, LitStays, Zenon DEF ControlsInv
  <1>4. Control!LitOnRequest
    BY <1>1, Zenon DEF Control!LitOnRequest
  <1> QED BY <1>2, <1>3, <1>4, Zenon DEF ControlsInv

\* What the invariant says of a unit with nothing left to do.
LEMMA ControlsAreReported ==
    ASSUME ControlsInv
    PROVE  Control!OutOfServiceIsDark /\ Control!HardwareFollows /\ Control!CountersFollowRate
  <1>1. ServiceInv /\ TxInv /\ LoopInv /\ RateInv
    BY Zenon DEF ControlsInv
  <1>2. Control!OutOfServiceIsDark
    BY <1>1 DEF Control!OutOfServiceIsDark, Control!Settled, Control!Changed, ServiceInv, TxInv, Done
  <1>3. Control!HardwareFollows
    BY <1>1
      DEF Control!HardwareFollows, Control!Settled, Control!Changed, Control!Reset, LoopInv, RateInv,
       Done
  <1>4. Control!CountersFollowRate
    BY <1>1 DEF Control!CountersFollowRate, Control!Settled, Control!Changed, RateInv, CountsRate, Done
  <1> QED BY <1>2, <1>3, <1>4

-----------------------------------------------------------------------------
(* The preferences: what the block holds *)

\* A setting, or an erased cell.
PrefDatum == PrefValues \cup {ErasedCell}

\* The settings d between two signatures, and the first n cells of that.
PrefFramed(d) == [k \in 1 .. PrefCells |-> IF k \in {1, PrefCells} THEN Signature ELSE d[k - 1]]

PrefUpto(d, n) == [k \in 1 .. PrefCells |-> IF k <= n THEN PrefFramed(d)[k] ELSE ErasedCell]

LEMMA PrefSizes ==
    ASSUME Kept!PreferencesAssumption
    PROVE  /\ Len(PrefList) \in Nat /\ PrefCells \in Nat /\ PrefCells = Len(PrefList) + 2
           /\ \A k \in Kept!Slots : k + 1 \in 1 .. PrefCells /\ k + 1 # 1 /\ k + 1 # PrefCells
                               /\ PrefList[k] \in PrefSettings
           /\ \A k \in 1 .. PrefCells : k # 1 /\ k # PrefCells => k - 1 \in Kept!Slots
           /\ 1 \in 1 .. PrefCells /\ PrefCells \in 1 .. PrefCells
           /\ Signature # ErasedCell /\ ErasedCell \in PrefHighBit /\ Signature \notin PrefHighBit
  BY DEF Kept!PreferencesAssumption, Kept!CfiFlashAssumption, Kept!Slots

LEMMA PrefNoneWritten ==
    ASSUME NEW d, Kept!PreferencesAssumption
    PROVE  PrefUpto(d, 0) = Kept!Erased
  BY DEF PrefUpto, Kept!Erased

LEMMA PrefOneMoreWritten ==
    ASSUME Kept!PreferencesAssumption, NEW d, NEW n \in 1 .. PrefCells
    PROVE  [PrefUpto(d, n - 1) EXCEPT ![n] = PrefFramed(d)[n]] = PrefUpto(d, n)
  <1>1. ASSUME NEW k \in 1 .. PrefCells
        PROVE  k <= n <=> k <= n - 1 \/ k = n
    BY PrefSizes
  <1> QED BY <1>1 DEF PrefUpto

LEMMA PrefAllWritten ==
    ASSUME Kept!PreferencesAssumption, NEW d
    PROVE  PrefUpto(d, PrefCells) = PrefFramed(d)
  BY PrefSizes DEF PrefUpto, PrefFramed

\* What is between two signatures is framed.
LEMMA PrefFramedAgain ==
    ASSUME Kept!PreferencesAssumption, NEW S, NEW c \in [1 .. PrefCells -> S],
           c[1] = Signature, c[PrefCells] = Signature
    PROVE  PrefFramed(Kept!Data(c)) = c
  <1>1. ASSUME NEW k \in 1 .. PrefCells
        PROVE  PrefFramed(Kept!Data(c))[k] = c[k]
    <2>1. CASE k \in {1, PrefCells}
      BY <2>1 DEF PrefFramed
    <2>2. CASE k \notin {1, PrefCells}
      <3>1. k - 1 \in Kept!Slots /\ (k - 1) + 1 = k
        BY <2>2, PrefSizes
      <3> QED BY <2>2, <3>1 DEF PrefFramed, Kept!Data
    <2> QED BY <2>1, <2>2
  <1> QED BY <1>1 DEF PrefFramed

LEMMA PrefDataOfFramed ==
    ASSUME Kept!PreferencesAssumption, NEW S, NEW d \in [Kept!Slots -> S]
    PROVE  Kept!Data(PrefFramed(d)) = d
  <1>1. ASSUME NEW k \in Kept!Slots
        PROVE  PrefFramed(d)[k + 1] = d[k]
    <2>1. k + 1 \in 1 .. PrefCells /\ k + 1 \notin {1, PrefCells} /\ (k + 1) - 1 = k
      BY PrefSizes DEF Kept!Slots
    <2> QED BY <2>1 DEF PrefFramed
  <1> QED BY <1>1 DEF Kept!Data

\* A block that was not written to its end is not valid.
LEMMA PrefValidIsAll ==
    ASSUME Kept!PreferencesAssumption, NEW d, NEW n \in 0 .. PrefCells, Kept!Valid(PrefUpto(d, n))
    PROVE  n = PrefCells
  <1>1. PrefUpto(d, n)[PrefCells] = Signature
    BY DEF Kept!Valid
  <1>2. PrefCells <= n
    BY <1>1, PrefSizes DEF PrefUpto
  <1> QED BY <1>2, PrefSizes

-----------------------------------------------------------------------------
(* The inductive invariant                                                 *)

PrefHeld == PrefValues \cup {Signature} \cup {ErasedCell}
DriverPc == {"idle", "erase", "erase_cycle", "erase_wait", "program", "data", "wait", "done"}
PrefWriters == [pc : DriverPc, i : 0 .. PrefCells, value : PrefHeld]
Chips == [op : {"ready", "erase", "program"}, armed : BOOLEAN]

\* Settings have no signature among them, in the flash or in the buffer.
PrefDataOK == \A k \in Kept!Slots : prefCells[k + 1] \in PrefDatum /\ prefSrc[k + 1] \in PrefDatum

\* task_2000 and the driver, the driver and the chip: the chip is busy only while the
\* driver waits for it.
PrefControlInv ==
    /\ prefWriter.pc = "idle" <=> prefPc # "write"
    /\ prefPc \in {"copy", "write"} => prefSrc[1] = Signature /\ prefSrc[PrefCells] = Signature
    /\ prefWriter.pc \notin {"erase_wait", "wait"} => prefChip.op = "ready"
    /\ prefWriter.pc = "erase_wait" => prefChip.op # "program"
    /\ prefWriter.pc = "wait" => prefChip.op # "erase"
    /\ prefWriter.pc \in {"program", "data", "wait"} => prefWriter.i \in 1 .. PrefCells

\* Since the last erase the cells were written from the front, and those of no
\* other save.
PrefBlockInv ==
    ~prefDisturbed =>
        /\ \E n \in 0 .. PrefCells : prefCells = PrefUpto(snapshot, n)
        /\ prefWriter.pc \in {"program", "data", "wait"} => snapshot = Kept!Data(prefSrc)
        /\ prefWriter.pc \in {"erase_cycle", "data"} => prefChip.armed = TRUE
        /\ prefWriter.pc = "erase_wait" /\ prefChip.op = "ready" =>
               prefCells = PrefUpto(snapshot, 0) /\ snapshot = Kept!Data(prefSrc)
        /\ prefWriter.pc \in {"program", "data"} => prefCells = PrefUpto(snapshot, prefWriter.i - 1)
        /\ prefWriter.pc \in {"data", "wait"} => prefWriter.value = prefSrc[prefWriter.i]
        /\ prefWriter.pc = "wait" => prefCells = PrefUpto(snapshot, prefWriter.i)
        /\ prefWriter.pc = "done" => prefCells = prefSrc

\* What was copied for a request is what was asked for, and comes into the flash.
PrefAsAsked(v, k) == v = ram[PrefList[k]] \/ PrefList[k] \in changed

PrefSaveInv ==
    prefAsked /\ ~prefRaced =>
        /\ prefPc = "copy" => \A k \in Kept!Slots : k <= copied => PrefAsAsked(prefSrc[k + 1], k)
        /\ prefPc = "write" => \A k \in Kept!Slots : PrefAsAsked(prefSrc[k + 1], k)
        /\ (prefPc = "clear" \/ (prefPc = "idle" /\ ~prefSave)) /\ ~prefDisturbed =>
               Kept!Valid(prefCells) /\ \A k \in Kept!Slots : PrefAsAsked(Kept!Data(prefCells)[k], k)

PreferencesInv == Kept!TypeOK /\ PrefDataOK /\ PrefControlInv /\ PrefBlockInv /\ PrefSaveInv

-----------------------------------------------------------------------------
(* The driver and the chip, field by field                                 *)

LEMMA WriterFields ==
    ASSUME NEW P, NEW I, NEW V, NEW w \in [pc : P, i : I, value : V],
           NEW p \in P, NEW j \in I, NEW v \in V
    PROVE  /\ [w EXCEPT !.pc = p] \in [pc : P, i : I, value : V]
           /\ [w EXCEPT !.pc = p].pc = p
           /\ [w EXCEPT !.pc = p].i = w.i
           /\ [w EXCEPT !.pc = p].value = w.value
           /\ [w EXCEPT !.pc = p, !.i = j] \in [pc : P, i : I, value : V]
           /\ [w EXCEPT !.pc = p, !.i = j].pc = p
           /\ [w EXCEPT !.pc = p, !.i = j].i = j
           /\ [w EXCEPT !.pc = p, !.i = j].value = w.value
           /\ [w EXCEPT !.pc = p, !.value = v] \in [pc : P, i : I, value : V]
           /\ [w EXCEPT !.pc = p, !.value = v].pc = p
           /\ [w EXCEPT !.pc = p, !.value = v].i = w.i
           /\ [w EXCEPT !.pc = p, !.value = v].value = v
  BY Zenon

LEMMA ChipFields ==
    ASSUME NEW O, NEW A, NEW c \in [op : O, armed : A], NEW o \in O, NEW a \in A
    PROVE  /\ [c EXCEPT !.op = o] \in [op : O, armed : A]
           /\ [c EXCEPT !.op = o].op = o
           /\ [c EXCEPT !.op = o].armed = c.armed
           /\ [c EXCEPT !.armed = a] \in [op : O, armed : A]
           /\ [c EXCEPT !.armed = a].op = c.op
           /\ [c EXCEPT !.armed = a].armed = a
  BY Zenon

LEMMA PrefFlashIs ==
    ASSUME Kept!TypeOK
    PROVE  /\ prefCells \in [1 .. PrefCells -> PrefHeld] /\ prefSrc \in [1 .. PrefCells -> PrefHeld]
           /\ prefWriter \in PrefWriters /\ prefChip \in Chips /\ prefDisturbed \in BOOLEAN
           /\ prefWriter.pc \in DriverPc /\ prefWriter.i \in 0 .. PrefCells /\ prefWriter.value \in PrefHeld
           /\ prefChip.op \in {"ready", "erase", "program"} /\ prefChip.armed \in BOOLEAN
  BY DEF Kept!TypeOK, Kept!FlashTypeOK, PrefWriters, DriverPc, Chips, PrefHeld

\* The unlock cycles arm a chip that is ready.
LEMMA PrefArmed ==
    ASSUME Kept!TypeOK, prefChip' = [prefChip EXCEPT !.armed = prefChip.op = "ready"]
    PROVE  /\ prefChip' \in Chips /\ prefChip'.op = prefChip.op
           /\ prefChip.op = "ready" => prefChip'.armed = TRUE
  <1> DEFINE O == {"ready", "erase", "program"}
             a == prefChip.op = "ready"
  <1>1. prefChip \in [op : O, armed : BOOLEAN] /\ a \in BOOLEAN /\ prefChip.op \in O
    BY PrefFlashIs DEF Chips
  <1> HIDE DEF O
  <1>2. [prefChip EXCEPT !.armed = a] \in [op : O, armed : BOOLEAN]
        /\ [prefChip EXCEPT !.armed = a].op = prefChip.op
        /\ [prefChip EXCEPT !.armed = a].armed = a
    BY <1>1, ChipFields, Zenon
  <1> QED BY <1>2, Zenon DEF O, Chips

-----------------------------------------------------------------------------
(* The driver.  Each step keeps what the flash and the buffer hold typed,  *)
(* the driver and the chip in step, and the block written from the front.  *)

PrefFlash == Kept!FlashTypeOK(PrefValues \cup {Signature}) /\ PrefDataOK /\ PrefControlInv /\ PrefBlockInv

LEMMA PrefEraseUnlockStep ==
    ASSUME Kept!PreferencesAssumption, PreferencesInv, prefPc' = prefPc, snapshot' = snapshot,
           Kept!EraseUnlock
    PROVE  PrefFlash'
  <1>1. prefWriter' \in PrefWriters /\ prefWriter'.pc = "erase_cycle"
    BY PrefFlashIs, WriterFields, Zenon DEF Kept!EraseUnlock, PrefWriters, DriverPc, PreferencesInv
  <1>2. prefChip' \in Chips /\ prefChip'.op = "ready" /\ prefChip'.armed = TRUE
    BY PrefArmed DEF Kept!EraseUnlock, PreferencesInv, PrefControlInv
  <1>3. Kept!FlashTypeOK(PrefValues \cup {Signature})'
    BY <1>1, <1>2, PrefFlashIs, Zenon
       DEF Kept!EraseUnlock, PreferencesInv, Kept!FlashTypeOK, PrefWriters, DriverPc, Chips, PrefHeld
  <1> QED BY <1>1, <1>2, <1>3, PrefFlashIs
    DEF Kept!EraseUnlock, PrefFlash, PreferencesInv, PrefDataOK, PrefControlInv, PrefBlockInv

LEMMA PrefEraseCycleStep ==
    ASSUME Kept!PreferencesAssumption, PreferencesInv, prefPc' = prefPc, snapshot' = snapshot,
           Kept!EraseCycle
    PROVE  PrefFlash'
  <1>1. prefWriter' \in PrefWriters /\ prefWriter'.pc = "erase_wait"
    BY PrefFlashIs, WriterFields, Zenon DEF Kept!EraseCycle, PrefWriters, DriverPc, PreferencesInv
  <1>2. /\ prefChip' \in Chips /\ prefChip'.op \in {"ready", "erase"}
        /\ prefChip.armed = TRUE => prefChip'.op = "erase"
    BY PrefFlashIs DEF Kept!EraseCycle, PreferencesInv, PrefControlInv, Chips
  <1>3. Kept!FlashTypeOK(PrefValues \cup {Signature})'
    BY <1>1, <1>2, PrefFlashIs, Zenon
       DEF Kept!EraseCycle, PreferencesInv, Kept!FlashTypeOK, PrefWriters, DriverPc, Chips, PrefHeld
  <1> QED BY <1>1, <1>2, <1>3, PrefFlashIs
    DEF Kept!EraseCycle, PrefFlash, PreferencesInv, PrefDataOK, PrefControlInv, PrefBlockInv

LEMMA PrefEraseWaitStep ==
    ASSUME Kept!PreferencesAssumption, PreferencesInv, prefPc' = prefPc, snapshot' = snapshot,
           Kept!EraseWait
    PROVE  PrefFlash'
  <1>1. /\ prefWriter' \in PrefWriters
        /\ prefCells[1] \in PrefHighBit => prefWriter'.pc = "program" /\ prefWriter'.i = 1
        /\ prefCells[1] \notin PrefHighBit => prefWriter'.pc = "done"
    <2>1. 1 \in 0 .. PrefCells
      BY PrefSizes
    <2> QED BY <2>1, PrefFlashIs, WriterFields, Zenon
      DEF Kept!EraseWait, PrefWriters, DriverPc, PreferencesInv
  <1>2. Kept!FlashTypeOK(PrefValues \cup {Signature})'
    BY <1>1, PrefFlashIs, Zenon
       DEF Kept!EraseWait, PreferencesInv, Kept!FlashTypeOK, PrefWriters, DriverPc, Chips, PrefHeld
  <1>3. ASSUME ~prefDisturbed
        PROVE  /\ prefCells = PrefUpto(snapshot, 0) /\ snapshot = Kept!Data(prefSrc)
               /\ prefCells[1] \in PrefHighBit
    <2>1. prefCells = PrefUpto(snapshot, 0) /\ snapshot = Kept!Data(prefSrc)
      BY <1>3 DEF Kept!EraseWait, PreferencesInv, PrefBlockInv
    <2>2. prefCells[1] = ErasedCell
      BY <2>1, PrefSizes DEF PrefUpto
    <2> QED BY <2>1, <2>2, PrefSizes
  <1>4. PrefBlockInv'
    BY <1>1, <1>3, PrefFlashIs DEF Kept!EraseWait, PrefBlockInv, PreferencesInv
  <1> QED BY <1>1, <1>2, <1>4, PrefSizes, PrefFlashIs
    DEF Kept!EraseWait, PrefFlash, PreferencesInv, PrefDataOK, PrefControlInv

LEMMA PrefUnlockStep ==
    ASSUME Kept!PreferencesAssumption, PreferencesInv, prefPc' = prefPc, snapshot' = snapshot,
           Kept!Unlock
    PROVE  PrefFlash'
  <1>1. /\ prefWriter' \in PrefWriters /\ prefWriter'.pc = "data"
        /\ prefWriter'.i = prefWriter.i /\ prefWriter'.value = prefSrc[prefWriter.i]
    <2>1. prefSrc[prefWriter.i] \in PrefHeld
      BY PrefFlashIs DEF Kept!Unlock, PreferencesInv, PrefControlInv
    <2> QED BY <2>1, PrefFlashIs, WriterFields, Zenon
      DEF Kept!Unlock, PrefWriters, DriverPc, PreferencesInv
  <1>2. prefChip' \in Chips /\ prefChip'.op = "ready" /\ prefChip'.armed = TRUE
    BY PrefArmed DEF Kept!Unlock, PreferencesInv, PrefControlInv
  <1>3. Kept!FlashTypeOK(PrefValues \cup {Signature})'
    BY <1>1, <1>2, PrefFlashIs, Zenon
       DEF Kept!Unlock, PreferencesInv, Kept!FlashTypeOK, PrefWriters, DriverPc, Chips, PrefHeld
  <1> QED BY <1>1, <1>2, <1>3, PrefFlashIs
    DEF Kept!Unlock, PrefFlash, PreferencesInv, PrefDataOK, PrefControlInv, PrefBlockInv

LEMMA PrefProgramStep ==
    ASSUME Kept!PreferencesAssumption, PreferencesInv, prefPc' = prefPc, snapshot' = snapshot,
           prefPc = "write", Kept!Program
    PROVE  PrefFlash'
  <1>1. prefWriter' \in PrefWriters /\ prefWriter'.pc = "wait" /\ prefWriter'.i = prefWriter.i
        /\ prefWriter'.value = prefWriter.value
    BY PrefFlashIs, WriterFields, Zenon DEF Kept!Program, PrefWriters, DriverPc, PreferencesInv
  <1>2. prefChip' \in Chips /\ prefChip'.op \in {"ready", "program"}
    BY PrefFlashIs DEF Kept!Program, PreferencesInv, PrefControlInv, Chips
  <1>3. prefWriter.i \in 1 .. PrefCells /\ prefSrc[prefWriter.i] \in PrefHeld
    BY PrefFlashIs DEF Kept!Program, PreferencesInv, PrefControlInv
  <1>4. prefCells' \in [1 .. PrefCells -> PrefHeld]
    BY <1>3, PrefFlashIs DEF Kept!Program, PreferencesInv
  <1>5. Kept!FlashTypeOK(PrefValues \cup {Signature})'
    BY <1>1, <1>2, <1>4, PrefFlashIs, Zenon
       DEF Kept!Program, PreferencesInv, Kept!FlashTypeOK, PrefWriters, DriverPc, Chips, PrefHeld
  <1>6. PrefDataOK'
    <2>1. ASSUME NEW k \in Kept!Slots PROVE prefCells'[k + 1] \in PrefDatum
      BY <1>3, PrefFlashIs, PrefSizes DEF Kept!Program, PreferencesInv, PrefDataOK
    <2> QED BY <2>1 DEF Kept!Program, PreferencesInv, PrefDataOK
  <1>7. ASSUME ~prefDisturbed PROVE prefCells' = PrefUpto(snapshot, prefWriter.i)
    <2>1. /\ prefCells = PrefUpto(snapshot, prefWriter.i - 1) /\ snapshot = Kept!Data(prefSrc)
          /\ prefChip.armed = TRUE
      BY <1>7 DEF Kept!Program, PreferencesInv, PrefBlockInv
    <2>2. PrefFramed(snapshot) = prefSrc
      BY <2>1, PrefFramedAgain, PrefFlashIs DEF PreferencesInv, PrefControlInv
    <2> QED BY <1>3, <2>1, <2>2, PrefOneMoreWritten DEF Kept!Program
  <1>8. PrefBlockInv'
    BY <1>1, <1>3, <1>7 DEF Kept!Program, PreferencesInv, PrefBlockInv
  <1> QED BY <1>1, <1>2, <1>3, <1>5, <1>6, <1>8
    DEF Kept!Program, PrefFlash, PreferencesInv, PrefControlInv

LEMMA PrefWaitStep ==
    ASSUME Kept!PreferencesAssumption, PreferencesInv, prefPc' = prefPc, snapshot' = snapshot,
           prefPc = "write", Kept!Wait
    PROVE  PrefFlash'
  <1>1. prefWriter.i \in 1 .. PrefCells /\ (prefWriter.i < PrefCells => prefWriter.i + 1 \in 0 .. PrefCells)
    BY PrefSizes DEF Kept!Wait, PreferencesInv, PrefControlInv
  <1>2. /\ prefWriter' \in PrefWriters
        /\ \/ prefWriter.i < PrefCells /\ prefWriter'.pc = "program" /\ prefWriter'.i = prefWriter.i + 1
           \/ /\ prefWriter'.pc = "done"
              /\ prefWriter.i < PrefCells =>
                     ~((prefCells[prefWriter.i] \in PrefHighBit) = (prefWriter.value \in PrefHighBit))
    BY <1>1, PrefFlashIs, WriterFields, Zenon DEF Kept!Wait, PrefWriters, DriverPc, PreferencesInv
  <1>3. Kept!FlashTypeOK(PrefValues \cup {Signature})'
    BY <1>2, PrefFlashIs, Zenon
       DEF Kept!Wait, PreferencesInv, Kept!FlashTypeOK, PrefWriters, DriverPc, Chips, PrefHeld
  <1>4. ASSUME ~prefDisturbed
        PROVE  /\ prefCells = PrefUpto(snapshot, prefWriter.i) /\ snapshot = Kept!Data(prefSrc)
               /\ prefWriter'.pc = "done" => prefCells = prefSrc
    <2>1. /\ prefCells = PrefUpto(snapshot, prefWriter.i) /\ snapshot = Kept!Data(prefSrc)
          /\ prefWriter.value = prefSrc[prefWriter.i]
      BY <1>4 DEF Kept!Wait, PreferencesInv, PrefBlockInv
    <2>2. PrefFramed(snapshot) = prefSrc
      BY <2>1, PrefFramedAgain, PrefFlashIs DEF PreferencesInv, PrefControlInv
    <2>3. prefCells[prefWriter.i] = prefSrc[prefWriter.i]
      BY <1>1, <2>1, <2>2, PrefSizes DEF PrefUpto
    <2>4. ASSUME prefWriter'.pc = "done" PROVE ~(prefWriter.i < PrefCells)
      BY <1>2, <2>1, <2>3, <2>4
    <2>5. ASSUME prefWriter'.pc = "done" PROVE prefCells = prefSrc
      BY <1>1, <2>1, <2>2, <2>4, <2>5, PrefAllWritten, PrefSizes
    <2> QED BY <2>1, <2>5
  <1>5. PrefBlockInv'
    <2>1. prefWriter.i + 1 - 1 = prefWriter.i
      BY <1>1
    <2> QED BY <1>1, <1>2, <1>4, <2>1 DEF Kept!Wait, PreferencesInv, PrefBlockInv
  <1> QED BY <1>1, <1>2, <1>3, <1>5 DEF Kept!Wait, PrefFlash, PreferencesInv, PrefDataOK, PrefControlInv

-----------------------------------------------------------------------------
(* The chip, the alarm's use of it, and the power                          *)

LEMMA PrefDataType ==
    ASSUME NEW c, \A k \in Kept!Slots : c[k + 1] \in PrefDatum
    PROVE  Kept!Data(c) \in [Kept!Slots -> PrefDatum]
  BY DEF Kept!Data

LEMMA PrefSnapshotType ==
    ASSUME PreferencesInv
    PROVE  Kept!ErasedFor \in [Kept!Slots -> PrefDatum]
  BY PrefDataType DEF PreferencesInv, PrefDataOK, Kept!TypeOK, Kept!ErasedFor, PrefDatum

LEMMA PrefCompletedType ==
    ASSUME Kept!PreferencesAssumption, PreferencesInv
    PROVE  /\ Kept!Completed \in [1 .. PrefCells -> PrefHeld]
           /\ \A k \in Kept!Slots : Kept!Completed[k + 1] \in PrefDatum
  BY PrefFlashIs, PrefSizes
    DEF PreferencesInv, PrefDataOK, Kept!Completed, Kept!Erased, PrefDatum, PrefHeld

LEMMA PrefReadyType == Kept!Ready \in Chips /\ Kept!Ready.op = "ready"
  BY DEF Kept!Ready, Chips

LEMMA PrefIdleType ==
    ASSUME Kept!PreferencesAssumption
    PROVE  Kept!Idle \in PrefWriters /\ Kept!Idle.pc = "idle"
  BY PrefSizes DEF Kept!Idle, PrefWriters, DriverPc, PrefHeld

LEMMA PrefChipStep ==
    ASSUME Kept!PreferencesAssumption, PreferencesInv, prefPc' = prefPc, Kept!Chip
    PROVE  PrefFlash'
  <1>1. prefChip' \in Chips /\ prefChip'.op = "ready" /\ prefChip'.armed = prefChip.armed
    BY PrefFlashIs, ChipFields, Zenon DEF Kept!Chip, Kept!ChipDone, Chips, PreferencesInv
  <1>2. prefDisturbed' \in BOOLEAN /\ (~prefDisturbed' => ~prefDisturbed \/ prefChip.op = "erase")
    BY PrefFlashIs DEF Kept!Chip, Kept!ChipDone, PreferencesInv
  <1>3. prefCells' = Kept!Completed /\ snapshot' = Kept!ErasedFor /\ UNCHANGED <<prefSrc, prefWriter>>
    BY DEF Kept!Chip, Kept!ChipDone
  <1>4. Kept!FlashTypeOK(PrefValues \cup {Signature})'
    BY <1>1, <1>2, <1>3, PrefFlashIs, PrefCompletedType, Zenon
       DEF PreferencesInv, Kept!FlashTypeOK, PrefWriters, DriverPc, Chips, PrefHeld
  <1>5. PrefDataOK' /\ PrefControlInv'
    BY <1>1, <1>3, PrefCompletedType DEF PreferencesInv, PrefDataOK, PrefControlInv
  <1>6. PrefBlockInv'
    <2>1. CASE prefChip.op = "erase"
      <3>1. prefWriter.pc = "erase_wait"
        BY <2>1 DEF PreferencesInv, PrefControlInv
      <3>2. snapshot' = Kept!Data(prefSrc) /\ prefCells' = PrefUpto(snapshot', 0)
        BY <1>3, <2>1, PrefNoneWritten DEF Kept!ErasedFor, Kept!Completed
      <3>3. \E n \in 0 .. PrefCells : prefCells' = PrefUpto(snapshot', n)
        BY <3>2, PrefSizes
      <3> QED BY <1>3, <3>1, <3>2, <3>3 DEF PrefBlockInv
    <2>2. CASE prefChip.op # "erase"
      <3>1. prefCells' = prefCells /\ snapshot' = snapshot /\ (~prefDisturbed' => ~prefDisturbed)
        BY <1>2, <1>3, <2>2 DEF Kept!ErasedFor, Kept!Completed
      <3>2. prefWriter.pc = "wait"
        BY <2>2, PrefFlashIs DEF Kept!Chip, Kept!ChipDone, PreferencesInv, PrefControlInv
      <3> QED BY <1>3, <3>1, <3>2 DEF PreferencesInv, PrefBlockInv
    <2> QED BY <2>1, <2>2
  <1> QED BY <1>4, <1>5, <1>6 DEF PrefFlash

LEMMA PrefUploadStep ==
    ASSUME Kept!PreferencesAssumption, PreferencesInv, Kept!Upload
    PROVE  PrefFlash'
  <1>1. prefChip' \in Chips /\ prefChip'.op = "ready"
    BY PrefReadyType DEF Kept!Upload, Kept!ForeignCommand
  <1>2. prefDisturbed' \in BOOLEAN /\ (~prefDisturbed' => ~prefDisturbed /\ prefWriter.pc = "idle")
    BY PrefFlashIs DEF Kept!Upload, Kept!ForeignCommand, PreferencesInv
  <1>3. prefCells' = Kept!Completed /\ snapshot' = Kept!ErasedFor /\ UNCHANGED <<prefSrc, prefWriter, prefPc>>
    BY DEF Kept!Upload, Kept!ForeignCommand
  <1>4. Kept!FlashTypeOK(PrefValues \cup {Signature})'
    BY <1>1, <1>2, <1>3, PrefFlashIs, PrefCompletedType, Zenon
       DEF PreferencesInv, Kept!FlashTypeOK, PrefWriters, DriverPc, Chips, PrefHeld
  <1>5. PrefDataOK' /\ PrefControlInv'
    BY <1>1, <1>3, PrefCompletedType DEF PreferencesInv, PrefDataOK, PrefControlInv
  <1>6. ~prefDisturbed' => prefCells' = prefCells /\ snapshot' = snapshot
    BY <1>2, <1>3 DEF PreferencesInv, PrefControlInv, Kept!ErasedFor, Kept!Completed
  <1>7. PrefBlockInv'
    BY <1>2, <1>3, <1>6 DEF PreferencesInv, PrefBlockInv
  <1> QED BY <1>4, <1>5, <1>7 DEF PrefFlash

LEMMA PrefLossStep ==
    ASSUME Kept!PreferencesAssumption, PreferencesInv, Kept!PowerFailure
    PROVE  PrefFlash'
  <1>1. prefChip' \in Chips /\ prefChip'.op = "ready" /\ prefWriter' \in PrefWriters /\ prefWriter'.pc = "idle"
    BY PrefReadyType, PrefIdleType DEF Kept!PowerFailure, Kept!FlashLoss
  <1>2. prefDisturbed' \in BOOLEAN /\ (~prefDisturbed' => ~prefDisturbed /\ prefChip.op # "erase")
    BY PrefFlashIs DEF Kept!PowerFailure, Kept!FlashLoss, PreferencesInv
  <1>3. prefSrc' \in [1 .. PrefCells -> PrefHeld] /\ \A k \in Kept!Slots : prefSrc'[k + 1] \in PrefDatum
    BY PrefSizes DEF Kept!PowerFailure, Kept!Erased, PrefHeld, PrefDatum
  <1>4. /\ prefCells' \in [1 .. PrefCells -> PrefHeld] /\ \A k \in Kept!Slots : prefCells'[k + 1] \in PrefDatum
        /\ prefChip.op # "erase" => prefCells' = prefCells
    <2>1. CASE prefChip.op # "erase"
      BY <2>1, PrefFlashIs DEF Kept!PowerFailure, Kept!FlashLoss, PreferencesInv, PrefDataOK
    <2>2. CASE prefChip.op = "erase"
      <3>1. PICK S \in SUBSET (1 .. PrefCells) :
                prefCells' = [k \in 1 .. PrefCells |-> IF k \in S THEN ErasedCell ELSE prefCells[k]]
        BY <2>2 DEF Kept!PowerFailure, Kept!FlashLoss
      <3> QED BY <2>2, <3>1, PrefFlashIs, PrefSizes DEF PreferencesInv, PrefDataOK, PrefHeld, PrefDatum
    <2> QED BY <2>1, <2>2
  <1>5. Kept!FlashTypeOK(PrefValues \cup {Signature})'
    BY <1>1, <1>2, <1>3, <1>4, Zenon DEF Kept!FlashTypeOK, PrefWriters, DriverPc, Chips, PrefHeld
  <1>6. PrefDataOK' /\ PrefControlInv'
    BY <1>1, <1>3, <1>4 DEF Kept!PowerFailure, PrefDataOK, PrefControlInv
  <1>7. PrefBlockInv'
    BY <1>1, <1>2, <1>4 DEF Kept!PowerFailure, PreferencesInv, PrefBlockInv
  <1> QED BY <1>5, <1>6, <1>7 DEF PrefFlash

\* The last place of a setting in the list.
LEMMA LastPlace ==
    ASSUME NEW N \in Nat, NEW S \in SUBSET (1 .. N), S # {}
    PROVE  \E k \in S : \A l \in S : l <= k
  <1> DEFINE T == {N - k : k \in S}
  <1>1. T \subseteq Nat /\ T # {}
    <2>1. \A k \in S : N - k \in Nat
      OBVIOUS
    <2>2. PICK k \in S : TRUE
      OBVIOUS
    <2>3. N - k \in T
      OBVIOUS
    <2> QED BY <2>1, <2>3
  <1>2. PICK x \in T : \A y \in T : <<y, x>> \notin OpToRel(<, Nat)
    BY <1>1, NatLessThanWellFounded, WFMin
  <1>3. \A y \in T : ~(y < x)
    BY <1>1, <1>2 DEF OpToRel
  <1>4. PICK k \in S : x = N - k
    OBVIOUS
  <1>5. ASSUME NEW l \in S PROVE l <= k
    <2>1. N - l \in T /\ l \in Nat /\ k \in Nat /\ l <= N /\ k <= N
      OBVIOUS
    <2>2. ~(N - l < N - k)
      BY <1>3, <1>4, <2>1
    <2> QED BY <2>1, <2>2
  <1> QED BY <1>5

LEMMA PrefRestoredType ==
    ASSUME Kept!PreferencesAssumption, NEW c, \A k \in Kept!Slots : c[k + 1] \in PrefDatum
    PROVE  Kept!Restored(c) \in [PrefSettings -> PrefDatum]
  <1>1. PrefDefault \in PrefDatum
    BY DEF Kept!PreferencesAssumption, PrefDatum
  <1>2. ASSUME NEW f \in PrefSettings, NEW S, S = {k \in Kept!Slots : PrefList[k] = f}, S # {}
        PROVE  Kept!Data(c)[CHOOSE k \in S : \A l \in S : l <= k] \in PrefDatum
    <2>1. \E k \in S : \A l \in S : l <= k
      BY <1>2, PrefSizes, LastPlace DEF Kept!Slots
    <2>2. (CHOOSE k \in S : \A l \in S : l <= k) \in Kept!Slots
      BY <1>2, <2>1
    <2> QED BY <2>2, PrefDataType
  <1> QED BY <1>1, <1>2 DEF Kept!Restored

-----------------------------------------------------------------------------
(* The steps                                                               *)

PrefRestOK ==
    /\ ram \in [PrefSettings -> PrefDatum]
    /\ prefSave \in BOOLEAN /\ prefAsked \in BOOLEAN /\ prefRaced \in BOOLEAN
    /\ prefPc \in {"idle", "copy", "write", "clear"}
    /\ copied \in 0 .. Len(PrefList)
    /\ changed \subseteq PrefSettings
    /\ snapshot \in [Kept!Slots -> PrefDatum]
    /\ prefEvents \in 0 .. MaxCommits

LEMMA PrefParts == PreferencesInv <=> PrefFlash /\ PrefRestOK /\ PrefSaveInv
  BY DEF PreferencesInv, PrefFlash, PrefRestOK, Kept!TypeOK, PrefDatum

LEMMA PrefPartsNext ==
    ASSUME PrefFlash', PrefRestOK', PrefSaveInv'
    PROVE  PreferencesInv'
  BY Zenon DEF PreferencesInv, PrefFlash, PrefRestOK, Kept!TypeOK, PrefDatum

LEMMA PrefEventCounted ==
    ASSUME Kept!PreferencesAssumption, PrefRestOK, Kept!Happens
    PROVE  prefEvents' \in 0 .. MaxCommits
  BY DEF PrefRestOK, Kept!Happens, Kept!PreferencesAssumption

LEMMA PreferencesInitially ==
    ASSUME Kept!PreferencesAssumption, Kept!Init
    PROVE  PreferencesInv
  <1>1. /\ prefWriter \in PrefWriters /\ prefWriter.pc = "idle"
        /\ prefChip \in Chips /\ prefChip.op = "ready"
    BY PrefReadyType, PrefIdleType DEF Kept!Init
  <1>2. prefCells = Kept!Erased /\ prefSrc = Kept!Erased /\ Kept!Erased \in [1 .. PrefCells -> PrefHeld]
        /\ prefDisturbed \in BOOLEAN
    BY DEF Kept!Init, Kept!Erased, PrefHeld
  <1>3. Kept!FlashTypeOK(PrefValues \cup {Signature})
    BY <1>1, <1>2, Zenon DEF Kept!FlashTypeOK, PrefWriters, DriverPc, Chips, PrefHeld
  <1>4. PrefDataOK
    BY <1>2, PrefSizes DEF PrefDataOK, Kept!Erased, PrefDatum
  <1>5. PrefControlInv
    BY <1>1 DEF Kept!Init, PrefControlInv
  <1>6. PrefBlockInv
    <2>1. prefCells = PrefUpto(snapshot, 0) /\ 0 \in 0 .. PrefCells
      BY <1>2, PrefNoneWritten, PrefSizes
    <2> QED BY <1>1, <2>1 DEF PrefBlockInv
  <1>7. PrefRestOK
    <2>1. 0 \in 0 .. Len(PrefList) /\ 0 \in 0 .. MaxCommits /\ PrefDefault \in PrefDatum /\ ErasedCell \in PrefDatum
      BY PrefSizes DEF Kept!PreferencesAssumption, PrefDatum
    <2> QED BY <2>1 DEF Kept!Init, PrefRestOK
  <1>8. PrefSaveInv
    BY DEF Kept!Init, PrefSaveInv
  <1> QED BY <1>3, <1>4, <1>5, <1>6, <1>7, <1>8, PrefParts DEF PrefFlash

\* A step that leaves the flash and the driver alone.
LEMMA PrefSameFlash ==
    ASSUME PreferencesInv, UNCHANGED <<Kept!flash, prefPc, snapshot>>
    PROVE  PrefFlash'
  BY
    DEF PreferencesInv, Kept!TypeOK, Kept!FlashTypeOK, Kept!flash, PrefFlash, PrefDataOK,
        PrefControlInv, PrefBlockInv

LEMMA PrefChangeStep ==
    ASSUME Kept!PreferencesAssumption, PreferencesInv, NEW f \in PrefSettings, NEW v \in PrefValues,
           Kept!Change(f, v)
    PROVE  PreferencesInv'
  <1>1. PrefRestOK /\ PrefSaveInv
    BY PrefParts
  <1>2. PrefRestOK'
    BY <1>1, PrefEventCounted DEF PrefRestOK, Kept!Change, PrefDatum
  <1>3. ASSUME NEW w, NEW k \in Kept!Slots, PrefAsAsked(w, k)
        PROVE  w = ram'[PrefList[k]] \/ PrefList[k] \in changed'
    BY <1>1, <1>3, PrefSizes DEF PrefAsAsked, Kept!Change, PrefRestOK
  <1>4. PrefSaveInv'
    BY <1>1, <1>3 DEF PrefSaveInv, PrefAsAsked, Kept!Change, Kept!flash, Kept!Valid, Kept!Data
  <1> QED BY <1>2, <1>4, PrefSameFlash, PrefPartsNext DEF Kept!Change

LEMMA PrefRequestStep ==
    ASSUME Kept!PreferencesAssumption, PreferencesInv, Kept!profile_save_prefs
    PROVE  PreferencesInv'
  <1>1. PrefRestOK
    BY PrefParts
  <1>2. PrefRestOK'
    BY <1>1, PrefEventCounted DEF PrefRestOK, Kept!profile_save_prefs
  <1>3. PrefSaveInv'
    BY DEF PrefSaveInv, Kept!profile_save_prefs
  <1> QED BY <1>2, <1>3, PrefSameFlash, PrefPartsNext DEF Kept!profile_save_prefs

LEMMA PrefUploadKeeps ==
    ASSUME Kept!PreferencesAssumption, PreferencesInv, Kept!Upload
    PROVE  PreferencesInv'
  <1>1. PrefRestOK /\ PrefSaveInv
    BY PrefParts
  <1>2. PrefRestOK'
    BY <1>1, PrefEventCounted, PrefSnapshotType DEF PrefRestOK, Kept!Upload
  <1>3. ~prefDisturbed' => ~prefDisturbed /\ prefCells' = prefCells
    BY DEF Kept!Upload, Kept!ForeignCommand, Kept!Completed, PreferencesInv, PrefControlInv
  <1>4. PrefSaveInv'
    BY <1>1, <1>3 DEF PrefSaveInv, PrefAsAsked, Kept!Upload, Kept!ForeignCommand, Kept!Valid, Kept!Data
  <1> QED BY <1>2, <1>4, PrefUploadStep, PrefPartsNext

LEMMA PrefLossKeeps ==
    ASSUME Kept!PreferencesAssumption, PreferencesInv, Kept!PowerFailure
    PROVE  PreferencesInv'
  <1>1. PrefFlash'
    BY PrefLossStep
  <1>2. ram' \in [PrefSettings -> PrefDatum]
    BY <1>1, PrefRestoredType DEF Kept!PowerFailure, PrefFlash, PrefDataOK
  <1>3. PrefRestOK'
    <2>1. PrefRestOK
      BY PrefParts
    <2>2. prefEvents' \in 0 .. MaxCommits
      BY <2>1, PrefEventCounted DEF Kept!PowerFailure
    <2>3. 0 \in 0 .. Len(PrefList)
      BY PrefSizes
    <2> QED BY <1>2, <2>1, <2>2, <2>3 DEF PrefRestOK, Kept!PowerFailure
  <1>4. PrefSaveInv'
    BY DEF PrefSaveInv, Kept!PowerFailure
  <1> QED BY <1>1, <1>3, <1>4, PrefPartsNext

LEMMA PrefCommitStep ==
    ASSUME Kept!PreferencesAssumption, PreferencesInv, Kept!Commit
    PROVE  PreferencesInv'
  <1>1. PrefRestOK /\ prefWriter.pc = "idle"
    BY PrefParts DEF Kept!Commit, PreferencesInv, PrefControlInv
  <1>2. /\ prefSrc' \in [1 .. PrefCells -> PrefHeld] /\ prefSrc'[1] = Signature /\ prefSrc'[PrefCells] = Signature
        /\ \A k \in Kept!Slots : prefSrc'[k + 1] \in PrefDatum
    BY PrefSizes DEF Kept!Commit, PrefHeld, PrefDatum
  <1>3. Kept!FlashTypeOK(PrefValues \cup {Signature})'
    BY <1>2, PrefFlashIs, Zenon
      DEF Kept!Commit, PreferencesInv, Kept!FlashTypeOK, PrefWriters, DriverPc, Chips, PrefHeld
  <1>4. PrefDataOK' /\ PrefControlInv'
    BY <1>1, <1>2 DEF Kept!Commit, PreferencesInv, PrefDataOK, PrefControlInv
  <1>5. PrefBlockInv'
    BY <1>1 DEF Kept!Commit, PreferencesInv, PrefBlockInv, Kept!history
  <1>6. PrefRestOK'
    BY <1>1, PrefSizes DEF Kept!Commit, PrefRestOK, Kept!history
  <1>7. PrefSaveInv'
    BY DEF Kept!Commit, PrefSaveInv, Kept!Slots
  <1> QED BY <1>3, <1>4, <1>5, <1>6, <1>7, PrefPartsNext DEF PrefFlash

LEMMA PrefCopyStep ==
    ASSUME Kept!PreferencesAssumption, PreferencesInv, Kept!Copy
    PROVE  PreferencesInv'
  <1>1. PrefRestOK /\ PrefSaveInv /\ prefWriter.pc = "idle"
    BY PrefParts DEF Kept!Copy, PreferencesInv, PrefControlInv
  <1>2. /\ copied + 1 \in Kept!Slots /\ copied + 2 \in 1 .. PrefCells
        /\ copied + 2 # 1 /\ copied + 2 # PrefCells /\ (copied + 1) + 1 = copied + 2
    BY <1>1, PrefSizes DEF Kept!Copy, PrefRestOK, Kept!Slots
  <1>3. ram[PrefList[copied + 1]] \in PrefDatum
    BY <1>1, <1>2, PrefSizes DEF PrefRestOK
  <1>4. /\ prefSrc' \in [1 .. PrefCells -> PrefHeld]
        /\ prefSrc'[1] = prefSrc[1] /\ prefSrc'[PrefCells] = prefSrc[PrefCells]
    BY <1>2, <1>3, PrefFlashIs, PrefSizes DEF Kept!Copy, PreferencesInv, PrefHeld, PrefDatum
  <1>5. ASSUME NEW k \in Kept!Slots
        PROVE  prefSrc'[k + 1] = IF k = copied + 1 THEN ram[PrefList[k]] ELSE prefSrc[k + 1]
    BY <1>1, <1>2, PrefFlashIs, PrefSizes DEF Kept!Copy, PreferencesInv, PrefRestOK, Kept!Slots
  <1>6. Kept!FlashTypeOK(PrefValues \cup {Signature})'
    BY <1>4, PrefFlashIs, Zenon
      DEF Kept!Copy, PreferencesInv, Kept!FlashTypeOK, PrefWriters, DriverPc, Chips, PrefHeld
  <1>7. PrefDataOK' /\ PrefControlInv'
    BY <1>1, <1>3, <1>4, <1>5 DEF Kept!Copy, PreferencesInv, PrefDataOK, PrefControlInv
  <1>8. PrefBlockInv'
    BY <1>1 DEF Kept!Copy, PreferencesInv, PrefBlockInv, Kept!history
  <1>9. PrefRestOK'
    BY <1>1, <1>2, PrefSizes DEF Kept!Copy, PrefRestOK, Kept!history, Kept!Slots
  <1>10. ASSUME prefAsked, ~prefRaced, NEW k \in Kept!Slots, k <= copied + 1
         PROVE  PrefAsAsked(prefSrc'[k + 1], k)
    <2>1. CASE k = copied + 1
      BY <1>5, <2>1 DEF PrefAsAsked
    <2>2. CASE k # copied + 1
      <3>1. k <= copied
        BY <1>1, <1>10, <2>2 DEF PrefRestOK, Kept!Slots
      <3>2. PrefAsAsked(prefSrc[k + 1], k)
        BY <1>1, <1>10, <3>1 DEF PrefSaveInv, Kept!Copy
      <3> QED BY <1>5, <2>2, <3>2
    <2> QED BY <2>1, <2>2
  <1>11. PrefSaveInv'
    BY <1>10 DEF Kept!Copy, PrefSaveInv, PrefAsAsked, Kept!history
  <1> QED BY <1>6, <1>7, <1>8, <1>9, <1>11, PrefPartsNext DEF PrefFlash

LEMMA PrefWritePrefsStep ==
    ASSUME Kept!PreferencesAssumption, PreferencesInv, Kept!WritePrefs
    PROVE  PreferencesInv'
  <1>1. PrefRestOK /\ PrefSaveInv
    BY PrefParts
  <1>2. /\ prefWriter' \in PrefWriters /\ prefWriter'.pc \in {"erase", "done"}
        /\ prefWriter'.pc = "done" => prefCells = prefSrc
    BY PrefFlashIs, WriterFields, Zenon
      DEF Kept!WritePrefs, Kept!StartWrite, PrefWriters, DriverPc, PreferencesInv
  <1>3. Kept!FlashTypeOK(PrefValues \cup {Signature})'
    BY <1>2, PrefFlashIs, Zenon
       DEF Kept!WritePrefs, Kept!StartWrite, PreferencesInv, Kept!FlashTypeOK, PrefWriters, DriverPc,
           Chips, PrefHeld
  <1>4. PrefDataOK' /\ PrefControlInv'
    BY <1>2 DEF Kept!WritePrefs, Kept!StartWrite, PreferencesInv, PrefDataOK, PrefControlInv
  <1>5. PrefBlockInv'
    BY <1>2 DEF Kept!WritePrefs, Kept!StartWrite, PreferencesInv, PrefBlockInv, Kept!history
  <1>6. PrefRestOK'
    BY <1>1, PrefSizes DEF Kept!WritePrefs, PrefRestOK, Kept!history
  <1>7. PrefSaveInv'
    BY <1>1 DEF Kept!WritePrefs, Kept!StartWrite, PrefSaveInv, PrefAsAsked, Kept!history, Kept!Slots
  <1> QED BY <1>3, <1>4, <1>5, <1>6, <1>7, PrefPartsNext DEF PrefFlash

LEMMA PrefWrittenStep ==
    ASSUME Kept!PreferencesAssumption, PreferencesInv, Kept!Written
    PROVE  PreferencesInv'
  <1>1. PrefRestOK /\ PrefSaveInv
    BY PrefParts
  <1>2. prefWriter' \in PrefWriters /\ prefWriter'.pc = "idle"
    BY PrefIdleType DEF Kept!Written
  <1>3. prefSrc' \in [1 .. PrefCells -> PrefHeld] /\ \A k \in Kept!Slots : prefSrc'[k + 1] \in PrefDatum
    BY PrefSizes DEF Kept!Written, Kept!Erased, PrefHeld, PrefDatum
  <1>4. Kept!FlashTypeOK(PrefValues \cup {Signature})'
    BY <1>2, <1>3, PrefFlashIs, Zenon
       DEF Kept!Written, PreferencesInv, Kept!FlashTypeOK, PrefWriters, DriverPc, Chips, PrefHeld
  <1>5. PrefDataOK' /\ PrefControlInv'
    BY <1>2, <1>3 DEF Kept!Written, PreferencesInv, PrefDataOK, PrefControlInv
  <1>6. PrefBlockInv'
    BY <1>2 DEF Kept!Written, PreferencesInv, PrefBlockInv, Kept!history
  <1>7. PrefRestOK'
    BY <1>1, PrefSizes DEF Kept!Written, PrefRestOK, Kept!history
  <1>8. ~prefDisturbed => prefCells = prefSrc /\ Kept!Valid(prefSrc)
    BY DEF Kept!Written, PreferencesInv, PrefBlockInv, PrefControlInv, Kept!Valid
  <1>9. PrefSaveInv'
    BY <1>1, <1>8 DEF Kept!Written, PrefSaveInv, PrefAsAsked, Kept!history, Kept!Data, Kept!Valid
  <1> QED BY <1>4, <1>5, <1>6, <1>7, <1>9, PrefPartsNext DEF PrefFlash

LEMMA PrefClearStep ==
    ASSUME Kept!PreferencesAssumption, PreferencesInv, Kept!Clear
    PROVE  PreferencesInv'
  <1>1. PrefRestOK /\ PrefSaveInv
    BY PrefParts
  <1>2. PrefFlash'
    BY
      DEF Kept!Clear, PreferencesInv, Kept!TypeOK, Kept!FlashTypeOK, Kept!flash, Kept!history,
          PrefFlash, PrefDataOK, PrefControlInv, PrefBlockInv
  <1>3. PrefRestOK'
    BY <1>1 DEF Kept!Clear, PrefRestOK, Kept!history
  <1>4. PrefSaveInv'
    BY <1>1 DEF Kept!Clear, PrefSaveInv, PrefAsAsked, Kept!flash, Kept!history, Kept!Data, Kept!Valid
  <1> QED BY <1>2, <1>3, <1>4, PrefPartsNext

LEMMA PrefDriverStep ==
    ASSUME Kept!PreferencesAssumption, PreferencesInv, Kept!Driver
    PROVE  PreferencesInv'
  <1>1. PrefRestOK /\ PrefSaveInv
    BY PrefParts
  <1>2. PrefFlash'
    BY PrefEraseUnlockStep, PrefEraseCycleStep, PrefEraseWaitStep, PrefUnlockStep, PrefProgramStep,
       PrefWaitStep
       DEF Kept!Driver, Kept!Write, Kept!history
  <1>3. PrefRestOK'
    BY <1>1 DEF Kept!Driver, PrefRestOK, Kept!history
  <1>4. prefSrc' = prefSrc
    BY
      DEF Kept!Driver, Kept!Write, Kept!EraseUnlock, Kept!EraseCycle, Kept!EraseWait, Kept!Unlock,
          Kept!Program, Kept!Wait
  <1>5. PrefSaveInv'
    BY <1>1, <1>4 DEF Kept!Driver, PrefSaveInv, PrefAsAsked, Kept!history
  <1> QED BY <1>2, <1>3, <1>5, PrefPartsNext

LEMMA PrefChipKeeps ==
    ASSUME Kept!PreferencesAssumption, PreferencesInv, Kept!Chip
    PROVE  PreferencesInv'
  <1>1. PrefRestOK /\ PrefSaveInv
    BY PrefParts
  <1>2. prefPc = "write"
    BY DEF Kept!Chip, Kept!ChipDone, PreferencesInv, PrefControlInv
  <1>3. PrefRestOK'
    BY <1>1, PrefSnapshotType DEF Kept!Chip, PrefRestOK
  <1>4. PrefSaveInv'
    BY <1>1, <1>2 DEF Kept!Chip, Kept!ChipDone, PrefSaveInv, PrefAsAsked
  <1> QED BY <1>3, <1>4, PrefChipStep, PrefPartsNext DEF Kept!Chip

LEMMA PrefStutterStep ==
    ASSUME PreferencesInv, UNCHANGED Kept!vars
    PROVE  PreferencesInv'
  BY
    DEF Kept!vars, Kept!flash, Kept!history, PreferencesInv, Kept!TypeOK, Kept!FlashTypeOK, PrefDataOK,
        PrefControlInv, PrefBlockInv, PrefSaveInv,
         PrefAsAsked, Kept!Data, Kept!Valid

LEMMA PreferencesNext ==
    ASSUME Kept!PreferencesAssumption, PreferencesInv, Kept!Next
    PROVE  PreferencesInv'
  BY PrefChangeStep, PrefRequestStep, PrefUploadKeeps, PrefLossKeeps, PrefCommitStep, PrefCopyStep,
     PrefWritePrefsStep, PrefWrittenStep, PrefClearStep, PrefDriverStep, PrefChipKeeps, PrefStutterStep,
     Zenon DEF Kept!Next, Kept!task_2000, Kept!QuietTurn

LEMMA PreferencesStay ==
    ASSUME PreferencesInv, UNCHANGED preferencesVars
    PROVE  PreferencesInv'
  <1>1. UNCHANGED Kept!vars
    BY Zenon DEF preferencesVars, Kept!vars, Kept!flash, Kept!history
  <1> QED BY <1>1, PrefStutterStep, Zenon

\* What the invariant says of the settings in the flash.
LEMMA PreferencesAreWhole ==
    ASSUME Kept!PreferencesAssumption, PreferencesInv
    PROVE  Kept!AllOrNothing /\ Kept!SaveTakesEffect
  <1>1. Kept!AllOrNothing
    <2>1. SUFFICES ASSUME Kept!Valid(prefCells), ~prefDisturbed
                   PROVE  Kept!Data(prefCells) = snapshot
      BY DEF Kept!AllOrNothing
    <2>2. PICK n \in 0 .. PrefCells : prefCells = PrefUpto(snapshot, n)
      BY <2>1 DEF PreferencesInv, PrefBlockInv
    <2>3. prefCells = PrefFramed(snapshot)
      BY <2>1, <2>2, PrefValidIsAll, PrefAllWritten
    <2>4. snapshot \in [Kept!Slots -> PrefDatum]
      BY <2>1, PrefParts DEF PrefRestOK
    <2> QED BY <2>3, <2>4, PrefDataOfFramed
  <1>2. Kept!SaveTakesEffect
    BY DEF PreferencesInv, PrefSaveInv, Kept!SaveTakesEffect, PrefAsAsked
  <1> QED BY <1>1, <1>2

-----------------------------------------------------------------------------
(* The language pack *)

LangHeld == Packs \cup {ZeroBlock, GarbledBlock} \cup {ErasedCell}
LangWriters == [pc : DriverPc, i : 0 .. LangCells, value : LangHeld]

\* The first n cells of the pack in memory, and erased ones.
LangUpto(n) == [k \in 1 .. LangCells |-> IF k <= n THEN langSrc[k] ELSE ErasedCell]

\* The blocks sent so far are in memory, unless a damaged one came in.
SentInv ==
    cu.pack \in Packs =>
        /\ cu.next \in 1 .. LastOf[cu.pack] + 1
        /\ ~damaged => /\ expected_blck_cnt = LastOf[cu.pack]
                       /\ \A k \in 1 .. cu.next : langSrc[k] = cu.pack

\* The flag is raised by a pack that is in memory as a whole, or by damaged blocks, and
\* stays up while task_2000 writes.
PackInv ==
    /\ langPc # "idle" => new_lng_file
    /\ new_lng_file => pack # ZeroBlock
    /\ new_lng_file /\ pack \in Packs /\ ~langRaced => Language!Holds(langSrc, pack)

LangControlInv ==
    /\ langWriter.pc = "idle" <=> langPc # "write"
    /\ langWriter.pc \notin {"erase_wait", "wait"} => langChip.op = "ready"
    /\ langWriter.pc = "erase_wait" => langChip.op # "program"
    /\ langWriter.pc = "wait" => langChip.op # "erase"
    /\ langWriter.pc \in {"program", "data", "wait"} => langWriter.i \in 1 .. LangCells

\* Unless blocks come in meanwhile, what is programmed is the pack, from the front.
LangBlockInv ==
    ~langDisturbed /\ ~langRaced =>
        /\ langWriter.pc \in {"erase_cycle", "data"} => langChip.armed = TRUE
        /\ langWriter.pc = "erase_wait" /\ langChip.op = "ready" => langCells = LangUpto(0)
        /\ langWriter.pc \in {"program", "data"} => langCells = LangUpto(langWriter.i - 1)
        /\ langWriter.pc \in {"data", "wait"} => langWriter.value = langSrc[langWriter.i]
        /\ langWriter.pc = "wait" => langCells = LangUpto(langWriter.i)
        /\ langWriter.pc = "done" => langCells = langSrc
        /\ (langPc = "clear" \/ ~new_lng_file) /\ pack \in Packs => Language!Holds(langCells, pack)

LanguageInv == Language!TypeOK /\ SentInv /\ PackInv /\ LangControlInv /\ LangBlockInv

LEMMA LangTyped ==
    /\ Language!TypeOK <=>
          /\ langCells \in [1 .. LangCells -> LangHeld] /\ langSrc \in [1 .. LangCells -> LangHeld]
          /\ langWriter \in LangWriters /\ langChip \in Chips /\ langDisturbed \in BOOLEAN
          /\ expected_blck_cnt \in 0 .. LangCells
          /\ new_lng_file \in BOOLEAN /\ langRaced \in BOOLEAN /\ damaged \in BOOLEAN
          /\ langPc \in {"idle", "write", "clear"}
          /\ cu \in [pack : Packs \cup {ZeroBlock}, next : 0 .. LangCells]
          /\ pack \in Packs \cup {ZeroBlock, GarbledBlock} /\ langEvents \in 0 .. MaxSends
    /\ Language!TypeOK' <=>
          /\ langCells' \in [1 .. LangCells -> LangHeld] /\ langSrc' \in [1 .. LangCells -> LangHeld]
          /\ langWriter' \in LangWriters /\ langChip' \in Chips /\ langDisturbed' \in BOOLEAN
          /\ expected_blck_cnt' \in 0 .. LangCells
          /\ new_lng_file' \in BOOLEAN /\ langRaced' \in BOOLEAN /\ damaged' \in BOOLEAN
          /\ langPc' \in {"idle", "write", "clear"}
          /\ cu' \in [pack : Packs \cup {ZeroBlock}, next : 0 .. LangCells]
          /\ pack' \in Packs \cup {ZeroBlock, GarbledBlock} /\ langEvents' \in 0 .. MaxSends
  BY Zenon DEF Language!TypeOK, Language!FlashTypeOK, LangHeld, LangWriters, DriverPc, Chips

LEMMA LangSizes ==
    ASSUME Language!LangPackAssumption
    PROVE  /\ LangCells \in Nat \ {0} /\ 1 \in 1 .. LangCells /\ MaxSends \in Nat
           /\ ErasedCell \in LangHighBit /\ ZeroBlock \notin Packs
           /\ GarbledBlock \notin Packs /\ GarbledBlock # ZeroBlock
           /\ \A p \in Packs : LastOf[p] \in 1 .. LangCells - 1
  BY DEF Language!LangPackAssumption, Language!CfiFlashAssumption

LEMMA LangErased ==
    ASSUME Language!LangPackAssumption
    PROVE  /\ LangUpto(0) = Language!Erased /\ Language!Erased \in [1 .. LangCells -> LangHeld]
           /\ Language!Erased[1] = ErasedCell
           /\ Language!KURS_profile_init \in [1 .. LangCells -> LangHeld]
  BY LangSizes DEF LangUpto, Language!Erased, Language!KURS_profile_init, LangHeld

LEMMA LangOneMore ==
    ASSUME Language!LangPackAssumption, NEW n \in 1 .. LangCells
    PROVE  /\ [LangUpto(n - 1) EXCEPT ![n] = langSrc[n]] = LangUpto(n)
           /\ LangUpto(n)[n] = langSrc[n]
  <1>1. ASSUME NEW k \in 1 .. LangCells
        PROVE  k <= n <=> k <= n - 1 \/ k = n
    BY LangSizes
  <1> QED BY <1>1 DEF LangUpto

LEMMA LangAll ==
    ASSUME Language!LangPackAssumption, langSrc \in [1 .. LangCells -> LangHeld]
    PROVE  LangUpto(LangCells) = langSrc
  BY LangSizes DEF LangUpto

LEMMA LangReady ==
    ASSUME Language!LangPackAssumption
    PROVE  /\ Language!Ready \in Chips /\ Language!Ready.op = "ready"
           /\ Language!Idle \in LangWriters /\ Language!Idle.pc = "idle"
  BY LangSizes DEF Language!Ready, Chips, Language!Idle, LangWriters, DriverPc, LangHeld

LEMMA LanguageInit ==
    ASSUME Language!LangPackAssumption
    PROVE  Language!Init => LanguageInv
  <1>1. SUFFICES ASSUME Language!Init PROVE LanguageInv
    OBVIOUS
  <1>2. /\ langCells = Language!Erased /\ langSrc = Language!KURS_profile_init
        /\ langWriter = Language!Idle /\ langChip = Language!Ready /\ langDisturbed = FALSE
        /\ expected_blck_cnt = 0 /\ new_lng_file = FALSE /\ langPc = "idle"
        /\ cu = Language!None /\ pack = ZeroBlock /\ langRaced = FALSE /\ damaged = FALSE
        /\ langEvents = 0
    BY <1>1, Zenon DEF Language!Init
  <1>3. /\ cu \in [pack : Packs \cup {ZeroBlock}, next : 0 .. LangCells] /\ cu.pack = ZeroBlock
        /\ 0 \in 0 .. LangCells /\ 0 \in 0 .. MaxSends
    BY <1>2, LangSizes DEF Language!None
  <1>4. Language!TypeOK
    BY <1>2, <1>3, LangErased, LangReady, LangTyped, Zenon
  <1>5. SentInv /\ PackInv
    BY <1>2, <1>3, LangSizes, Zenon DEF SentInv, PackInv
  <1>6. LangControlInv /\ LangBlockInv
    BY <1>2, LangReady, LangSizes DEF LangControlInv, LangBlockInv
  <1> QED BY <1>4, <1>5, <1>6 DEF LanguageInv

-----------------------------------------------------------------------------
(* The language pack: the driver *)

LEMMA LangEraseUnlock ==
    ASSUME Language!LangPackAssumption, LanguageInv, Language!EraseUnlock
    PROVE  /\ langWriter' \in LangWriters /\ langWriter'.pc = "erase_cycle"
           /\ langChip' \in Chips /\ langChip'.op = "ready" /\ langChip'.armed = TRUE
           /\ langCells' = langCells /\ langSrc' = langSrc /\ langDisturbed' = langDisturbed
  <1>1. langWriter \in LangWriters /\ langChip \in Chips /\ "erase_cycle" \in DriverPc
    BY LangTyped, Zenon DEF LanguageInv, DriverPc
  <1>2. /\ langWriter.pc = "erase" /\ langWriter' = [langWriter EXCEPT !.pc = "erase_cycle"]
        /\ langChip' = [langChip EXCEPT !.armed = langChip.op = "ready"]
        /\ langCells' = langCells /\ langSrc' = langSrc /\ langDisturbed' = langDisturbed
    BY Zenon DEF Language!EraseUnlock
  <1>3. langChip.op = "ready"
    BY <1>2 DEF LanguageInv, LangControlInv
  <1> QED BY <1>1, <1>2, <1>3 DEF LangWriters, Chips

LEMMA LangEraseCycle ==
    ASSUME Language!LangPackAssumption, LanguageInv, Language!EraseCycle
    PROVE  /\ langWriter' \in LangWriters /\ langWriter'.pc = "erase_wait"
           /\ langChip' \in Chips /\ langChip'.op \in {"ready", "erase"}
           /\ langChip.armed = TRUE => langChip'.op = "erase"
           /\ langWriter.pc = "erase_cycle"
           /\ langCells' = langCells /\ langSrc' = langSrc /\ langDisturbed' = langDisturbed
  <1>1. langWriter \in LangWriters /\ langChip \in Chips /\ "erase_wait" \in DriverPc
    BY LangTyped, Zenon DEF LanguageInv, DriverPc
  <1>2. /\ langWriter.pc = "erase_cycle" /\ langWriter' = [langWriter EXCEPT !.pc = "erase_wait"]
        /\ langChip' = [op |-> IF langChip.armed THEN "erase" ELSE langChip.op, armed |-> FALSE]
        /\ langCells' = langCells /\ langSrc' = langSrc /\ langDisturbed' = langDisturbed
    BY Zenon DEF Language!EraseCycle
  <1>3. langChip.op = "ready"
    BY <1>2 DEF LanguageInv, LangControlInv
  <1> QED BY <1>1, <1>2, <1>3 DEF LangWriters, Chips

LEMMA LangEraseWait ==
    ASSUME Language!LangPackAssumption, LanguageInv, Language!EraseWait
    PROVE  /\ langWriter' \in LangWriters /\ langWriter.pc = "erase_wait" /\ langChip.op = "ready"
           /\ \/ langCells[1] \in LangHighBit /\ langWriter'.pc = "program" /\ langWriter'.i = 1
              \/ langCells[1] \notin LangHighBit /\ langWriter'.pc = "done"
           /\ langCells' = langCells /\ langSrc' = langSrc /\ langDisturbed' = langDisturbed
           /\ langChip' = langChip
  <1>1. langWriter \in LangWriters /\ "program" \in DriverPc /\ "done" \in DriverPc /\ 1 \in 0 .. LangCells
    BY LangTyped, LangSizes DEF LanguageInv, DriverPc
  <1>2. /\ langWriter.pc = "erase_wait" /\ langChip.op = "ready"
        /\ langCells[1] \in LangHighBit => langWriter' = [langWriter EXCEPT !.pc = "program", !.i = 1]
        /\ langCells[1] \notin LangHighBit => langWriter' = [langWriter EXCEPT !.pc = "done"]
        /\ langCells' = langCells /\ langSrc' = langSrc /\ langDisturbed' = langDisturbed
        /\ langChip' = langChip
    BY Zenon DEF Language!EraseWait
  <1>3. CASE langCells[1] \in LangHighBit
    BY <1>1, <1>2, <1>3 DEF LangWriters
  <1>4. CASE langCells[1] \notin LangHighBit
    BY <1>1, <1>2, <1>4 DEF LangWriters
  <1> QED BY <1>3, <1>4

LEMMA LangUnlock ==
    ASSUME Language!LangPackAssumption, LanguageInv, Language!Unlock
    PROVE  /\ langWriter' \in LangWriters /\ langWriter'.pc = "data" /\ langWriter'.i = langWriter.i
           /\ langWriter'.value = langSrc[langWriter.i] /\ langWriter.pc = "program"
           /\ langWriter.i \in 1 .. LangCells
           /\ langChip' \in Chips /\ langChip'.op = "ready" /\ langChip'.armed = TRUE
           /\ langCells' = langCells /\ langSrc' = langSrc /\ langDisturbed' = langDisturbed
  <1>1. /\ langWriter \in LangWriters /\ langChip \in Chips /\ "data" \in DriverPc
        /\ langSrc \in [1 .. LangCells -> LangHeld]
    BY LangTyped, Zenon DEF LanguageInv, DriverPc
  <1>2. /\ langWriter.pc = "program"
        /\ langWriter' = [langWriter EXCEPT !.pc = "data", !.value = langSrc[langWriter.i]]
        /\ langChip' = [langChip EXCEPT !.armed = langChip.op = "ready"]
        /\ langCells' = langCells /\ langSrc' = langSrc /\ langDisturbed' = langDisturbed
    BY Zenon DEF Language!Unlock
  <1>3. langChip.op = "ready" /\ langWriter.i \in 1 .. LangCells
    BY <1>2 DEF LanguageInv, LangControlInv
  <1>4. langSrc[langWriter.i] \in LangHeld
    BY <1>1, <1>3, Zenon
  <1> QED BY <1>1, <1>2, <1>3, <1>4 DEF LangWriters, Chips

LEMMA LangProgram ==
    ASSUME Language!LangPackAssumption, LanguageInv, Language!Program
    PROVE  /\ langWriter' \in LangWriters /\ langWriter'.pc = "wait" /\ langWriter'.i = langWriter.i
           /\ langWriter'.value = langWriter.value /\ langWriter.pc = "data"
           /\ langWriter.i \in 1 .. LangCells
           /\ langChip' \in Chips /\ langChip'.op \in {"ready", "program"}
           /\ langCells' \in [1 .. LangCells -> LangHeld]
           /\ langChip.armed = TRUE =>
                  langCells' = [langCells EXCEPT ![langWriter.i] = langSrc[langWriter.i]]
           /\ langSrc' = langSrc /\ langDisturbed' = langDisturbed
  <1>1. /\ langWriter \in LangWriters /\ langChip \in Chips /\ "wait" \in DriverPc
        /\ langSrc \in [1 .. LangCells -> LangHeld] /\ langCells \in [1 .. LangCells -> LangHeld]
    BY LangTyped, Zenon DEF LanguageInv, DriverPc
  <1>2. /\ langWriter.pc = "data" /\ langWriter' = [langWriter EXCEPT !.pc = "wait"]
        /\ langChip' = [op |-> IF langChip.armed THEN "program" ELSE langChip.op, armed |-> FALSE]
        /\ langCells' = IF langChip.armed THEN [langCells EXCEPT ![langWriter.i] = langSrc[langWriter.i]]
                                          ELSE langCells
        /\ langSrc' = langSrc /\ langDisturbed' = langDisturbed
    BY Zenon DEF Language!Program
  <1>3. langChip.op = "ready" /\ langWriter.i \in 1 .. LangCells
    BY <1>2 DEF LanguageInv, LangControlInv
  <1>4. [langCells EXCEPT ![langWriter.i] = langSrc[langWriter.i]] \in [1 .. LangCells -> LangHeld]
    BY <1>1, <1>3
  <1>5. langCells' \in [1 .. LangCells -> LangHeld]
    BY <1>1, <1>2, <1>4, Zenon
  <1> QED BY <1>1, <1>2, <1>3, <1>5 DEF LangWriters, Chips

LEMMA LangWait ==
    ASSUME Language!LangPackAssumption, LanguageInv, Language!Wait
    PROVE  /\ langWriter' \in LangWriters /\ langWriter.pc = "wait" /\ langChip.op = "ready"
           /\ langWriter.i \in 1 .. LangCells
           /\ \/ langWriter.i < LangCells /\ langWriter'.pc = "program" /\ langWriter'.i = langWriter.i + 1
              \/ /\ langWriter'.pc = "done"
                 /\ langWriter.i = LangCells \/ langCells[langWriter.i] # langWriter.value
           /\ langCells' = langCells /\ langSrc' = langSrc /\ langDisturbed' = langDisturbed
           /\ langChip' = langChip
  <1> DEFINE agree == /\ (langCells[langWriter.i] \in LangHighBit) = (langWriter.value \in LangHighBit)
                      /\ langWriter.i < LangCells
  <1>1. langWriter \in LangWriters /\ "program" \in DriverPc /\ "done" \in DriverPc
    BY LangTyped, Zenon DEF LanguageInv, DriverPc
  <1>2. /\ langWriter.pc = "wait" /\ langChip.op = "ready"
        /\ agree => langWriter' = [langWriter EXCEPT !.pc = "program", !.i = langWriter.i + 1]
        /\ ~agree => langWriter' = [langWriter EXCEPT !.pc = "done"]
        /\ langCells' = langCells /\ langSrc' = langSrc /\ langDisturbed' = langDisturbed
        /\ langChip' = langChip
    BY DEF Language!Wait
  <1>3. langWriter.i \in 1 .. LangCells
    BY <1>2 DEF LanguageInv, LangControlInv
  <1>4. CASE agree
    <2>1. langWriter.i + 1 \in 0 .. LangCells
      BY <1>3, <1>4, LangSizes
    <2> QED BY <1>1, <1>2, <1>3, <1>4, <2>1 DEF LangWriters
  <1>5. CASE ~agree
    <2>1. langWriter.i = LangCells \/ langCells[langWriter.i] # langWriter.value
      BY <1>3, <1>5, LangSizes
    <2> QED BY <1>1, <1>2, <1>3, <1>5, <2>1 DEF LangWriters
  <1> QED BY <1>4, <1>5

LEMMA LangDriverStep ==
    ASSUME Language!LangPackAssumption, LanguageInv, Language!Driver
    PROVE  LanguageInv' /\ Language!WrittenForAPack
  <1> DEFINE Block ==
          ~langDisturbed /\ ~langRaced =>
              /\ langWriter'.pc \in {"erase_cycle", "data"} => langChip'.armed = TRUE
              /\ langWriter'.pc = "erase_wait" /\ langChip'.op = "ready" => langCells' = LangUpto(0)
              /\ langWriter'.pc \in {"program", "data"} => langCells' = LangUpto(langWriter'.i - 1)
              /\ langWriter'.pc \in {"data", "wait"} => langWriter'.value = langSrc[langWriter'.i]
              /\ langWriter'.pc = "wait" => langCells' = LangUpto(langWriter'.i)
              /\ langWriter'.pc = "done" => langCells' = langSrc
  <1>1. /\ langPc = "write"
        /\ UNCHANGED <<new_lng_file, langPc, expected_blck_cnt, cu, damaged, pack, langRaced, langEvents>>
    BY Zenon DEF Language!Driver, Language!rest
  <1>2. /\ langCells \in [1 .. LangCells -> LangHeld] /\ langSrc \in [1 .. LangCells -> LangHeld]
        /\ SentInv /\ PackInv /\ LangControlInv /\ LangBlockInv
        /\ langChip \in Chips /\ langWriter \in LangWriters
    BY LangTyped, Zenon DEF LanguageInv
  <1>3. /\ langWriter' \in LangWriters /\ langChip' \in Chips
        /\ langCells' \in [1 .. LangCells -> LangHeld]
        /\ langSrc' = langSrc /\ langDisturbed' = langDisturbed
        /\ langWriter'.pc # "idle"
        /\ langWriter'.pc \notin {"erase_wait", "wait"} => langChip'.op = "ready"
        /\ langWriter'.pc = "erase_wait" => langChip'.op # "program"
        /\ langWriter'.pc = "wait" => langChip'.op # "erase"
        /\ langWriter'.pc \in {"program", "data", "wait"} => langWriter'.i \in 1 .. LangCells
        /\ Block
    <2>1. CASE Language!EraseUnlock
      BY <1>2, <2>1, LangEraseUnlock
    <2>2. CASE Language!EraseCycle
      BY <1>2, <2>2, LangEraseCycle DEF LangBlockInv
    <2>3. CASE Language!EraseWait
      <3>1. ~langDisturbed /\ ~langRaced =>
                langCells = LangUpto(0) /\ langCells[1] \in LangHighBit
        BY <1>2, <2>3, LangEraseWait, LangErased, LangSizes DEF LangBlockInv
      <3> QED BY <1>2, <2>3, <3>1, LangEraseWait, LangSizes
    <2>4. CASE Language!Unlock
      BY <1>2, <2>4, LangUnlock DEF LangBlockInv
    <2>5. CASE Language!Program
      <3>1. ~langDisturbed /\ ~langRaced =>
                /\ langCells' = LangUpto(langWriter.i)
                /\ langWriter.value = langSrc[langWriter.i]
        BY <1>2, <2>5, LangProgram, LangOneMore DEF LangBlockInv
      <3> QED BY <1>2, <2>5, <3>1, LangProgram
    <2>6. CASE Language!Wait
      <3>1. ~langDisturbed /\ ~langRaced =>
                /\ langCells = LangUpto(langWriter.i)
                /\ langWriter'.pc = "done" => langWriter.i = LangCells
        BY <1>2, <2>6, LangWait, LangOneMore DEF LangBlockInv
      <3>2. ~langDisturbed /\ ~langRaced /\ langWriter'.pc = "done" => langCells = langSrc
        BY <1>2, <3>1, LangAll, Zenon
      <3>3. langWriter.i + 1 - 1 = langWriter.i /\ (langWriter.i < LangCells => langWriter.i + 1 \in 1 .. LangCells)
        BY <2>6, LangWait, LangSizes
      <3> QED BY <1>2, <2>6, <3>1, <3>2, <3>3, LangWait
    <2> QED BY <2>1, <2>2, <2>3, <2>4, <2>5, <2>6, Zenon DEF Language!Driver, Language!Write
  <1>4. Language!TypeOK'
    BY <1>1, <1>3, LangTyped, Zenon DEF LanguageInv
  <1>5. SentInv' /\ PackInv'
    BY <1>1, <1>2, <1>3, Zenon DEF SentInv, PackInv, Language!Holds
  <1>6. LangControlInv'
    BY <1>1, <1>3 DEF LangControlInv
  <1>7. LangBlockInv'
    <2>1. \A n : LangUpto(n)' = LangUpto(n)
      BY <1>3, Zenon DEF LangUpto
    <2>2. new_lng_file
      BY <1>1, <1>2 DEF PackInv
    <2> QED BY <1>1, <1>3, <2>1, <2>2 DEF LangBlockInv
  <1>8. Language!WrittenForAPack
    <2>1. pack # ZeroBlock /\ pack \in Packs \cup {ZeroBlock, GarbledBlock}
      BY <1>1, <1>2, LangTyped DEF PackInv, LanguageInv
    <2> QED BY <1>1, <2>1 DEF Language!WrittenForAPack
  <1> QED BY <1>4, <1>5, <1>6, <1>7, <1>8, Zenon DEF LanguageInv

LEMMA LangTaskStep ==
    ASSUME Language!LangPackAssumption, LanguageInv,
           Language!WriteLng \/ Language!Written \/ Language!Clear
    PROVE  LanguageInv' /\ Language!WrittenForAPack
  <1>1. /\ UNCHANGED <<langCells, langSrc, langChip, langDisturbed, expected_blck_cnt, cu, damaged, pack, langRaced,
                       langEvents>>
    BY Zenon DEF Language!WriteLng, Language!StartWrite, Language!Written, Language!Clear, Language!rest,
       Language!flash
  <1>2. /\ langWriter \in LangWriters /\ SentInv /\ PackInv /\ LangControlInv /\ LangBlockInv
        /\ new_lng_file \in BOOLEAN
    BY LangTyped, Zenon DEF LanguageInv
  <1>3. (\A n : LangUpto(n)' = LangUpto(n)) /\ SentInv'
    BY <1>1, <1>2, Zenon DEF LangUpto, SentInv
  <1>4. Language!Holds(langSrc, pack)' = Language!Holds(langSrc, pack)
        /\ Language!Holds(langCells, pack)' = Language!Holds(langCells, pack)
    BY <1>1, Zenon DEF Language!Holds
  <1>5. Language!WrittenForAPack
    BY <1>1, Zenon DEF Language!WrittenForAPack
  <1>6. CASE Language!WriteLng
    <2>1. /\ langPc = "idle" /\ langPc' = "write" /\ new_lng_file /\ new_lng_file' = new_lng_file
          /\ langWriter' = [langWriter EXCEPT !.pc = IF langCells = langSrc THEN "done" ELSE "erase"]
      BY <1>6, Zenon DEF Language!WriteLng, Language!StartWrite, Language!rest
    <2>2. /\ langWriter' \in LangWriters /\ langWriter'.pc \in {"done", "erase"}
          /\ langWriter'.pc = "done" => langCells = langSrc
      BY <1>2, <2>1 DEF LangWriters, DriverPc
    <2>3. Language!TypeOK'
      BY <1>1, <2>1, <2>2, LangTyped, Zenon DEF LanguageInv
    <2>4. PackInv'
      BY <1>1, <1>2, <1>4, <2>1 DEF PackInv
    <2>5. LangControlInv' /\ LangBlockInv'
      BY <1>1, <1>2, <2>1, <2>2 DEF LangControlInv, LangBlockInv
    <2> QED BY <1>3, <1>5, <2>3, <2>4, <2>5, Zenon DEF LanguageInv
  <1>7. CASE Language!Written
    <2>1. /\ langPc = "write" /\ langWriter.pc = "done" /\ langWriter' = Language!Idle
          /\ langPc' = "clear" /\ new_lng_file' = new_lng_file
      BY <1>7, Zenon DEF Language!Written
    <2>2. langWriter' \in LangWriters /\ langWriter'.pc = "idle"
      BY <2>1, LangReady, Zenon
    <2>3. Language!TypeOK'
      BY <1>1, <2>1, <2>2, LangTyped, Zenon DEF LanguageInv
    <2>4. PackInv'
      BY <1>1, <1>2, <1>4, <2>1 DEF PackInv
    <2>5. ~langDisturbed /\ ~langRaced /\ pack \in Packs => Language!Holds(langCells, pack)
      BY <1>2, <2>1, Zenon DEF LangBlockInv, PackInv
    <2>6. LangControlInv' /\ LangBlockInv'
      BY <1>1, <1>2, <1>4, <2>1, <2>2, <2>5 DEF LangControlInv, LangBlockInv
    <2> QED BY <1>3, <1>5, <2>3, <2>4, <2>6, Zenon DEF LanguageInv
  <1>8. CASE Language!Clear
    <2>1. /\ langPc = "clear" /\ langPc' = "idle" /\ new_lng_file' = FALSE /\ langWriter' = langWriter
      BY <1>8, Zenon DEF Language!Clear, Language!flash
    <2>2. Language!TypeOK'
      BY <1>1, <2>1, LangTyped, Zenon DEF LanguageInv
    <2>3. PackInv'
      BY <2>1 DEF PackInv
    <2>4. LangControlInv' /\ LangBlockInv'
      BY <1>1, <1>2, <1>3, <1>4, <2>1 DEF LangControlInv, LangBlockInv
    <2> QED BY <1>3, <1>5, <2>2, <2>3, <2>4, Zenon DEF LanguageInv
  <1> QED BY <1>6, <1>7, <1>8, Zenon

\* The chip, the upload of an image and the power.
LEMMA LangChipStep ==
    ASSUME Language!LangPackAssumption, LanguageInv,
           Language!Chip \/ Language!Upload \/ Language!PowerFailure
    PROVE  LanguageInv' /\ Language!WrittenForAPack
  <1>1. /\ langCells \in [1 .. LangCells -> LangHeld] /\ langSrc \in [1 .. LangCells -> LangHeld]
        /\ langWriter \in LangWriters /\ langChip \in Chips /\ langDisturbed \in BOOLEAN
        /\ SentInv /\ PackInv /\ LangControlInv /\ LangBlockInv /\ langEvents \in 0 .. MaxSends
        /\ langPc \in {"idle", "write", "clear"}
    BY LangTyped, Zenon DEF LanguageInv
  <1>2. /\ Language!Completed \in [1 .. LangCells -> LangHeld]
        /\ langChip.op = "erase" => Language!Completed = LangUpto(0)
        /\ langChip.op # "erase" => Language!Completed = langCells
    BY <1>1, LangErased, Zenon DEF Language!Completed
  <1>3. langChip.op = "erase" =>
            pack \in Packs \cup {GarbledBlock} /\ langPc = "write" /\ langWriter.pc = "erase_wait"
    <2>1. pack \in Packs \cup {ZeroBlock, GarbledBlock}
      BY LangTyped, Zenon DEF LanguageInv
    <2> QED BY <1>1, <2>1 DEF LangControlInv, PackInv
  <1>4. CASE Language!Chip
    <2>1. /\ langChip.op # "ready" /\ langChip' = [langChip EXCEPT !.op = "ready"]
          /\ langCells' = Language!Completed
          /\ langDisturbed' = (langDisturbed /\ langChip.op # "erase")
          /\ UNCHANGED <<langSrc, langWriter, new_lng_file, langPc, expected_blck_cnt, cu, damaged, pack,
                         langRaced, langEvents>>
      BY <1>4, Zenon DEF Language!Chip, Language!ChipDone, Language!rest
    <2>2. langChip' \in Chips /\ langChip'.op = "ready" /\ langDisturbed' \in BOOLEAN
      BY <1>1, <2>1 DEF Chips
    <2>3. Language!TypeOK'
      BY <1>2, <2>1, <2>2, LangTyped, Zenon DEF LanguageInv
    <2>4. SentInv' /\ PackInv'
      BY <1>1, <2>1, Zenon DEF SentInv, PackInv, Language!Holds
    <2>5. LangControlInv'
      BY <1>1, <2>1, <2>2 DEF LangControlInv
    <2>6. /\ \A n : LangUpto(n)' = LangUpto(n)
          /\ langPc = "write" /\ new_lng_file /\ langWriter.pc \in {"erase_wait", "wait"}
      BY <1>1, <2>1 DEF LangControlInv, PackInv, LangUpto
    <2>7. LangBlockInv'
      <3>1. CASE langChip.op = "erase"
        BY <1>2, <1>3, <2>1, <2>6, <3>1 DEF LangBlockInv
      <3>2. CASE langChip.op # "erase"
        <4>1. langCells' = langCells /\ (langDisturbed' => langDisturbed) /\ (langDisturbed => langDisturbed')
          BY <1>1, <1>2, <2>1, <3>2
        <4>2. langWriter.pc = "wait"
          BY <1>1, <2>1, <2>6, <3>2 DEF LangControlInv, Chips
        <4> QED BY <1>1, <2>1, <2>6, <4>1, <4>2 DEF LangBlockInv
      <3> QED BY <3>1, <3>2
    <2>8. Language!WrittenForAPack
      BY <1>2, <1>3, <2>1, Zenon DEF Language!WrittenForAPack
    <2> QED BY <2>3, <2>4, <2>5, <2>7, <2>8, Zenon DEF LanguageInv
  <1>5. CASE Language!Upload
    <2>1. /\ langChip' = Language!Ready /\ langCells' = Language!Completed
          /\ langDisturbed' = (langDisturbed \/ langWriter.pc # "idle")
          /\ UNCHANGED <<langSrc, langWriter, new_lng_file, langPc, expected_blck_cnt, cu, damaged, pack,
                         langRaced>>
      BY <1>5, Zenon DEF Language!Upload, Language!ForeignCommand
    <2>2. langChip' \in Chips /\ langChip'.op = "ready" /\ langDisturbed' \in BOOLEAN
      BY <2>1, LangReady, Zenon
    <2>3. langEvents' \in 0 .. MaxSends
      BY <1>1, <1>5, LangSizes DEF Language!Upload, Language!Happens
    <2>4. Language!TypeOK'
      BY <1>2, <2>1, <2>2, <2>3, LangTyped, Zenon DEF LanguageInv
    <2>5. SentInv' /\ PackInv'
      BY <1>1, <2>1, Zenon DEF SentInv, PackInv, Language!Holds
    <2>6. LangControlInv'
      BY <1>1, <2>1, <2>2 DEF LangControlInv
    <2>7. ~langDisturbed' => ~langDisturbed /\ langWriter.pc = "idle" /\ langCells' = langCells
      BY <1>2, <1>3, <2>1
    <2>8. LangBlockInv'
      <3>1. ~langDisturbed' =>
                Language!Holds(langCells, pack)' = Language!Holds(langCells, pack)
        BY <2>1, <2>7, Zenon DEF Language!Holds
      <3> QED BY <1>1, <2>1, <2>7, <3>1 DEF LangBlockInv
    <2>9. Language!WrittenForAPack
      BY <1>2, <1>3, <2>1, Zenon DEF Language!WrittenForAPack
    <2> QED BY <2>4, <2>5, <2>6, <2>8, <2>9, Zenon DEF LanguageInv
  <1>6. CASE Language!PowerFailure
    <2>1. /\ langWriter' = Language!Idle /\ langChip' = Language!Ready
          /\ langDisturbed' = (langDisturbed \/ langChip.op = "erase")
          /\ langSrc' = Language!KURS_profile_init /\ expected_blck_cnt' = 0
          /\ new_lng_file' = FALSE /\ langPc' = "idle"
          /\ cu' = Language!None /\ pack' = ZeroBlock /\ langRaced' = FALSE /\ damaged' = FALSE
      BY <1>6, Zenon DEF Language!PowerFailure, Language!FlashLoss, Language!Booted
    <2>2. /\ langCells' \in [1 .. LangCells -> LangHeld]
          /\ langChip.op # "erase" => langCells' = langCells
      <3>1. CASE langChip.op # "erase"
        BY <1>1, <1>6, <3>1 DEF Language!PowerFailure, Language!FlashLoss
      <3>2. CASE langChip.op = "erase"
        <4>1. PICK S \in SUBSET (1 .. LangCells) :
                 langCells' = [k \in 1 .. LangCells |-> IF k \in S THEN ErasedCell ELSE langCells[k]]
          BY <1>6, <3>2 DEF Language!PowerFailure, Language!FlashLoss
        <4> QED BY <1>1, <3>2, <4>1 DEF LangHeld
      <3> QED BY <3>1, <3>2
    <2>3. /\ langEvents' \in 0 .. MaxSends /\ 0 \in 0 .. LangCells
          /\ Language!None \in [pack : Packs \cup {ZeroBlock}, next : 0 .. LangCells]
          /\ Language!None.pack = ZeroBlock
      BY <1>1, <1>6, LangSizes DEF Language!PowerFailure, Language!Happens, Language!None
    <2>4. Language!TypeOK'
      BY <1>1, <2>1, <2>2, <2>3, LangErased, LangReady, LangTyped, Zenon
    <2>5. SentInv' /\ PackInv'
      BY <2>1, <2>3, LangSizes, Zenon DEF SentInv, PackInv
    <2>6. LangControlInv' /\ LangBlockInv'
      BY <2>1, LangReady, LangSizes DEF LangControlInv, LangBlockInv
    <2>7. Language!WrittenForAPack
      BY <1>3, <2>2, Zenon DEF Language!WrittenForAPack
    <2> QED BY <2>4, <2>5, <2>6, <2>7, Zenon DEF LanguageInv
  <1> QED BY <1>4, <1>5, <1>6, Zenon

\* A block that comes in.
LEMMA LangStored ==
    ASSUME Language!LangPackAssumption, LanguageInv, damaged' \in BOOLEAN,
           NEW p \in Packs \cup {GarbledBlock}, NEW b \in 0 .. LangCells - 1, NEW last \in 0 .. LangCells,
           Language!WriteBlock(p, b, last),
           ~damaged' => /\ p \in Packs /\ last = LastOf[p]
                        /\ b # 0 => expected_blck_cnt = last /\ \A k \in 1 .. b : langSrc[k] = p
    PROVE  /\ langSrc' \in [1 .. LangCells -> LangHeld] /\ new_lng_file' \in BOOLEAN
           /\ langRaced' \in BOOLEAN /\ pack' \in Packs \cup {ZeroBlock, GarbledBlock}
           /\ expected_blck_cnt' \in 0 .. LangCells
           /\ ~damaged' => expected_blck_cnt' = last /\ \A k \in 1 .. b + 1 : langSrc'[k] = p
           /\ UNCHANGED <<langCells, langWriter, langChip, langDisturbed, langPc>>
           /\ PackInv' /\ LangControlInv' /\ LangBlockInv' /\ Language!WrittenForAPack
  <1> DEFINE completes == b # 0 /\ b = expected_blck_cnt
             of == IF damaged' THEN GarbledBlock ELSE p
  <1>1. /\ langSrc \in [1 .. LangCells -> LangHeld] /\ new_lng_file \in BOOLEAN /\ langRaced \in BOOLEAN
        /\ pack \in Packs \cup {ZeroBlock, GarbledBlock} /\ expected_blck_cnt \in 0 .. LangCells
        /\ PackInv /\ LangControlInv /\ LangBlockInv
    BY LangTyped, Zenon DEF LanguageInv
  <1>2. b + 1 \in 1 .. LangCells /\ LangCells \in Nat /\ p \in LangHeld
    BY LangSizes DEF LangHeld
  <1>3. b > 0 <=> b # 0
    BY <1>2
  <1>4. /\ expected_blck_cnt' = IF b = 0 THEN last ELSE expected_blck_cnt
        /\ langSrc' = [langSrc EXCEPT ![b + 1] = p]
        /\ UNCHANGED <<langCells, langWriter, langChip, langDisturbed, langPc>>
        /\ new_lng_file' = (new_lng_file \/ completes)
        /\ pack' = IF completes THEN of ELSE pack
        /\ langRaced' = (new_lng_file \/ (langRaced /\ ~new_lng_file'))
    BY <1>3 DEF Language!WriteBlock, Language!Store
  <1>5. /\ new_lng_file' \in BOOLEAN /\ langRaced' \in BOOLEAN
        /\ of \in Packs \cup {GarbledBlock}
        /\ pack' \in Packs \cup {ZeroBlock, GarbledBlock}
    <2>1. of \in Packs \cup {GarbledBlock}
      OBVIOUS
    <2> QED BY <1>1, <1>4, <2>1
  <1>6. /\ expected_blck_cnt' \in 0 .. LangCells
        /\ ~damaged' => expected_blck_cnt' = last
    BY <1>1, <1>4
  <1>7. langSrc' \in [1 .. LangCells -> LangHeld]
    BY <1>1, <1>2, <1>4, OneChanged, Zenon
  <1>8. ~damaged' => \A k \in 1 .. b + 1 : langSrc'[k] = p
    <2>1. SUFFICES ASSUME ~damaged', NEW k \in 1 .. b + 1 PROVE langSrc'[k] = p
      OBVIOUS
    <2>2. k \in 1 .. LangCells /\ (k # b + 1 => b # 0 /\ k \in 1 .. b)
      BY <1>2
    <2>3. k # b + 1 => langSrc[k] = p
      BY <2>1, <2>2
    <2> QED BY <1>1, <1>2, <1>4, <2>2, <2>3
  <1>9. completes /\ of \in Packs => of = p /\ Language!Holds(langSrc', p)
    <2>1. SUFFICES ASSUME completes, of \in Packs PROVE of = p /\ Language!Holds(langSrc', p)
      OBVIOUS
    <2>2. ~damaged' /\ of = p
      BY <2>1, LangSizes
    <2>3. b = LastOf[p]
      BY <2>1, <2>2
    <2>4. \A k \in 0 .. LastOf[p] : k + 1 \in 1 .. b + 1
      BY <2>3
    <2> QED BY <1>8, <2>2, <2>4, Zenon DEF Language!Holds
  <1>10. Language!Holds(langSrc, pack)' <=> Language!Holds(langSrc', pack')
    BY DEF Language!Holds
  <1>11. PackInv'
    <2>1. langPc' # "idle" => new_lng_file'
      BY <1>1, <1>4 DEF PackInv
    <2>2. new_lng_file' => pack' # ZeroBlock
      BY <1>1, <1>4, <1>5, LangSizes DEF PackInv
    <2>3. new_lng_file' /\ ~langRaced' => completes /\ pack' = of
      BY <1>1, <1>4
    <2> HIDE DEF of, completes
    <2> QED BY <1>9, <1>10, <2>1, <2>2, <2>3, Zenon DEF PackInv
  <1>12. LangControlInv'
    BY <1>1, <1>4 DEF LangControlInv
  <1>13. LangBlockInv'
    <2>1. ~langRaced' => ~new_lng_file /\ langPc = "idle" /\ langWriter.pc = "idle"
      BY <1>1, <1>4 DEF PackInv, LangControlInv
    <2>2. ~langRaced' /\ ~new_lng_file' => ~langRaced /\ pack' = pack
      BY <1>1, <1>4
    <2>3. pack' = pack => Language!Holds(langCells, pack)' = Language!Holds(langCells, pack)
      BY <1>4, Zenon DEF Language!Holds
    <2> QED BY <1>1, <1>4, <2>1, <2>2, <2>3 DEF LangBlockInv
  <1>14. Language!WrittenForAPack
    BY <1>4, Zenon DEF Language!WrittenForAPack
  <1> QED BY <1>4, <1>5, <1>6, <1>7, <1>8, <1>11, <1>12, <1>13, <1>14, Zenon

LEMMA LangSendStep ==
    ASSUME Language!LangPackAssumption, LanguageInv,
           (\E p \in Packs : Language!Begin(p)) \/ Language!Continue \/ Language!Repeat
    PROVE  LanguageInv' /\ Language!WrittenForAPack
  <1>1. /\ langEvents \in 0 .. MaxSends /\ cu \in [pack : Packs \cup {ZeroBlock}, next : 0 .. LangCells]
        /\ SentInv /\ damaged \in BOOLEAN
    BY LangTyped, Zenon DEF LanguageInv
  <1> DEFINE Sent(p, b) ==
           /\ Language!WriteBlock(p, b, LastOf[p]) /\ damaged' \in BOOLEAN
           /\ ~damaged' /\ b # 0 => expected_blck_cnt = LastOf[p] /\ \A k \in 1 .. b : langSrc[k] = p
           /\ cu' \in [pack : Packs \cup {ZeroBlock}, next : 0 .. LangCells]
           /\ cu'.pack = p /\ cu'.next \in 1 .. LastOf[p] + 1
           /\ cu'.next = b + 1
           /\ langEvents' \in 0 .. MaxSends
  <1>2. \E p \in Packs : \E b \in 0 .. LastOf[p] : Sent(p, b)
    <2>1. ASSUME NEW p \in Packs, Language!Begin(p)
          PROVE  0 \in 0 .. LastOf[p] /\ Sent(p, 0)
      <3>1. LastOf[p] \in 1 .. LangCells - 1 /\ LangCells \in Nat /\ MaxSends \in Nat
        BY LangSizes
      <3>2. Language!WriteBlock(p, 0, LastOf[p]) /\ damaged' = FALSE
        BY <2>1, Zenon DEF Language!Begin
      <3>3. cu' = [pack |-> p, next |-> 1]
        BY <2>1, Zenon DEF Language!Begin
      <3>4. langEvents' \in 0 .. MaxSends
        BY <1>1, <2>1, <3>1 DEF Language!Begin, Language!Happens
      <3>5. /\ cu' \in [pack : Packs \cup {ZeroBlock}, next : 0 .. LangCells]
            /\ cu'.pack = p /\ cu'.next = 0 + 1 /\ cu'.next \in 1 .. LastOf[p] + 1
        BY <3>1, <3>3
      <3>6. 0 \in 0 .. LastOf[p]
        BY <3>1
      <3> QED BY <3>2, <3>4, <3>5, <3>6, Zenon
    <2>2. ASSUME Language!Continue
          PROVE  /\ cu.pack \in Packs /\ cu.next \in 0 .. LastOf[cu.pack]
                 /\ Sent(cu.pack, cu.next)
      <3>1. /\ cu.pack \in Packs /\ cu.next <= LastOf[cu.pack]
            /\ Language!WriteBlock(cu.pack, cu.next, LastOf[cu.pack])
            /\ cu' = [cu EXCEPT !.next = cu.next + 1] /\ langEvents' = langEvents /\ damaged' = damaged
        BY <2>2, Zenon DEF Language!Continue
      <3>2. LastOf[cu.pack] \in 1 .. LangCells - 1 /\ LangCells \in Nat
        BY <3>1, LangSizes
      <3>3. /\ cu.next \in 1 .. LastOf[cu.pack]
            /\ ~damaged => expected_blck_cnt = LastOf[cu.pack] /\ \A k \in 1 .. cu.next : langSrc[k] = cu.pack
        BY <1>1, <3>1, <3>2 DEF SentInv
      <3>4. cu.next + 1 \in 0 .. LangCells /\ cu.next + 1 \in 1 .. LastOf[cu.pack] + 1
        BY <3>2, <3>3
      <3> QED BY <1>1, <3>1, <3>2, <3>3, <3>4
    <2>3. ASSUME Language!Repeat
          PROVE  /\ cu.pack \in Packs /\ cu.next - 1 \in 0 .. LastOf[cu.pack]
                 /\ Sent(cu.pack, cu.next - 1)
      <3>1. /\ cu.pack \in Packs /\ Language!WriteBlock(cu.pack, cu.next - 1, LastOf[cu.pack]) /\ cu' = cu
            /\ damaged' = damaged
        BY <2>3, Zenon DEF Language!Repeat
      <3>2. LastOf[cu.pack] \in 1 .. LangCells - 1 /\ LangCells \in Nat /\ MaxSends \in Nat
        BY <3>1, LangSizes
      <3>3. /\ cu.next \in 1 .. LastOf[cu.pack] + 1
            /\ ~damaged => expected_blck_cnt = LastOf[cu.pack] /\ \A k \in 1 .. cu.next - 1 : langSrc[k] = cu.pack
        BY <1>1, <3>1, <3>2 DEF SentInv
      <3>4. langEvents' \in 0 .. MaxSends
        BY <1>1, <2>3, <3>2 DEF Language!Repeat, Language!Happens
      <3> QED BY <1>1, <3>1, <3>2, <3>3, <3>4
    <2> HIDE DEF Sent
    <2>4. CASE \E p \in Packs : Language!Begin(p)
      <3>1. PICK p \in Packs : Language!Begin(p)
        BY <2>4
      <3> QED BY <2>1, <3>1
    <2>5. CASE Language!Continue
      BY <2>2, <2>5
    <2>6. CASE Language!Repeat
      BY <2>3, <2>6
    <2> QED BY <2>4, <2>5, <2>6
  <1> HIDE DEF Sent
  <1>3. PICK p \in Packs : \E b \in 0 .. LastOf[p] : Sent(p, b)
    BY <1>2, Zenon
  <1>4. PICK b \in 0 .. LastOf[p] : Sent(p, b)
    BY <1>3, Zenon
  <1> USE DEF Sent
  <1>5. /\ langSrc' \in [1 .. LangCells -> LangHeld] /\ new_lng_file' \in BOOLEAN
        /\ langRaced' \in BOOLEAN /\ pack' \in Packs \cup {ZeroBlock, GarbledBlock}
        /\ expected_blck_cnt' \in 0 .. LangCells
        /\ ~damaged' => expected_blck_cnt' = LastOf[p] /\ \A k \in 1 .. b + 1 : langSrc'[k] = p
        /\ UNCHANGED <<langCells, langWriter, langChip, langDisturbed, langPc>>
        /\ PackInv' /\ LangControlInv' /\ LangBlockInv' /\ Language!WrittenForAPack
    <2>1. p \in Packs \cup {GarbledBlock} /\ b \in 0 .. LangCells - 1 /\ LastOf[p] \in 0 .. LangCells
      BY LangSizes
    <2> QED BY <1>4, <2>1, LangStored, Zenon
  <1>6. Language!TypeOK'
    BY <1>4, <1>5, LangTyped, Zenon DEF LanguageInv
  <1>7. SentInv'
    BY <1>4, <1>5, Zenon DEF SentInv
  <1> QED BY <1>5, <1>6, <1>7, Zenon DEF LanguageInv

\* A damaged block says nothing of what is in memory.
LEMMA LangDamageStep ==
    ASSUME Language!LangPackAssumption, LanguageInv,
           NEW b \in 0 .. LangCells - 1, NEW last \in 0 .. LangCells, Language!Damage(b, last)
    PROVE  LanguageInv' /\ Language!WrittenForAPack
  <1>1. /\ langEvents \in 0 .. MaxSends /\ cu \in [pack : Packs \cup {ZeroBlock}, next : 0 .. LangCells]
        /\ SentInv
    BY LangTyped, Zenon DEF LanguageInv
  <1>2. /\ cu.pack \in Packs /\ damaged' = TRUE /\ Language!WriteBlock(GarbledBlock, b, last)
        /\ cu' = IF b = cu.next /\ b <= LastOf[cu.pack] THEN [cu EXCEPT !.next = cu.next + 1] ELSE cu
    BY Zenon DEF Language!Damage
  <1>3. /\ langSrc' \in [1 .. LangCells -> LangHeld] /\ new_lng_file' \in BOOLEAN
        /\ langRaced' \in BOOLEAN /\ pack' \in Packs \cup {ZeroBlock, GarbledBlock}
        /\ expected_blck_cnt' \in 0 .. LangCells
        /\ UNCHANGED <<langCells, langWriter, langChip, langDisturbed, langPc>>
        /\ PackInv' /\ LangControlInv' /\ LangBlockInv' /\ Language!WrittenForAPack
    BY <1>2, LangStored, Zenon
  <1>4. langEvents' \in 0 .. MaxSends
    BY <1>1, LangSizes DEF Language!Damage, Language!Happens
  <1>5. /\ cu' \in [pack : Packs \cup {ZeroBlock}, next : 0 .. LangCells]
        /\ cu'.pack = cu.pack /\ cu'.next \in 1 .. LastOf[cu.pack] + 1
    <2>1. LastOf[cu.pack] \in 1 .. LangCells - 1 /\ LangCells \in Nat
      BY <1>2, LangSizes
    <2>2. cu.next \in 1 .. LastOf[cu.pack] + 1
      BY <1>1, <1>2 DEF SentInv
    <2> QED BY <1>1, <1>2, <2>1, <2>2
  <1>6. Language!TypeOK'
    BY <1>2, <1>3, <1>4, <1>5, LangTyped, Zenon DEF LanguageInv
  <1>7. SentInv'
    BY <1>2, <1>5, Zenon DEF SentInv
  <1> QED BY <1>3, <1>6, <1>7, Zenon DEF LanguageInv

LEMMA LanguageStays ==
    ASSUME LanguageInv, UNCHANGED languageVars
    PROVE  LanguageInv' /\ Language!WrittenForAPack
  <1>1. UNCHANGED <<langCells, langSrc, langWriter, langChip, langDisturbed, expected_blck_cnt,
                    new_lng_file, langPc, cu, damaged, pack, langRaced, langEvents>>
    BY Zenon DEF languageVars
  <1>2. Language!TypeOK'
    BY <1>1, LangTyped, Zenon DEF LanguageInv
  <1>3. SentInv' /\ PackInv'
    BY <1>1, Zenon DEF LanguageInv, SentInv, PackInv, Language!Holds
  <1>4. LangControlInv'
    BY <1>1, Zenon DEF LanguageInv, LangControlInv
  <1>5. LangBlockInv'
    BY <1>1, Zenon DEF LanguageInv, LangBlockInv, LangUpto, Language!Holds
  <1>6. Language!WrittenForAPack
    BY <1>1, Zenon DEF Language!WrittenForAPack
  <1> QED BY <1>2, <1>3, <1>4, <1>5, <1>6, Zenon DEF LanguageInv

LEMMA LanguageNext ==
    ASSUME Language!LangPackAssumption, LanguageInv, Language!Next
    PROVE  LanguageInv' /\ Language!WrittenForAPack
  <1>1. ASSUME UNCHANGED Language!vars
        PROVE  UNCHANGED languageVars
    BY <1>1, Zenon DEF Language!vars, Language!flash, languageVars
  <1> QED BY <1>1, LangSendStep, LangDamageStep, LangDriverStep, LangTaskStep, LangChipStep, LanguageStays, Zenon
          DEF Language!Next, Language!task_2000, Language!QuietTurn, Language!Refuse

\* What the invariant says of a pack that was completed.
LEMMA PackIsWhole ==
    ASSUME LanguageInv
    PROVE  Language!PackIsWritten
  BY DEF LanguageInv, LangBlockInv, Language!PackIsWritten

-----------------------------------------------------------------------------
(* The driver of the flash: its data *)

LEMMA Programmed ==
    ASSUME NEW a \in Flash!Byte, NEW b \in Flash!Byte
    PROVE  /\ Flash!And(a, b) \in Flash!Byte
           /\ a = Flash!Blank => Flash!And(a, b) = b
  BY DEF Flash!And, Flash!Byte, Flash!Blank

\* Two addresses are on one page when they differ by less than what the first lies
\* before the border.
LEMMA SameQuotient ==
    ASSUME NEW B \in Nat \ {0}, NEW q \in Int, NEW r \in 0 .. B - 1, NEW p \in Int, NEW s \in 0 .. B - 1,
           B * q + r = B * p + s
    PROVE  q = p
  <1>1. ASSUME NEW x \in Int, NEW y \in Int, x + 1 <= y
        PROVE  B * x + B <= B * y
    <2>1. B * (y - x - 1) >= 0
      BY <1>1
    <2>2. B * (y - x - 1) = B * y - B * x - B
      OBVIOUS
    <2> QED BY <2>1, <2>2
  <1>2. ~(q + 1 <= p)
    BY <1>1
  <1>3. ~(p + 1 <= q)
    BY <1>1
  <1> QED BY <1>2, <1>3

LEMMA Divided ==
    ASSUME NEW B \in Nat \ {0}, NEW x \in Nat
    PROVE  /\ x = B * (x \div B) + (x % B) /\ x % B \in 0 .. B - 1 /\ x \div B \in Int
  OBVIOUS

LEMMA OnePage ==
    ASSUME NEW B \in Nat \ {0}, NEW x \in Nat, NEW n \in 1 .. B - (x % B)
    PROVE  x \div B = (x + n - 1) \div B
  <1>1. x + n - 1 \in Nat
    BY Divided
  <1>2. /\ x = B * (x \div B) + (x % B) /\ x % B \in 0 .. B - 1 /\ x \div B \in Int
        /\ x + n - 1 = B * ((x + n - 1) \div B) + ((x + n - 1) % B)
        /\ (x + n - 1) % B \in 0 .. B - 1 /\ (x + n - 1) \div B \in Int
    BY <1>1, Divided
  <1>3. (x % B) + (n - 1) \in 0 .. B - 1
    BY <1>2
  <1>4. B * (x \div B) + ((x % B) + (n - 1)) = B * ((x + n - 1) \div B) + ((x + n - 1) % B)
    <2> DEFINE d == x \div B
               e == (x + n - 1) \div B
               r == x % B
               s == (x + n - 1) % B
    <2>1. x = B * d + r /\ x + n - 1 = B * e + s /\ B * d \in Int /\ B * e \in Int /\ r \in Int /\ s \in Int
      BY <1>2
    <2> HIDE DEF d, e, r, s
    <2>2. B * d + (r + (n - 1)) = B * e + s
      BY <2>1
    <2> QED BY <2>2 DEF d, e, r, s
  <1> QED BY <1>2, <1>3, <1>4, SameQuotient

\* The data behind a piece, and the piece.
LEMMA Pieces ==
    ASSUME NEW S, NEW d \in Seq(S), NEW n \in 0 .. Len(d)
    PROVE  /\ Flash!Rest(d, n) \in Seq(S) /\ Len(Flash!Rest(d, n)) = Len(d) - n
           /\ \A i \in 1 .. Len(d) - n : Flash!Rest(d, n)[i] = d[n + i]
           /\ SubSeq(d, 1, n) \in Seq(S) /\ Len(SubSeq(d, 1, n)) = n
           /\ \A i \in 1 .. n : SubSeq(d, 1, n)[i] = d[i]
  <1>1. /\ Len(d) \in Nat /\ n \in Nat
        /\ \A i \in n + 1 .. Len(d) : d[i] \in S /\ \A j \in 1 .. n : d[j] \in S
    BY ElementOfSeq
  <1>2. /\ Flash!Rest(d, n) \in Seq(S)
        /\ Len(Flash!Rest(d, n)) = IF n + 1 <= Len(d) THEN Len(d) - (n + 1) + 1 ELSE 0
        /\ \A i \in 1 .. Len(d) - (n + 1) + 1 : Flash!Rest(d, n)[i] = d[n + 1 + i - 1]
    <2>1. \A i \in n + 1 .. Len(d) : d[i] \in S
      BY <1>1
    <2> QED BY <1>1, <2>1, SubSeqProperties DEF Flash!Rest
  <1>3. /\ SubSeq(d, 1, n) \in Seq(S)
        /\ Len(SubSeq(d, 1, n)) = IF 1 <= n THEN n - 1 + 1 ELSE 0
        /\ \A i \in 1 .. n - 1 + 1 : SubSeq(d, 1, n)[i] = d[1 + i - 1]
    <2>1. \A i \in 1 .. n : d[i] \in S
      BY <1>1, ElementOfSeq
    <2> QED BY <1>1, <2>1, SubSeqProperties
  <1>4. Len(Flash!Rest(d, n)) = Len(d) - n /\ Len(SubSeq(d, 1, n)) = n
    BY <1>1, <1>2, <1>3
  <1>5. \A i \in 1 .. Len(d) - n : Flash!Rest(d, n)[i] = d[n + i]
    <2>1. TAKE i \in 1 .. Len(d) - n
    <2>2. i \in 1 .. Len(d) - (n + 1) + 1 /\ n + 1 + i - 1 = n + i
      BY <1>1
    <2> QED BY <1>2, <2>2
  <1>6. \A i \in 1 .. n : SubSeq(d, 1, n)[i] = d[i]
    <2>1. TAKE i \in 1 .. n
    <2>2. i \in 1 .. n - 1 + 1 /\ 1 + i - 1 = i
      BY <1>1
    <2> QED BY <1>3, <2>2
  <1> QED BY <1>2, <1>3, <1>4, <1>5, <1>6

-----------------------------------------------------------------------------
(* The driver of the flash: the inductive invariant *)

FlashMem == [Flash!Addresses -> Flash!Byte]
Ops == {"ready", "program", "exceeded", "aborted"}
LldChips == [op : Ops, at : 0 .. FlashCells, data : Seq(Bytes), dq6 : BOOLEAN]
CallPcs == {"idle", "next", "status", "verify"}
Calls == [pc : CallPcs, offset : 0 .. FlashCells, data : Seq(Bytes), status : Flash!Statuses]
Chunks == [at : 0 .. FlashCells, len : 0 .. MaxCount]
Befores == [at : 0 .. FlashCells, data : Seq(Bytes), mem : FlashMem, late : BOOLEAN]

FlashTypes ==
    /\ mem \in FlashMem /\ lldChip \in LldChips /\ call \in Calls /\ chunk \in Chunks
    /\ reads \in Seq(Flash!Byte) /\ before \in Befores
    /\ Len(reads) \in 0 .. 3 /\ Len(call.data) \in 0 .. MaxCount /\ Len(lldChip.data) \in 0 .. MaxCount

\* What is left of the data is the end of it, and what was left before, up to the
\* offset, was written.
CallInv ==
    /\ before.at + Len(before.data) <= FlashCells
    /\ call.status = "NOT_BUSY" =>
           /\ call.offset + Len(call.data) = before.at + Len(before.data) /\ before.at <= call.offset
           /\ \A i \in 1 .. Len(call.data) : call.data[i] = before.data[call.offset - before.at + i]
           /\ call.pc = "idle" => Len(call.data) = 0
    /\ call.pc # "idle" => call.status = "NOT_BUSY"
    /\ call.pc \in {"status", "verify"} => chunk.at = call.offset /\ chunk.len \in 1 .. Len(call.data)

\* The chip is busy only while the driver reads its status, with the piece.
ChipInv ==
    /\ lldChip.op # "aborted"
    /\ lldChip.op # "ready" =>
           /\ call.pc = "status" /\ lldChip.at = chunk.at /\ Len(lldChip.data) = chunk.len
           /\ \A i \in 1 .. chunk.len : lldChip.data[i] = call.data[i]
    /\ lldChip.op = "exceeded" => before.late

\* The status toggles from read to read while the chip works; once it is ready the first
\* read showed no error, or every one is of the data.
ReadInv ==
    /\ call.pc # "status" => Len(reads) = 0
    /\ lldChip.op # "ready" =>
           /\ \A i \in 1 .. Len(reads) : ~reads[i].dq1 /\ (lldChip.op = "program" => ~reads[i].dq5)
           /\ \A i \in 1 .. Len(reads) - 1 : reads[i].dq6 # reads[i + 1].dq6
           /\ Len(reads) # 0 => reads[Len(reads)].dq6 # lldChip.dq6
    /\ lldChip.op = "ready" /\ Len(reads) # 0 =>
           \/ ~reads[1].dq1 /\ ~reads[1].dq5
           \/ \A i \in 1 .. Len(reads) : reads[i] = mem[Flash!Polled]

\* The piece under way is in the flash.
Written(a) ==
    /\ call.pc = "verify" \/ (call.pc = "status" /\ lldChip.op = "ready")
    /\ a < call.offset + chunk.len

MemInv ==
    /\ \A a \in Flash!Addresses \ Flash!Range : mem[a] = before.mem[a]
    /\ call.status = "NOT_BUSY" /\ Flash!WasErased =>
           /\ \A a \in before.at .. call.offset - 1 : mem[a] = before.data[a - before.at + 1]
           /\ lldChip.op # "exceeded" =>
                  \A a \in call.offset .. before.at + Len(before.data) - 1 :
                      mem[a] = IF Written(a) THEN before.data[a - before.at + 1] ELSE Flash!Blank

FlashInv ==
    FlashTypes /\ CallInv /\ ChipInv /\ ReadInv /\ MemInv /\ Flash!NoFalseAlarm

LEMMA FlashSizes ==
    ASSUME Flash!LldFlashAssumption
    PROVE  /\ BufferSize \in Nat \ {0} /\ FlashCells \in Nat \ {0} /\ MaxCount \in 1 .. FlashCells
           /\ Bytes \subseteq Flash!Byte /\ Flash!Blank \in Flash!Byte
           /\ Flash!Addresses = 0 .. FlashCells - 1
  BY DEF Flash!LldFlashAssumption, Flash!Blank, Flash!Byte, Flash!Addresses

LEMMA FlashInvTyped ==
    ASSUME Flash!LldFlashAssumption, FlashInv
    PROVE  Flash!TypeOK
  BY
    DEF FlashInv, FlashTypes, Flash!TypeOK, FlashMem, LldChips, Ops, Calls, CallPcs, Chunks,
        Flash!Statuses

LEMMA FlashInit ==
    ASSUME Flash!LldFlashAssumption
    PROVE  Flash!Init => FlashInv
  <1>1. SUFFICES ASSUME Flash!Init PROVE FlashInv
    OBVIOUS
  <1>2. mem \in FlashMem
    <2>1. PICK used \in Flash!Addresses, b \in {Flash!Blank} \cup Bytes :
             mem = [a \in Flash!Addresses |-> IF a = used THEN b ELSE Flash!Blank]
      BY <1>1 DEF Flash!Init
    <2>2. b \in Flash!Byte /\ Flash!Blank \in Flash!Byte
      BY <2>1, FlashSizes
    <2> QED BY <2>1, <2>2 DEF FlashMem
  <1>3. /\ lldChip = Flash!Ready
        /\ call = [pc |-> "idle", offset |-> 0, data |-> <<>>, status |-> "NOT_BUSY"]
        /\ chunk = [at |-> 0, len |-> 0] /\ reads = <<>>
        /\ before = [at |-> 0, data |-> <<>>, mem |-> mem, late |-> FALSE]
    BY <1>1, Zenon DEF Flash!Init
  <1>4. <<>> \in Seq(Bytes) /\ <<>> \in Seq(Flash!Byte) /\ Len(<<>>) = 0
    OBVIOUS
  <1>5. FlashTypes
    BY <1>2, <1>3, <1>4, FlashSizes
    DEF FlashTypes, Flash!Ready, LldChips, Ops, Calls, CallPcs, Chunks, Befores, Flash!Statuses
  <1>6. CallInv /\ ChipInv /\ ReadInv
    BY <1>3, <1>4, FlashSizes DEF CallInv, ChipInv, ReadInv, Flash!Ready
  <1>7. MemInv
    BY <1>3, <1>4, FlashSizes DEF MemInv
  <1>8. Flash!NoFalseAlarm
    BY <1>3 DEF Flash!NoFalseAlarm
  <1> QED BY <1>5, <1>6, <1>7, <1>8 DEF FlashInv

-----------------------------------------------------------------------------
(* The driver of the flash: its steps *)

\* What the invariant says of the variables by name.
LEMMA FlashFields ==
    ASSUME FlashInv, Flash!LldFlashAssumption
    PROVE  /\ mem \in FlashMem /\ lldChip \in LldChips /\ call \in Calls /\ chunk \in Chunks /\ before \in Befores
           /\ lldChip.op \in Ops /\ lldChip.at \in Nat /\ lldChip.data \in Seq(Bytes) /\ lldChip.dq6 \in BOOLEAN
           /\ call.pc \in CallPcs /\ call.offset \in Nat /\ call.offset <= FlashCells
           /\ call.data \in Seq(Bytes) /\ call.status \in Flash!Statuses
           /\ chunk.at \in Nat /\ chunk.len \in Nat
           /\ reads \in Seq(Flash!Byte) /\ Len(reads) \in 0 .. 3
           /\ before.at \in Nat /\ before.data \in Seq(Bytes) /\ before.mem \in FlashMem /\ before.late \in BOOLEAN
           /\ Len(call.data) \in 0 .. MaxCount /\ Len(lldChip.data) \in 0 .. MaxCount /\ Len(before.data) \in Nat
           /\ before.at + Len(before.data) <= FlashCells
  <1>1. FlashTypes /\ CallInv
    BY Zenon DEF FlashInv
  <1>2. FlashCells \in Nat
    BY FlashSizes
  <1>3. before.data \in Seq(Bytes)
    BY <1>1 DEF FlashTypes, Befores
  <1>4. Len(before.data) \in Nat
    BY <1>3
  <1> QED BY <1>1, <1>2, <1>3, <1>4 DEF FlashTypes, CallInv, LldChips, Calls, Chunks, Befores

LEMMA DataIsSequence ==
    ASSUME Flash!LldFlashAssumption, NEW d \in Flash!Data
    PROVE  d \in Seq(Bytes) /\ Len(d) \in 1 .. MaxCount
  <1>1. PICK n \in 1 .. MaxCount : d \in [1 .. n -> Bytes]
    BY DEF Flash!Data
  <1>2. n \in Nat /\ MaxCount \in Nat
    BY FlashSizes
  <1>3. d \in Seq(Bytes) /\ Len(d) = n
    BY <1>1, <1>2
  <1> QED BY <1>2, <1>3

LEMMA StartStep ==
    ASSUME Flash!LldFlashAssumption, FlashInv, Flash!Start
    PROVE  FlashInv'
  <1>1. PICK d \in Flash!Data, o \in Flash!Addresses :
            /\ o + Len(d) <= FlashCells
            /\ call' = [pc |-> "next", offset |-> o, data |-> d, status |-> "NOT_BUSY"]
            /\ before' = [at |-> o, data |-> d, mem |-> mem, late |-> FALSE]
    BY Zenon DEF Flash!Start
  <1>2. call.pc = "idle" /\ mem' = mem /\ lldChip' = lldChip /\ chunk' = chunk /\ reads' = reads
    BY Zenon DEF Flash!Start
  <1>3. d \in Seq(Bytes) /\ Len(d) \in 1 .. MaxCount /\ o \in 0 .. FlashCells - 1
    BY DataIsSequence, FlashSizes
  <1>4. FlashTypes /\ ChipInv /\ ReadInv
    BY Zenon DEF FlashInv
  <1>5. lldChip.op = "ready" /\ Len(reads) = 0
    BY <1>2, <1>4 DEF ChipInv, ReadInv
  <1>6. MaxCount \in Nat /\ FlashCells \in Nat /\ Len(d) \in 0 .. MaxCount /\ o \in 0 .. FlashCells
    BY <1>3, FlashSizes
  <1>7. FlashTypes'
    BY <1>1, <1>2, <1>3, <1>4, <1>6 DEF FlashTypes, Calls, CallPcs, Befores, Flash!Statuses
  <1>8. CallInv'
    BY <1>1, <1>3, <1>6 DEF CallInv
  <1>9. ChipInv' /\ ReadInv'
    BY <1>1, <1>2, <1>5 DEF ChipInv, ReadInv
  <1>10. MemInv'
    <2>1. /\ before'.at = o /\ before'.data = d /\ before'.mem = mem /\ call'.offset = o /\ call'.pc = "next"
      BY <1>1
    <2>2. \A a : ~Written(a)'
      BY <2>1 DEF Written
    <2>3. o .. o - 1 = {}
      BY <1>6
    <2> QED BY <1>2, <2>1, <2>2, <2>3 DEF MemInv, Flash!WasErased, Flash!Range
  <1>11. (Flash!NoFalseAlarm)'
    BY <1>1 DEF Flash!NoFalseAlarm
  <1> QED BY <1>7, <1>8, <1>9, <1>10, <1>11, Zenon DEF FlashInv

\* A piece is not longer than what is left, and lies on one page.
LEMMA PieceFits ==
    ASSUME Flash!LldFlashAssumption, NEW x \in Nat, NEW m \in Nat \ {0}
    PROVE  /\ Flash!PieceLength(x, m) \in 1 .. m
           /\ Flash!SamePage(x, Flash!PieceLength(x, m))
  <1>1. BufferSize \in Nat \ {0}
    BY FlashSizes
  <1> DEFINE n == Flash!PieceLength(x, m)
             r == BufferSize - (x % BufferSize)
  <1>2. x % BufferSize \in 0 .. BufferSize - 1
    BY <1>1, Divided
  <1>3. r \in Nat \ {0}
    BY <1>1, <1>2
  <1>4. n = IF m < r THEN m ELSE r
    BY DEF Flash!PieceLength, Flash!Smaller
  <1> HIDE DEF n
  <1>5. n \in 1 .. m /\ n \in 1 .. r
    <2> HIDE DEF r
    <2> QED BY <1>3, <1>4
  <1>6. x \div BufferSize = (x + n - 1) \div BufferSize
    BY <1>1, <1>5, OnePage
  <1> QED BY <1>5, <1>6 DEF n, Flash!SamePage

LEMMA ProgramStep ==
    ASSUME Flash!LldFlashAssumption, FlashInv, Flash!Program
    PROVE  FlashInv'
  <1>1. /\ call.pc = "next" /\ mem' = mem /\ reads' = reads /\ before' = before
        /\ IF call.data = <<>>
           THEN /\ call' = [call EXCEPT !.pc = "idle"]
                /\ lldChip' = lldChip /\ chunk' = chunk
           ELSE LET n == Flash!PieceLength(call.offset, Len(call.data)) IN
                /\ lldChip' = Flash!Loaded(call.offset, SubSeq(call.data, 1, n))
                /\ chunk' = [at |-> call.offset, len |-> n]
                /\ call' = [call EXCEPT !.pc = "status"]
    BY Zenon DEF Flash!Program
  <1>2. FlashTypes /\ CallInv /\ ChipInv /\ ReadInv /\ MemInv /\ Flash!NoFalseAlarm
    BY Zenon DEF FlashInv
  <1>3. lldChip.op = "ready" /\ Len(reads) = 0 /\ call.status = "NOT_BUSY"
    BY <1>1, <1>2 DEF ChipInv, ReadInv, CallInv
  <1>4. /\ call.offset \in Nat /\ call.offset <= FlashCells /\ call.data \in Seq(Bytes)
        /\ Len(call.data) \in 0 .. MaxCount /\ FlashCells \in Nat /\ MaxCount \in Nat
    BY FlashFields, FlashSizes
  <1>5. CASE call.data = <<>>
    <2>1. call' = [call EXCEPT !.pc = "idle"] /\ lldChip' = lldChip /\ chunk' = chunk
      BY <1>1, <1>5
    <2>2. /\ call'.pc = "idle" /\ call'.offset = call.offset /\ call'.data = call.data
          /\ call'.status = call.status /\ call' \in Calls /\ Len(call.data) = 0
      BY <1>2, <1>5, <2>1 DEF FlashTypes, Calls, CallPcs
    <2>3. FlashTypes'
      BY <1>1, <1>2, <2>1, <2>2 DEF FlashTypes
    <2>4. CallInv' /\ ChipInv' /\ ReadInv'
      BY <1>1, <1>2, <1>3, <2>1, <2>2 DEF CallInv, ChipInv, ReadInv
    <2>5. MemInv'
      BY <1>1, <1>2, <2>1, <2>2 DEF MemInv, Flash!Range, Flash!WasErased, Written
    <2>6. (Flash!NoFalseAlarm)'
      BY <1>3, <2>2 DEF Flash!NoFalseAlarm
    <2> QED BY <2>3, <2>4, <2>5, <2>6, Zenon DEF FlashInv
  <1>6. CASE call.data # <<>>
    <2> DEFINE n == Flash!PieceLength(call.offset, Len(call.data))
               d == SubSeq(call.data, 1, n)
    <2>1. /\ lldChip' = Flash!Loaded(call.offset, d) /\ chunk' = [at |-> call.offset, len |-> n]
          /\ call' = [call EXCEPT !.pc = "status"]
      BY <1>1, <1>6
    <2>2. Len(call.data) \in Nat \ {0}
      BY <1>4, <1>6
    <2>3. n \in 1 .. Len(call.data) /\ Flash!SamePage(call.offset, n)
      BY <1>4, <2>2, PieceFits
    <2>4. d \in Seq(Bytes) /\ Len(d) = n /\ \A i \in 1 .. n : d[i] = call.data[i]
      <3> HIDE DEF n
      <3>1. n \in 0 .. Len(call.data)
        BY <2>2, <2>3
      <3> QED BY <1>4, <3>1, Pieces
    <2> HIDE DEF n, d
    <2>5. lldChip' = [op |-> "program", at |-> call.offset, data |-> d, dq6 |-> FALSE]
      BY <2>1, <2>3, <2>4 DEF Flash!Loaded
    <2>6. /\ call'.pc = "status" /\ call'.offset = call.offset /\ call'.data = call.data
          /\ call'.status = call.status /\ call' \in Calls
      BY <1>2, <2>1 DEF FlashTypes, Calls, CallPcs
    <2>7. n \in 0 .. MaxCount /\ call.offset \in 0 .. FlashCells
      BY <1>4, <2>3
    <2>8. lldChip' \in LldChips /\ chunk' \in Chunks
      BY <2>1, <2>4, <2>5, <2>7 DEF LldChips, Ops, Chunks
    <2>9. FlashTypes'
      BY <1>1, <1>2, <2>4, <2>5, <2>6, <2>7, <2>8 DEF FlashTypes
    <2>10. CallInv'
      BY <1>1, <1>2, <1>3, <2>1, <2>3, <2>6 DEF CallInv
    <2>11. ChipInv' /\ ReadInv'
      BY <1>1, <1>3, <2>1, <2>4, <2>5, <2>6 DEF ChipInv, ReadInv
    <2>12. MemInv'
      <3>1. lldChip'.op = "program" /\ \A a : ~Written(a) /\ ~Written(a)'
        BY <1>1, <2>5, <2>6 DEF Written
      <3> QED BY <1>1, <1>2, <1>3, <2>6, <3>1 DEF MemInv, Flash!Range, Flash!WasErased
    <2>13. (Flash!NoFalseAlarm)'
      BY <1>3, <2>6 DEF Flash!NoFalseAlarm
    <2> QED BY <2>9, <2>10, <2>11, <2>12, <2>13, Zenon DEF FlashInv
  <1> QED BY <1>5, <1>6

LEMMA ReadStatusStep ==
    ASSUME Flash!LldFlashAssumption, FlashInv, Flash!ReadStatus
    PROVE  FlashInv'
  <1> DEFINE rd == Flash!ReadOf(Flash!Polled)
             m == Len(reads)
  <1>1. /\ call.pc = "status" /\ m < 3 /\ reads' = Append(reads, rd)
        /\ lldChip' = IF lldChip.op = "ready" THEN lldChip ELSE [lldChip EXCEPT !.dq6 = ~@]
        /\ mem' = mem /\ call' = call /\ chunk' = chunk /\ before' = before
    BY DEF Flash!ReadStatus, Flash!Needed, Flash!AfterRead
  <1>2. FlashTypes /\ CallInv /\ ChipInv /\ ReadInv /\ MemInv /\ Flash!NoFalseAlarm
    BY Zenon DEF FlashInv
  <1>3. Flash!Polled \in Flash!Addresses
    <2>1. chunk.at = call.offset /\ chunk.len \in 1 .. Len(call.data)
      BY <1>1, <1>2 DEF CallInv
    <2>2. call.offset + Len(call.data) <= FlashCells
      <3>1. call.status = "NOT_BUSY"
        BY <1>1, <1>2 DEF CallInv
      <3>2. call.offset + Len(call.data) = before.at + Len(before.data)
        BY <1>2, <3>1 DEF CallInv
      <3> QED BY <3>2, FlashFields
    <2>3. call.offset \in Nat /\ Len(call.data) \in Nat /\ FlashCells \in Nat /\ Flash!Addresses = 0 .. FlashCells - 1
      BY FlashFields, FlashSizes
    <2>4. call.offset + chunk.len - 1 \in 0 .. FlashCells - 1
      BY <2>1, <2>2, <2>3
    <2> QED BY <2>1, <2>3, <2>4 DEF Flash!Polled
  <1>4. lldChip.op # "ready" => /\ rd.dq1 = FALSE /\ rd.dq5 = (lldChip.op = "exceeded") /\ rd.dq6 = lldChip.dq6
                                /\ rd = Flash!Status
    BY <1>2 DEF Flash!ReadOf, Flash!Status, ChipInv
  <1>5. lldChip.op = "ready" => rd = mem[Flash!Polled]
    BY DEF Flash!ReadOf
  <1>6. rd \in Flash!Byte
    <2>1. CASE lldChip.op = "ready"
      BY <1>2, <1>3, <1>5, <2>1 DEF FlashTypes, FlashMem
    <2>2. CASE lldChip.op # "ready"
      <3>1. lldChip.dq6 \in BOOLEAN
        BY FlashFields
      <3>2. Flash!Status \in Flash!Byte
        BY <3>1 DEF Flash!Status, Flash!Byte
      <3> QED BY <1>4, <2>2, <3>2
    <2> QED BY <2>1, <2>2
  <1>7. reads \in Seq(Flash!Byte) /\ m \in 0 .. 2
    BY <1>1, FlashFields
  <1> HIDE DEF rd
  <1>8. /\ reads' \in Seq(Flash!Byte) /\ Len(reads') = m + 1 /\ reads'[m + 1] = rd
        /\ \A i \in 1 .. m : reads'[i] = reads[i]
    BY <1>1, <1>6, <1>7
  <1> HIDE DEF m
  <1>9. /\ lldChip'.op = lldChip.op /\ lldChip'.at = lldChip.at /\ lldChip'.data = lldChip.data
        /\ lldChip' \in LldChips /\ (lldChip.op # "ready" => lldChip'.dq6 = ~lldChip.dq6)
    BY <1>1, <1>2 DEF FlashTypes, LldChips
  <1>10. FlashTypes'
    <2>1. Len(reads') \in 0 .. 3
      BY <1>7, <1>8
    <2> QED BY <1>1, <1>2, <1>8, <1>9, <2>1 DEF FlashTypes
  <1>11. CallInv' /\ ChipInv'
    BY <1>1, <1>2, <1>9 DEF CallInv, ChipInv
  <1>12. ReadInv'
    <2>1. CASE lldChip.op # "ready"
      <3>1. /\ \A i \in 1 .. m : ~reads[i].dq1 /\ (lldChip.op = "program" => ~reads[i].dq5)
            /\ \A i \in 1 .. m - 1 : reads[i].dq6 # reads[i + 1].dq6
            /\ m # 0 => reads[m].dq6 # lldChip.dq6
        BY <1>2, <2>1 DEF ReadInv, m
      <3>2. \A i \in 1 .. m + 1 : ~reads'[i].dq1 /\ (lldChip'.op = "program" => ~reads'[i].dq5)
        <4>1. TAKE i \in 1 .. m + 1
        <4>2. CASE i = m + 1
          BY <1>4, <1>8, <1>9, <2>1, <4>2
        <4>3. CASE i \in 1 .. m
          BY <1>8, <1>9, <3>1, <4>3
        <4> QED BY <1>7, <4>2, <4>3
      <3>3. \A i \in 1 .. m : reads'[i].dq6 # reads'[i + 1].dq6
        <4>1. TAKE i \in 1 .. m
        <4>2. CASE i = m
          BY <1>4, <1>7, <1>8, <2>1, <3>1, <4>2
        <4>3. CASE i \in 1 .. m - 1
          <5>1. i \in 1 .. m /\ i + 1 \in 1 .. m
            BY <1>7, <4>3
          <5> QED BY <1>8, <3>1, <4>3, <5>1
        <4> QED BY <1>7, <4>2, <4>3
      <3>4. reads'[m + 1].dq6 # lldChip'.dq6
        <4>1. lldChip.dq6 \in BOOLEAN
          BY FlashFields
        <4> QED BY <1>4, <1>8, <1>9, <2>1, <4>1
      <3>5. /\ \A i \in 1 .. Len(reads') : ~reads'[i].dq1 /\ (lldChip'.op = "program" => ~reads'[i].dq5)
            /\ \A i \in 1 .. Len(reads') - 1 : reads'[i].dq6 # reads'[i + 1].dq6
            /\ reads'[Len(reads')].dq6 # lldChip'.dq6
        <4>1. Len(reads') = m + 1 /\ Len(reads') - 1 = m
          BY <1>7, <1>8
        <4>2. \A i \in 1 .. Len(reads') - 1 : reads'[i].dq6 # reads'[i + 1].dq6
          BY <3>3, <4>1, Zenon
        <4>3. \A i \in 1 .. Len(reads') : ~reads'[i].dq1 /\ (lldChip'.op = "program" => ~reads'[i].dq5)
          BY <3>2, <4>1, Zenon
        <4>4. reads'[Len(reads')].dq6 # lldChip'.dq6
          BY <3>4, <4>1, Zenon
        <4> QED BY <4>2, <4>3, <4>4, Zenon
      <3>6. call'.pc = "status" /\ lldChip'.op # "ready"
        BY <1>1, <1>9, <2>1
      <3> QED BY <3>5, <3>6, Zenon DEF ReadInv
    <2>2. CASE lldChip.op = "ready"
      <3>1. Flash!Polled' = Flash!Polled
        BY <1>1 DEF Flash!Polled
      <3>2. CASE m = 0
        <4>1. \A i \in 1 .. m + 1 : i = m + 1
          BY <3>2
        <4>2. \A i \in 1 .. m + 1 : reads'[i] = mem'[Flash!Polled']
          BY <1>1, <1>5, <1>8, <2>2, <3>1, <4>1
        <4> QED BY <1>1, <1>8, <1>9, <2>2, <4>2 DEF ReadInv
      <3>3. CASE m # 0
        <4>1. reads'[1] = reads[1]
          BY <1>7, <1>8, <3>3
        <4>2. CASE ~reads[1].dq1 /\ ~reads[1].dq5
          BY <1>1, <1>9, <2>2, <4>1, <4>2 DEF ReadInv
        <4>3. CASE \A i \in 1 .. m : reads[i] = mem[Flash!Polled]
          <5>1. \A i \in 1 .. m + 1 : i = m + 1 \/ i \in 1 .. m
            BY <1>7
          <5>2. \A i \in 1 .. m + 1 : reads'[i] = mem'[Flash!Polled']
            BY <1>1, <1>5, <1>8, <2>2, <3>1, <4>3, <5>1
          <5> QED BY <1>1, <1>8, <1>9, <2>2, <5>2 DEF ReadInv
        <4> QED BY <1>2, <2>2, <3>3, <4>2, <4>3 DEF ReadInv, m
      <3> QED BY <3>2, <3>3
    <2> QED BY <2>1, <2>2
  <1>13. MemInv' /\ (Flash!NoFalseAlarm)'
    BY <1>1, <1>2, <1>9 DEF MemInv, Flash!Range, Flash!WasErased, Written, Flash!NoFalseAlarm
  <1> QED BY <1>10, <1>11, <1>12, <1>13, Zenon DEF FlashInv

\* What the three reads of the status can mean.
LEMMA StatusMeans ==
    ASSUME Flash!LldFlashAssumption, FlashInv, call.pc = "status", Len(reads) = 3
    PROVE  /\ Flash!StatusOf(reads) \in {"BUSY", "NOT_BUSY", "EXCEEDED"}
           /\ Flash!StatusOf(reads) = "NOT_BUSY" => lldChip.op = "ready"
           /\ Flash!StatusOf(reads) = "EXCEEDED" => lldChip.op = "exceeded"
  <1>1. ReadInv /\ ChipInv /\ lldChip.op \in Ops
    BY FlashFields, Zenon DEF FlashInv
  <1>2. Flash!StatusOf(reads) \in {"BUSY", "NOT_BUSY", "EXCEEDED", "ABORT"}
    BY DEF Flash!StatusOf
  <1>3. 1 \in 1 .. 3 /\ 2 \in 1 .. 3 /\ 3 \in 1 .. 3 /\ 1 \in 1 .. 3 - 1 /\ 2 \in 1 .. 3 - 1
    OBVIOUS
  <1>4. CASE lldChip.op # "ready"
    <2>1. /\ \A i \in 1 .. 3 : ~reads[i].dq1 /\ (lldChip.op = "program" => ~reads[i].dq5)
          /\ \A i \in 1 .. 3 - 1 : reads[i].dq6 # reads[i + 1].dq6
      BY <1>1, <1>4 DEF ReadInv
    <2>2. /\ ~reads[1].dq1 /\ (lldChip.op = "program" => ~reads[1].dq5)
          /\ reads[1].dq6 # reads[2].dq6 /\ reads[2].dq6 # reads[3].dq6
      BY <1>3, <2>1
    <2>3. lldChip.op \in {"program", "exceeded"}
      BY <1>1, <1>4 DEF ChipInv, Ops
    <2> QED BY <2>2, <2>3 DEF Flash!StatusOf
  <1>5. CASE lldChip.op = "ready"
    <2>1. CASE ~reads[1].dq1 /\ ~reads[1].dq5
      BY <1>5, <2>1 DEF Flash!StatusOf
    <2>2. CASE \A i \in 1 .. 3 : reads[i] = mem[Flash!Polled]
      <3>1. reads[1].dq6 = reads[2].dq6
        BY <1>3, <2>2
      <3> QED BY <1>5, <3>1 DEF Flash!StatusOf
    <2> QED BY <1>1, <1>5, <2>1, <2>2 DEF ReadInv
  <1> QED BY <1>4, <1>5

LEMMA PollStep ==
    ASSUME Flash!LldFlashAssumption, FlashInv, Flash!Poll
    PROVE  FlashInv'
  <1> DEFINE s == Flash!StatusOf(reads)
  <1>1. /\ call.pc = "status" /\ Len(reads) = 3 /\ reads' = <<>>
        /\ mem' = mem /\ chunk' = chunk /\ before' = before
        /\ CASE s = "BUSY" -> call' = call /\ lldChip' = lldChip
             [] s = "NOT_BUSY" -> call' = [call EXCEPT !.pc = "verify"] /\ lldChip' = lldChip
             [] s \in {"ABORT", "EXCEEDED"} -> /\ call' = [call EXCEPT !.pc = "idle", !.status = s]
                                               /\ lldChip' = Flash!AfterReset(s)
    BY DEF Flash!Poll, Flash!Needed
  <1>2. FlashTypes /\ CallInv /\ ChipInv /\ ReadInv /\ MemInv /\ Flash!NoFalseAlarm
    BY Zenon DEF FlashInv
  <1>3. /\ s \in {"BUSY", "NOT_BUSY", "EXCEEDED"} /\ (s = "NOT_BUSY" => lldChip.op = "ready")
        /\ (s = "EXCEEDED" => lldChip.op = "exceeded")
    BY <1>1, StatusMeans
  <1>4. reads' \in Seq(Flash!Byte) /\ Len(reads') = 0
    BY <1>1
  <1> HIDE DEF s
  <1>5. CASE s = "BUSY"
    <2>1. call' = call /\ lldChip' = lldChip
      BY <1>1, <1>5
    <2>2. FlashTypes' /\ CallInv' /\ ChipInv'
      BY <1>1, <1>2, <1>4, <2>1 DEF FlashTypes, CallInv, ChipInv
    <2>3. ReadInv'
      BY <1>4 DEF ReadInv
    <2>4. MemInv' /\ (Flash!NoFalseAlarm)'
      BY <1>1, <1>2, <2>1 DEF MemInv, Flash!Range, Flash!WasErased, Written, Flash!NoFalseAlarm
    <2> QED BY <2>2, <2>3, <2>4, Zenon DEF FlashInv
  <1>6. CASE s = "NOT_BUSY"
    <2>1. call' = [call EXCEPT !.pc = "verify"] /\ lldChip' = lldChip /\ lldChip.op = "ready"
      BY <1>1, <1>3, <1>6
    <2>2. /\ call'.pc = "verify" /\ call'.offset = call.offset /\ call'.data = call.data
          /\ call'.status = call.status /\ call' \in Calls
      BY <1>2, <2>1 DEF FlashTypes, Calls, CallPcs
    <2>3. FlashTypes'
      BY <1>1, <1>2, <1>4, <2>1, <2>2 DEF FlashTypes
    <2>4. CallInv' /\ ChipInv'
      BY <1>1, <1>2, <2>1, <2>2 DEF CallInv, ChipInv
    <2>5. ReadInv'
      BY <1>4 DEF ReadInv
    <2>6. MemInv' /\ (Flash!NoFalseAlarm)'
      BY <1>1, <1>2, <2>1, <2>2 DEF MemInv, Flash!Range, Flash!WasErased, Written, Flash!NoFalseAlarm
    <2> QED BY <2>3, <2>4, <2>5, <2>6, Zenon DEF FlashInv
  <1>7. CASE s = "EXCEEDED"
    <2>1. /\ call' = [call EXCEPT !.pc = "idle", !.status = "EXCEEDED"] /\ lldChip' = Flash!Ready
          /\ lldChip.op = "exceeded" /\ before.late
      BY <1>1, <1>2, <1>3, <1>7 DEF Flash!AfterReset, ChipInv
    <2>2. /\ call'.pc = "idle" /\ call'.offset = call.offset /\ call'.data = call.data
          /\ call'.status = "EXCEEDED" /\ call' \in Calls
      BY <1>2, <2>1 DEF FlashTypes, Calls, CallPcs, Flash!Statuses
    <2>3. lldChip' \in LldChips /\ lldChip'.op = "ready" /\ Len(lldChip'.data) = 0
      <3>1. <<>> \in Seq(Bytes) /\ Len(<<>>) = 0 /\ 0 \in 0 .. FlashCells
        BY FlashSizes
      <3> QED BY <2>1, <3>1 DEF Flash!Ready, LldChips, Ops
    <2>4. FlashTypes'
      <3>1. 0 \in 0 .. MaxCount
        BY FlashSizes
      <3> QED BY <1>1, <1>2, <1>4, <2>2, <2>3, <3>1 DEF FlashTypes
    <2>5. CallInv' /\ ChipInv'
      BY <1>1, <1>2, <2>2, <2>3 DEF CallInv, ChipInv
    <2>6. ReadInv'
      BY <1>4 DEF ReadInv
    <2>7. MemInv' /\ (Flash!NoFalseAlarm)'
      BY <1>1, <1>2, <2>1, <2>2 DEF MemInv, Flash!Range, Flash!WasErased, Flash!NoFalseAlarm
    <2> QED BY <2>4, <2>5, <2>6, <2>7, Zenon DEF FlashInv
  <1> QED BY <1>3, <1>5, <1>6, <1>7

\* What is left once a piece of n bytes was written.
LEMMA Advanced ==
    ASSUME NEW o \in Nat, NEW b \in Nat, NEW c \in Nat, NEW n \in 1 .. c, NEW m \in Nat, NEW C \in Nat,
           o + c <= C, b <= o, c <= m
    PROVE  o + n \in 0 .. C /\ c - n \in 0 .. m /\ o + n + (c - n) = o + c /\ b <= o + n
  OBVIOUS

LEMMA RestOfData ==
    ASSUME NEW x \in Seq(Bytes), NEW n \in 0 .. Len(x)
    PROVE  /\ Flash!Rest(x, n) \in Seq(Bytes) /\ Len(Flash!Rest(x, n)) = Len(x) - n
           /\ \A i \in 1 .. Len(x) - n : Flash!Rest(x, n)[i] = x[n + i]
  BY Pieces

LEMMA MemOfVerify ==
    ASSUME MemInv, call.pc = "verify", call.status = "NOT_BUSY", lldChip.op = "ready"
    PROVE  /\ \A a \in Flash!Addresses \ Flash!Range : mem[a] = before.mem[a]
           /\ Flash!WasErased =>
                  /\ \A a \in before.at .. call.offset - 1 : mem[a] = before.data[a - before.at + 1]
                  /\ \A a \in call.offset .. before.at + Len(before.data) - 1 :
                         a < call.offset + chunk.len => mem[a] = before.data[a - before.at + 1]
                  /\ \A a \in call.offset .. before.at + Len(before.data) - 1 :
                         ~(a < call.offset + chunk.len) => mem[a] = Flash!Blank
  <1>1. \A a : Written(a) <=> a < call.offset + chunk.len
    BY Zenon DEF Written
  <1>2. lldChip.op # "exceeded"
    OBVIOUS
  <1>3. \A a \in Flash!Addresses \ Flash!Range : mem[a] = before.mem[a]
    BY Zenon DEF MemInv
  <1>4. Flash!WasErased => \A a \in before.at .. call.offset - 1 : mem[a] = before.data[a - before.at + 1]
    BY Zenon DEF MemInv
  <1>5. Flash!WasErased => \A a \in call.offset .. before.at + Len(before.data) - 1 :
            mem[a] = IF Written(a) THEN before.data[a - before.at + 1] ELSE Flash!Blank
    BY <1>2, Zenon DEF MemInv
  <1>6. Flash!WasErased => \A a \in call.offset .. before.at + Len(before.data) - 1 :
            Written(a) => mem[a] = before.data[a - before.at + 1]
    BY <1>5, Zenon
  <1>7. Flash!WasErased => \A a \in call.offset .. before.at + Len(before.data) - 1 :
            ~Written(a) => mem[a] = Flash!Blank
    BY <1>5, Zenon
  <1> QED BY <1>1, <1>3, <1>4, <1>6, <1>7, Zenon

LEMMA VerifyStep ==
    ASSUME Flash!LldFlashAssumption, FlashInv, Flash!Verify
    PROVE  FlashInv'
  <1>1. /\ call.pc = "verify" /\ mem' = mem /\ chunk' = chunk /\ reads' = reads /\ before' = before
        /\ lldChip' = Flash!AfterRead
        /\ call' = IF Flash!ReadOf(Flash!Polled) = call.data[chunk.len]
                   THEN [call EXCEPT !.pc = "next", !.offset = @ + chunk.len, !.data = Flash!Rest(@, chunk.len)]
                   ELSE [call EXCEPT !.pc = "idle", !.status = "VERIFY"]
    BY DEF Flash!Verify
  <1>2. FlashTypes /\ CallInv /\ ChipInv /\ ReadInv /\ MemInv /\ Flash!NoFalseAlarm
    BY Zenon DEF FlashInv
  <1>3. lldChip.op = "ready" /\ lldChip' = lldChip /\ Flash!ReadOf(Flash!Polled) = mem[Flash!Polled] /\ Len(reads) = 0
    BY <1>1, <1>2 DEF ChipInv, ReadInv, Flash!AfterRead, Flash!ReadOf
  <1> DEFINE n == chunk.len
             o == call.offset
             e == before.at + Len(before.data)
             z == before.at + Len(before.data) - 1
  <1>4. /\ call.status = "NOT_BUSY" /\ chunk.at = o /\ n \in 1 .. Len(call.data)
        /\ o + Len(call.data) = e /\ before.at <= o
        /\ \A i \in 1 .. Len(call.data) : call.data[i] = before.data[o - before.at + i]
    BY <1>1, <1>2 DEF CallInv
  <1>5. /\ o \in Nat /\ before.at \in Nat /\ Len(call.data) \in Nat /\ e <= FlashCells /\ FlashCells \in Nat
        /\ call.data \in Seq(Bytes) /\ MaxCount \in Nat /\ Len(call.data) <= MaxCount /\ e \in Nat /\ z = e - 1
    <2>1. /\ o \in Nat /\ before.at \in Nat /\ Len(call.data) \in 0 .. MaxCount /\ e <= FlashCells
          /\ Len(before.data) \in Nat /\ call.data \in Seq(Bytes)
      BY FlashFields, Zenon
    <2>2. FlashCells \in Nat /\ MaxCount \in Nat
      BY FlashSizes
    <2>3. e \in Nat /\ z = e - 1
      BY <2>1
    <2> HIDE DEF o, e, z
    <2> QED BY <2>1, <2>2, <2>3
  <1>6. Flash!Polled = o + n - 1
    BY <1>4 DEF Flash!Polled
  <1>7. /\ \A a \in Flash!Addresses \ Flash!Range : mem[a] = before.mem[a]
        /\ Flash!WasErased =>
               /\ \A a \in before.at .. o - 1 : mem[a] = before.data[a - before.at + 1]
               /\ \A a \in o .. z : a < o + n => mem[a] = before.data[a - before.at + 1]
               /\ \A a \in o .. z : ~(a < o + n) => mem[a] = Flash!Blank
    <2>1. MemInv /\ call.pc = "verify" /\ call.status = "NOT_BUSY" /\ lldChip.op = "ready"
      BY <1>1, <1>2, <1>3, <1>4
    <2> QED BY <2>1, MemOfVerify, Zenon
  <1> HIDE DEF n, o, e, z
  <1>8. CASE mem[Flash!Polled] = call.data[n]
    <2>1. call' = [call EXCEPT !.pc = "next", !.offset = @ + n, !.data = Flash!Rest(@, n)]
      BY <1>1, <1>3, <1>8 DEF n
    <2> DEFINE d == Flash!Rest(call.data, n)
    <2>2. /\ d \in Seq(Bytes) /\ Len(d) = Len(call.data) - n
          /\ \A i \in 1 .. Len(call.data) - n : d[i] = call.data[n + i]
      <3>1. n \in 0 .. Len(call.data)
        BY <1>4, <1>5
      <3>2. call.data \in Seq(Bytes)
        BY <1>5
      <3> QED BY <3>1, <3>2, RestOfData
    <2> HIDE DEF d
    <2>3. o + n \in 0 .. FlashCells /\ Len(d) \in 0 .. MaxCount /\ o + n + Len(d) = e /\ before.at <= o + n
      <3> DEFINE l == Len(d)
                 c == Len(call.data)
      <3>1. l = c - n /\ c \in Nat /\ n \in 1 .. c /\ c <= MaxCount /\ o + c = e
        BY <1>4, <1>5, <2>2
      <3> HIDE DEF l, c
      <3>2. o + n \in 0 .. FlashCells /\ l \in 0 .. MaxCount /\ o + n + l = e /\ before.at <= o + n
        BY <1>4, <1>5, <3>1, Advanced
      <3> QED BY <3>2 DEF l
    <2>4. /\ call'.pc = "next" /\ call'.offset = o + n /\ call'.data = d /\ call'.status = "NOT_BUSY"
          /\ call' \in Calls
      BY <1>2, <1>4, <2>1, <2>2, <2>3 DEF FlashTypes, Calls, CallPcs, d, o
    <2>5. FlashTypes'
      BY <1>1, <1>2, <1>3, <2>2, <2>3, <2>4 DEF FlashTypes
    <2>6. \A i \in 1 .. Len(d) : d[i] = before.data[(o + n) - before.at + i]
      <3>1. TAKE i \in 1 .. Len(d)
      <3>2. n + i \in 1 .. Len(call.data) /\ i \in 1 .. Len(call.data) - n
            /\ o - before.at + (n + i) = (o + n) - before.at + i
        <4>1. Len(d) = Len(call.data) - n /\ n \in 1 .. Len(call.data) /\ Len(call.data) \in Nat
          BY <1>4, <1>5, <2>2
        <4>2. i \in 1 .. Len(call.data) - n
          BY <4>1
        <4>3. n + i \in 1 .. Len(call.data)
          BY <4>1, <4>2
        <4>4. o \in Nat /\ before.at \in Nat /\ n \in Nat /\ i \in Nat
          BY <1>5, <4>1
        <4>5. o - before.at + (n + i) = (o + n) - before.at + i
          BY <4>4
        <4> QED BY <4>2, <4>3, <4>5, Zenon
      <3>3. call.data[n + i] = before.data[o - before.at + (n + i)]
        BY <1>4, <3>2
      <3> QED BY <2>2, <3>2, <3>3
    <2>7. CallInv'
      <3>1. before.at + Len(before.data) = e
        BY DEF e
      <3>2. before.at + Len(before.data) <= FlashCells
        BY <1>5, <3>1
      <3>3. call'.offset + Len(call'.data) = before.at + Len(before.data) /\ before.at <= call'.offset
        BY <2>3, <2>4, <3>1
      <3>4. \A i \in 1 .. Len(call'.data) : call'.data[i] = before.data[call'.offset - before.at + i]
        <4>1. call'.data = d /\ call'.offset = o + n
          BY <2>4
        <4> QED BY <2>6, <4>1, Zenon
      <3> QED BY <1>1, <2>4, <3>2, <3>3, <3>4, Zenon DEF CallInv
    <2>8. ChipInv' /\ ReadInv'
      BY <1>1, <1>3, <2>4 DEF ChipInv, ReadInv
    <2>9. Flash!WasErased =>
              /\ \A a \in before.at .. (o + n) - 1 : mem[a] = before.data[a - before.at + 1]
              /\ \A a \in o + n .. z : mem[a] = Flash!Blank
      <3>1. SUFFICES ASSUME Flash!WasErased
                     PROVE  /\ \A a \in before.at .. (o + n) - 1 : mem[a] = before.data[a - before.at + 1]
                            /\ \A a \in o + n .. z : mem[a] = Flash!Blank
        OBVIOUS
      <3>2. \A a \in before.at .. (o + n) - 1 : a \in before.at .. o - 1 \/ (a \in o .. z /\ a < o + n)
        BY <1>4, <1>5
      <3>3. \A a \in o + n .. z : a \in o .. z /\ ~(a < o + n)
        BY <1>4, <1>5
      <3> QED BY <1>7, <3>1, <3>2, <3>3
    <2>10. MemInv'
      <3>1. /\ (Flash!Range)' = Flash!Range /\ (Flash!WasErased)' = Flash!WasErased
            /\ before' = before /\ mem' = mem
        BY <1>1 DEF Flash!Range, Flash!WasErased
      <3>2. \A a : ~Written(a)'
        BY <2>4 DEF Written
      <3>3. call'.offset = o + n /\ before.at + Len(before.data) = e
        BY <2>4 DEF e
      <3>4. Flash!WasErased => \A a \in before.at .. call'.offset - 1 : mem[a] = before.data[a - before.at + 1]
        <4>1. call'.offset = o + n
          BY <3>3
        <4> QED BY <2>9, <4>1, Zenon
      <3>5. Flash!WasErased => \A a \in call'.offset .. before.at + Len(before.data) - 1 :
                mem[a] = IF Written(a)' THEN before.data[a - before.at + 1] ELSE Flash!Blank
        <4>1. call'.offset = o + n
          BY <3>3
        <4>2. before.at + Len(before.data) - 1 = z
          BY DEF z
        <4>3. Flash!WasErased => \A a \in o + n .. z : mem[a] = Flash!Blank
          BY <2>9, Zenon
        <4>4. Flash!WasErased => \A a \in call'.offset .. before.at + Len(before.data) - 1 : mem[a] = Flash!Blank
          BY <4>1, <4>2, <4>3, Zenon
        <4> QED BY <3>2, <4>4, Zenon
      <3> QED BY <1>7, <3>1, <3>4, <3>5, Zenon DEF MemInv
    <2>11. (Flash!NoFalseAlarm)'
      BY <2>4 DEF Flash!NoFalseAlarm
    <2> QED BY <2>5, <2>7, <2>8, <2>10, <2>11, Zenon DEF FlashInv
  <1>9. CASE mem[Flash!Polled] # call.data[n]
    <2>1. call' = [call EXCEPT !.pc = "idle", !.status = "VERIFY"]
      BY <1>1, <1>3, <1>9 DEF n
    <2>2. /\ call'.pc = "idle" /\ call'.offset = call.offset /\ call'.data = call.data /\ call'.status = "VERIFY"
          /\ call' \in Calls
      BY <1>2, <2>1 DEF FlashTypes, Calls, CallPcs, Flash!Statuses
    <2>3. FlashTypes'
      BY <1>1, <1>2, <1>3, <2>2 DEF FlashTypes
    <2>4. CallInv' /\ ChipInv' /\ ReadInv' /\ MemInv'
      BY <1>1, <1>2, <1>3, <2>2
      DEF CallInv, ChipInv, ReadInv, MemInv, Flash!Range, Flash!WasErased
    <2>5. ~Flash!WasErased
      <3>1. SUFFICES ASSUME Flash!WasErased PROVE FALSE
        OBVIOUS
      <3>2. /\ o + n - 1 \in o .. z /\ o + n - 1 < o + n
            /\ (o + n - 1) - before.at + 1 = o - before.at + n
        BY <1>4, <1>5
      <3>3. mem[o + n - 1] = before.data[o - before.at + n]
        <4>1. (o + n - 1) - before.at + 1 = o - before.at + n
          BY <3>2
        <4>2. \A a \in o .. z : a < o + n => mem[a] = before.data[a - before.at + 1]
          BY <1>7, <3>1, Zenon
        <4>3. mem[o + n - 1] = before.data[(o + n - 1) - before.at + 1]
          BY <3>2, <4>2, Zenon
        <4> QED BY <4>1, <4>3, Zenon
      <3>4. call.data[n] = before.data[o - before.at + n]
        BY <1>4
      <3> QED BY <1>6, <1>9, <3>3, <3>4
    <2>6. (Flash!NoFalseAlarm)'
      BY <1>1, <2>2, <2>5 DEF Flash!NoFalseAlarm, Flash!WasErased, Flash!Range
    <2> QED BY <2>3, <2>4, <2>6, Zenon DEF FlashInv
  <1> QED BY <1>8, <1>9

\* What the chip has programmed once it has done the first n bytes of a piece.
LEMMA AfterTheFirst ==
    ASSUME Flash!LldFlashAssumption, FlashInv, lldChip.op = "program", NEW n \in 0 .. Len(lldChip.data)
    PROVE  /\ Flash!WithFirst(n) \in FlashMem
           /\ call.offset + Len(lldChip.data) <= before.at + Len(before.data) /\ before.at <= call.offset
           /\ \A a \in Flash!Addresses : a \notin call.offset .. call.offset + n - 1 =>
                  Flash!WithFirst(n)[a] = mem[a]
           /\ \A a \in call.offset .. call.offset + n - 1 :
                  /\ a \in Flash!Addresses
                  /\ mem[a] = Flash!Blank => Flash!WithFirst(n)[a] = before.data[a - before.at + 1]
  <1>1. FlashTypes /\ CallInv /\ ChipInv
    BY Zenon DEF FlashInv
  <1> DEFINE o == call.offset
             L == Len(lldChip.data)
             b == before.at
             d == before.data
             p == lldChip.data
  <1>2. call.pc = "status" /\ lldChip.at = o /\ \A i \in 1 .. L : p[i] = call.data[i]
    BY <1>1 DEF ChipInv, CallInv
  <1>3. /\ L \in 1 .. Len(call.data) /\ o + Len(call.data) = b + Len(d) /\ b <= o
        /\ \A i \in 1 .. Len(call.data) : call.data[i] = d[o - b + i]
    BY <1>1 DEF ChipInv, CallInv
  <1>4. /\ o \in Nat /\ b \in Nat /\ Len(call.data) \in Nat /\ Len(d) \in Nat /\ b + Len(d) <= FlashCells
        /\ FlashCells \in Nat /\ Flash!Addresses = 0 .. FlashCells - 1 /\ p \in Seq(Bytes) /\ L \in Nat
        /\ Bytes \subseteq Flash!Byte /\ mem \in FlashMem
    BY FlashFields, FlashSizes
  <1>5. Flash!WithFirst(n) = [a \in Flash!Addresses |-> IF a \in o .. o + n - 1
                                                        THEN Flash!And(mem[a], p[a - o + 1]) ELSE mem[a]]
    BY <1>2, Zenon DEF Flash!WithFirst
  <1>6. n \in Nat /\ n <= L
    BY <1>4
  <1> HIDE DEF o, L, b, d, p
  <1>7. \A a \in o .. o + n - 1 : /\ a \in Flash!Addresses /\ a - o + 1 \in 1 .. L
                                  /\ a - o + 1 \in 1 .. Len(call.data)
                                  /\ o - b + (a - o + 1) = a - b + 1
    BY <1>3, <1>4, <1>6
  <1>8. \A a \in o .. o + n - 1 : p[a - o + 1] \in Flash!Byte /\ p[a - o + 1] = d[a - b + 1]
    <2>1. TAKE a \in o .. o + n - 1
    <2>2. p[a - o + 1] \in Bytes
      <3>1. L = Len(p)
        BY DEF L, p
      <3> QED BY <1>4, <1>7, <3>1, ElementOfSeq
    <2>3. p[a - o + 1] = call.data[a - o + 1]
      BY <1>2, <1>7
    <2>4. call.data[a - o + 1] = d[o - b + (a - o + 1)]
      BY <1>3, <1>7
    <2> QED BY <1>4, <1>7, <2>2, <2>3, <2>4
  <1>9. \A a \in Flash!Addresses : mem[a] \in Flash!Byte
    BY <1>4 DEF FlashMem
  <1>10. \A a \in o .. o + n - 1 : /\ Flash!And(mem[a], p[a - o + 1]) \in Flash!Byte
                                   /\ mem[a] = Flash!Blank => Flash!And(mem[a], p[a - o + 1]) = d[a - b + 1]
    BY <1>7, <1>8, <1>9, Programmed
  <1>11. Flash!WithFirst(n) \in FlashMem
    BY <1>5, <1>9, <1>10 DEF FlashMem
  <1>12. o + L <= b + Len(d) /\ b <= o
    BY <1>3, <1>4
  <1>13. \A a \in Flash!Addresses : a \notin o .. o + n - 1 => Flash!WithFirst(n)[a] = mem[a]
    BY <1>5, Zenon
  <1>14. \A a \in o .. o + n - 1 : /\ a \in Flash!Addresses
                                   /\ mem[a] = Flash!Blank => Flash!WithFirst(n)[a] = d[a - b + 1]
    BY <1>5, <1>7, <1>10
  <1> QED BY <1>11, <1>12, <1>13, <1>14 DEF o, L, b, d

\* Outside the data, and in what was written before, the memory is as it was while the
\* chip works; ready or too late, it has done the first n bytes.
LEMMA MemOfFirst ==
    ASSUME Flash!LldFlashAssumption, FlashInv, lldChip.op = "program", NEW n \in 0 .. Len(lldChip.data)
    PROVE  /\ Flash!WithFirst(n) \in FlashMem
           /\ \A a \in Flash!Addresses \ Flash!Range : Flash!WithFirst(n)[a] = before.mem[a]
           /\ Flash!WasErased =>
                  /\ \A a \in before.at .. call.offset - 1 : Flash!WithFirst(n)[a] = before.data[a - before.at + 1]
                  /\ \A a \in call.offset .. before.at + Len(before.data) - 1 :
                         Flash!WithFirst(n)[a] = IF a < call.offset + n THEN before.data[a - before.at + 1]
                                                 ELSE Flash!Blank
  <1> DEFINE o == call.offset
             b == before.at
             l == Len(lldChip.data)
             k == Len(before.data)
             z == before.at + Len(before.data) - 1
             w == Flash!WithFirst(n)
  <1>1. CallInv /\ ChipInv /\ MemInv
    BY Zenon DEF FlashInv
  <1>2. /\ w \in FlashMem /\ o + l <= b + k /\ b <= o
        /\ \A a \in Flash!Addresses : a \notin o .. o + n - 1 => w[a] = mem[a]
        /\ \A a \in o .. o + n - 1 :
               /\ a \in Flash!Addresses
               /\ mem[a] = Flash!Blank => w[a] = before.data[a - b + 1]
    BY AfterTheFirst
  <1>3. o \in Nat /\ b \in Nat /\ l \in Nat /\ k \in Nat /\ b + k <= FlashCells /\ FlashCells \in Nat
        /\ Flash!Addresses = 0 .. FlashCells - 1 /\ n \in 0 .. l /\ z = b + k - 1
    BY FlashFields, FlashSizes
  <1>4. \A a \in Flash!Addresses \ Flash!Range : mem[a] = before.mem[a]
    BY <1>1, Zenon DEF MemInv
  <1>5. Flash!Range = b .. z
    BY Zenon DEF Flash!Range
  <1>6. Flash!WasErased =>
            /\ \A a \in b .. o - 1 : mem[a] = before.data[a - b + 1]
            /\ \A a \in o .. z : mem[a] = Flash!Blank
    <2>1. call.status = "NOT_BUSY" /\ lldChip.op # "exceeded" /\ call.pc = "status" /\ lldChip.op # "ready"
      BY <1>1 DEF CallInv, ChipInv
    <2>2. \A a : ~Written(a)
      BY <2>1, Zenon DEF Written
    <2>3. Flash!WasErased => \A a \in b .. o - 1 : mem[a] = before.data[a - b + 1]
      BY <1>1, <2>1, Zenon DEF MemInv
    <2>4. Flash!WasErased => \A a \in o .. z :
              mem[a] = IF Written(a) THEN before.data[a - b + 1] ELSE Flash!Blank
      BY <1>1, <2>1, Zenon DEF MemInv
    <2>5. Flash!WasErased => \A a \in o .. z : mem[a] = Flash!Blank
      BY <2>2, <2>4, Zenon
    <2> QED BY <2>3, <2>5, Zenon
  <1> HIDE DEF o, b, l, k, z, w
  <1>7. \A a \in Flash!Addresses \ Flash!Range : w[a] = before.mem[a]
    <2>1. \A a \in Flash!Addresses \ (b .. z) : a \notin o .. o + n - 1
      BY <1>2, <1>3
    <2> QED BY <1>2, <1>4, <1>5, <2>1
  <1>8. ASSUME Flash!WasErased, NEW a \in b .. o - 1
        PROVE  w[a] = before.data[a - b + 1]
    <2>1. a \in Flash!Addresses /\ a \notin o .. o + n - 1
      BY <1>2, <1>3
    <2>2. w[a] = mem[a]
      BY <1>2, <2>1, Zenon
    <2>3. mem[a] = before.data[a - b + 1]
      BY <1>6, <1>8, Zenon
    <2> QED BY <2>2, <2>3, Zenon
  <1>9. ASSUME Flash!WasErased, NEW a \in o .. z
        PROVE  w[a] = IF a < o + n THEN before.data[a - b + 1] ELSE Flash!Blank
    <2>1. mem[a] = Flash!Blank
      BY <1>6, <1>9, Zenon
    <2>2. CASE a < o + n
      <3>1. a \in o .. o + n - 1
        BY <1>3, <2>2
      <3>2. w[a] = before.data[a - b + 1]
        BY <1>2, <2>1, <3>1, Zenon
      <3> QED BY <2>2, <3>2, Zenon
    <2>3. CASE ~(a < o + n)
      <3>1. a \in Flash!Addresses /\ a \notin o .. o + n - 1
        BY <1>2, <1>3, <2>3
      <3>2. w[a] = mem[a]
        BY <1>2, <3>1, Zenon
      <3> QED BY <2>1, <2>3, <3>2, Zenon
    <2> QED BY <2>2, <2>3
  <1> QED BY <1>2, <1>7, <1>8, <1>9, Zenon DEF o, b, z, w

LEMMA FinishStep ==
    ASSUME Flash!LldFlashAssumption, FlashInv, Flash!Finish
    PROVE  FlashInv'
  <1> DEFINE n == Len(lldChip.data)
  <1>1. /\ lldChip.op = "program" /\ mem' = Flash!WithFirst(n) /\ lldChip' = Flash!Ready
        /\ call' = call /\ chunk' = chunk /\ reads' = reads /\ before' = before
    BY Zenon DEF Flash!Finish
  <1>2. FlashTypes /\ CallInv /\ ChipInv /\ ReadInv /\ Flash!NoFalseAlarm
    BY Zenon DEF FlashInv
  <1>3. n \in 0 .. n /\ call.pc = "status" /\ n = chunk.len
    <2>1. n \in Nat
      BY FlashFields
    <2> QED BY <1>1, <1>2, <2>1 DEF ChipInv
  <1>4. lldChip' \in LldChips /\ lldChip'.op = "ready" /\ Len(lldChip'.data) = 0
    <2>1. <<>> \in Seq(Bytes) /\ Len(<<>>) = 0 /\ 0 \in 0 .. FlashCells
      BY FlashSizes
    <2> QED BY <1>1, <2>1 DEF Flash!Ready, LldChips, Ops
  <1>5. /\ Flash!WithFirst(n) \in FlashMem
        /\ \A a \in Flash!Addresses \ Flash!Range : Flash!WithFirst(n)[a] = before.mem[a]
        /\ Flash!WasErased =>
               /\ \A a \in before.at .. call.offset - 1 : Flash!WithFirst(n)[a] = before.data[a - before.at + 1]
               /\ \A a \in call.offset .. before.at + Len(before.data) - 1 :
                      Flash!WithFirst(n)[a] = IF a < call.offset + n THEN before.data[a - before.at + 1]
                                              ELSE Flash!Blank
    BY <1>1, <1>3, MemOfFirst, Zenon
  <1> HIDE DEF n
  <1>6. FlashTypes'
    <2>1. 0 \in 0 .. MaxCount
      BY FlashSizes
    <2> QED BY <1>1, <1>2, <1>4, <1>5, <2>1 DEF FlashTypes
  <1>7. CallInv' /\ ChipInv'
    BY <1>1, <1>2, <1>4 DEF CallInv, ChipInv
  <1>8. ReadInv'
    <2>1. \A i \in 1 .. Len(reads) : ~reads[i].dq1 /\ ~reads[i].dq5
      BY <1>1, <1>2 DEF ReadInv
    <2>2. Len(reads) # 0 => 1 \in 1 .. Len(reads)
      <3>1. Len(reads) \in 0 .. 3
        BY FlashFields
      <3> QED BY <3>1
    <2> QED BY <1>1, <1>3, <1>4, <2>1, <2>2 DEF ReadInv
  <1>9. MemInv'
    <2>1. \A a : Written(a)' <=> a < call.offset + n
      BY <1>1, <1>3, <1>4 DEF Written
    <2>2. (Flash!Range)' = Flash!Range /\ (Flash!WasErased)' = Flash!WasErased
      BY <1>1 DEF Flash!Range, Flash!WasErased
    <2>3. \A a \in Flash!Addresses \ Flash!Range' : mem'[a] = before'.mem[a]
      BY <1>1, <1>5, <2>2
    <2>4. (Flash!WasErased)' =>
              \A a \in before'.at .. call'.offset - 1 : mem'[a] = before'.data[a - before'.at + 1]
      BY <1>1, <1>5, <2>2
    <2>5. (Flash!WasErased)' =>
              \A a \in call'.offset .. before'.at + Len(before'.data) - 1 :
                  mem'[a] = IF Written(a)' THEN before'.data[a - before'.at + 1] ELSE Flash!Blank
      BY <1>1, <1>5, <2>1, <2>2
    <2> QED BY <2>3, <2>4, <2>5, Zenon DEF MemInv
  <1>10. (Flash!NoFalseAlarm)'
    BY <1>1, <1>2 DEF Flash!NoFalseAlarm, Flash!WasErased, Flash!Range
  <1> QED BY <1>6, <1>7, <1>8, <1>9, <1>10, Zenon DEF FlashInv

LEMMA TakeTooLongStep ==
    ASSUME Flash!LldFlashAssumption, FlashInv, Flash!TakeTooLong
    PROVE  FlashInv'
  <1>1. PICK n \in 0 .. Len(lldChip.data) - 1 : mem' = Flash!WithFirst(n)
    BY Zenon DEF Flash!TakeTooLong
  <1>2. /\ lldChip.op = "program" /\ lldChip' = [lldChip EXCEPT !.op = "exceeded"]
        /\ before' = [before EXCEPT !.late = TRUE]
        /\ call' = call /\ chunk' = chunk /\ reads' = reads
    BY Zenon DEF Flash!TakeTooLong
  <1>3. FlashTypes /\ CallInv /\ ChipInv /\ ReadInv /\ Flash!NoFalseAlarm
    BY Zenon DEF FlashInv
  <1>4. n \in 0 .. Len(lldChip.data)
    <2>1. Len(lldChip.data) \in Nat
      BY FlashFields
    <2> QED BY <2>1
  <1>5. /\ lldChip' \in LldChips /\ lldChip'.op = "exceeded" /\ lldChip'.at = lldChip.at
        /\ lldChip'.data = lldChip.data /\ lldChip'.dq6 = lldChip.dq6
        /\ before' \in Befores /\ before'.at = before.at /\ before'.data = before.data
        /\ before'.mem = before.mem /\ before'.late
    BY <1>2, <1>3 DEF FlashTypes, LldChips, Ops, Befores
  <1>6. /\ Flash!WithFirst(n) \in FlashMem
        /\ \A a \in Flash!Addresses \ Flash!Range : Flash!WithFirst(n)[a] = before.mem[a]
        /\ Flash!WasErased =>
               \A a \in before.at .. call.offset - 1 : Flash!WithFirst(n)[a] = before.data[a - before.at + 1]
    BY <1>2, <1>4, MemOfFirst, Zenon
  <1>7. FlashTypes'
    BY <1>1, <1>2, <1>3, <1>5, <1>6 DEF FlashTypes
  <1>8. CallInv' /\ ChipInv'
    BY <1>2, <1>3, <1>5 DEF CallInv, ChipInv
  <1>9. ReadInv'
    BY <1>2, <1>3, <1>5 DEF ReadInv
  <1>10. (Flash!Range)' = Flash!Range /\ (Flash!WasErased)' = Flash!WasErased
    BY <1>5 DEF Flash!Range, Flash!WasErased
  <1>11. MemInv'
    <2>1. \A a \in Flash!Addresses \ Flash!Range' : mem'[a] = before'.mem[a]
      BY <1>1, <1>5, <1>6, <1>10
    <2>2. (Flash!WasErased)' =>
              \A a \in before'.at .. call'.offset - 1 : mem'[a] = before'.data[a - before'.at + 1]
      BY <1>1, <1>2, <1>5, <1>6, <1>10
    <2> QED BY <1>5, <2>1, <2>2, Zenon DEF MemInv
  <1>12. (Flash!NoFalseAlarm)'
    BY <1>2, <1>3, <1>5, <1>10 DEF Flash!NoFalseAlarm
  <1> QED BY <1>7, <1>8, <1>9, <1>11, <1>12, Zenon DEF FlashInv

LEMMA FlashNext ==
    ASSUME Flash!LldFlashAssumption, FlashInv, Flash!Next
    PROVE  FlashInv'
  BY StartStep, ProgramStep, ReadStatusStep, PollStep, VerifyStep, FinishStep, TakeTooLongStep,
     Zenon DEF Flash!Next, Flash!Driver

LEMMA FlashStays ==
    ASSUME FlashInv, UNCHANGED flashVars
    PROVE  FlashInv'
  <1>1. /\ mem' = mem /\ lldChip' = lldChip /\ call' = call /\ chunk' = chunk
        /\ reads' = reads /\ before' = before
    BY Zenon DEF flashVars
  <1>2. FlashTypes' /\ CallInv'
    BY <1>1, Zenon DEF FlashInv, FlashTypes, CallInv
  <1>3. ChipInv' /\ ReadInv'
    BY <1>1, Zenon DEF FlashInv, ChipInv, ReadInv, Flash!Polled
  <1>4. MemInv' /\ (Flash!NoFalseAlarm)'
    BY <1>1, Zenon DEF FlashInv, MemInv, Written, Flash!NoFalseAlarm, Flash!WasErased, Flash!Range
  <1> QED BY <1>2, <1>3, <1>4, Zenon DEF FlashInv

LEMMA FlashIsCopied ==
    ASSUME Flash!LldFlashAssumption, FlashInv
    PROVE  Flash!Copied /\ Flash!NoFalseAlarm /\ Flash!NeverAborted /\ Flash!LeftReadable
  <1>1. CallInv /\ ChipInv /\ MemInv /\ Flash!NoFalseAlarm
    BY Zenon DEF FlashInv
  <1>2. \A a \in Flash!Addresses \ Flash!Range : mem[a] = before.mem[a]
    BY <1>1, Zenon DEF MemInv
  <1>3. ASSUME call.pc = "idle", call.status = "NOT_BUSY", Flash!WasErased
        PROVE  \A a \in Flash!Range : mem[a] = before.data[a - before.at + 1]
    <2>1. call.offset + Len(call.data) = before.at + Len(before.data) /\ Len(call.data) = 0
      BY <1>1, <1>3 DEF CallInv
    <2>2. \A a \in before.at .. call.offset - 1 : mem[a] = before.data[a - before.at + 1]
      BY <1>1, <1>3, Zenon DEF MemInv
    <2>3. Flash!Range = before.at .. call.offset - 1
      <3>1. call.offset \in Nat /\ before.at \in Nat /\ Len(before.data) \in Nat
        BY FlashFields
      <3>2. call.offset - 1 = before.at + Len(before.data) - 1
        BY <2>1, <3>1
      <3> QED BY <3>2, Zenon DEF Flash!Range
    <2> QED BY <2>2, <2>3, Zenon
  <1>4. Flash!NeverAborted /\ Flash!LeftReadable
    BY <1>1 DEF ChipInv, Flash!NeverAborted, Flash!LeftReadable
  <1> QED BY <1>1, <1>2, <1>3, <1>4, Zenon DEF Flash!Copied

-----------------------------------------------------------------------------
(* The group *)

SettingsInv ==
    /\ part \in Parts
    /\ ControlsInv /\ ThresholdsInv /\ AlsInv /\ CountersInv
    /\ ProfileInv /\ PreferencesInv /\ LanguageInv /\ FlashInv

LEMMA SettingsInit ==
    ASSUME SettingsAssumption
    PROVE  Init => SettingsInv
  <1>1. /\ Control!ControlsAssumption /\ Threshold!ThresholdsAssumption /\ Shutdown!AlsAssumption
        /\ Counter!PfcCountsAssumption /\ Profile!KursProfileAssumption /\ Kept!PreferencesAssumption
        /\ Language!LangPackAssumption /\ Flash!LldFlashAssumption
    BY SettingsAssumption, Zenon DEF SettingsAssumption
  <1>2. Init => /\ part \in Parts /\ Control!Init /\ Threshold!Init /\ Shutdown!Init /\ Counter!Init
                /\ Profile!Init /\ Kept!Init /\ Language!Init /\ Flash!Init
    BY Zenon DEF Init
  <1> QED BY <1>1, <1>2, ControlsInit, ThresholdsInit, AlsInit, CountersInit, ProfileInit,
             PreferencesInitially, LanguageInit, FlashInit, Zenon DEF SettingsInv

\* What a step does to each component: its own, or nothing.
LEMMA PartMoves ==
    ASSUME [Next]_vars
    PROVE  /\ part' = part
           /\ Control!Next \/ UNCHANGED controlsVars
           /\ Threshold!Next \/ UNCHANGED thresholdsVars
           /\ Shutdown!Next \/ UNCHANGED alsVars
           /\ Counter!Next \/ UNCHANGED countersVars
           /\ Profile!Next \/ UNCHANGED profileVars
           /\ Kept!Next \/ UNCHANGED preferencesVars
           /\ Language!Next \/ UNCHANGED languageVars
           /\ Flash!Next \/ UNCHANGED flashVars
  <1>1. CASE Next
    <2>1. /\ \/ part = "controls" /\ Control!Next
             \/ part = "thresholds" /\ Threshold!Next
             \/ part = "als" /\ Shutdown!Next
             \/ part = "counters" /\ Counter!Next
             \/ part = "profile" /\ Profile!Next
             \/ part = "preferences" /\ Kept!Next
             \/ part = "language" /\ Language!Next
             \/ part = "flash" /\ Flash!Next
          /\ part' = part
          /\ part # "controls" => UNCHANGED controlsVars
          /\ part # "thresholds" => UNCHANGED thresholdsVars
          /\ part # "als" => UNCHANGED alsVars
          /\ part # "counters" => UNCHANGED countersVars
          /\ part # "profile" => UNCHANGED profileVars
          /\ part # "preferences" => UNCHANGED preferencesVars
          /\ part # "language" => UNCHANGED languageVars
          /\ part # "flash" => UNCHANGED flashVars
      BY <1>1, Zenon DEF Next, OnlyPartMoves
    <2> QED BY <2>1
  <1>2. CASE UNCHANGED vars
    BY <1>2, Zenon DEF vars
  <1> QED BY <1>1, <1>2

LEMMA SettingsNext ==
    ASSUME SettingsAssumption, SettingsInv, [Next]_vars
    PROVE  /\ SettingsInv'
           /\ [Control!LitOnRequest]_(Control!vars)
           /\ [Profile!RefusedKeepsAll]_(Profile!vars)
           /\ [Language!WrittenForAPack]_(Language!vars)
  <1>1. /\ Control!ControlsAssumption /\ Threshold!ThresholdsAssumption /\ Shutdown!AlsAssumption
        /\ Counter!PfcCountsAssumption /\ Profile!KursProfileAssumption /\ Kept!PreferencesAssumption
        /\ Language!LangPackAssumption /\ Flash!LldFlashAssumption
    BY SettingsAssumption, Zenon DEF SettingsAssumption
  <1>2. part' \in Parts
    BY PartMoves, Zenon DEF SettingsInv
  <1>3. ControlsInv' /\ [Control!LitOnRequest]_(Control!vars)
    BY <1>1, PartMoves, ControlsNext, ControlsStay, Zenon DEF SettingsInv
  <1>4. ThresholdsInv'
    BY <1>1, PartMoves, ThresholdsNext, ThresholdsStay, Zenon DEF SettingsInv
  <1>5. AlsInv'
    BY <1>1, PartMoves, AlsNext, AlsStays, Zenon DEF SettingsInv
  <1>6. CountersInv'
    BY <1>1, PartMoves, CountersNext, CountersStay, Zenon DEF SettingsInv
  <1>7. ProfileInv' /\ [Profile!RefusedKeepsAll]_(Profile!vars)
    BY <1>1, PartMoves, ProfileNext, ProfileStays, Zenon DEF SettingsInv
  <1>8. PreferencesInv'
    BY <1>1, PartMoves, PreferencesNext, PreferencesStay, Zenon DEF SettingsInv
  <1>9. LanguageInv' /\ [Language!WrittenForAPack]_(Language!vars)
    BY <1>1, PartMoves, LanguageNext, LanguageStays, Zenon DEF SettingsInv
  <1>10. FlashInv'
    BY <1>1, PartMoves, FlashNext, FlashStays, Zenon DEF SettingsInv
  <1> QED BY <1>2, <1>3, <1>4, <1>5, <1>6, <1>7, <1>8, <1>9, <1>10, Zenon DEF SettingsInv

LEMMA SettingsHold == Spec => []SettingsInv
  <1>1. Init => SettingsInv
    BY SettingsAssumption, SettingsInit
  <1>2. SettingsInv /\ [Next]_vars => SettingsInv'
    BY SettingsAssumption, SettingsNext
  <1> QED BY <1>1, <1>2, PTL DEF Spec

-----------------------------------------------------------------------------
(* The theorems *)

\* Every component keeps its state in range: the copies of task_55, the driver of the
\* flash and the writers of the preferences and the pack touch only what there is, and
\* the loops are where the code can be (main.c:6820, kurs_core.c, lld_S29GLxxxP.c).
THEOREM TypeCorrect == Spec => []TypeOK
  <1>1. SettingsInv => TypeOK
    <2>1. SUFFICES ASSUME SettingsInv PROVE TypeOK
      OBVIOUS
    <2>2. Flash!TypeOK
      BY <2>1, SettingsAssumption, FlashInvTyped, Zenon DEF SettingsInv, SettingsAssumption
    <2>3. /\ part \in Parts /\ Control!TypeOK /\ Threshold!TypeOK /\ Shutdown!TypeOK /\ Counter!TypeOK
          /\ Profile!TypeOK /\ Kept!TypeOK /\ Language!TypeOK
      BY <2>1, Zenon
      DEF SettingsInv, ControlsInv, ThresholdsInv, AlsInv, CountersInv, ProfileInv, PreferencesInv,
          LanguageInv
    <2> QED BY <2>2, <2>3 DEF Parts, TypeOK
  <1> QED BY <1>1, SettingsHold, PTL

\* What the control unit is told is so, whatever requests, restored defaults, changed
\* modules and failed registers come in between the steps of the loops (task_10,
\* task_55, ipg_als.c, ipg_pfc.c, kurs_core.c:1089).
THEOREM AsReported == Spec => []IsAsReported
  <1>1. SettingsInv => IsAsReported
    <2>1. SUFFICES ASSUME SettingsInv PROVE IsAsReported
      OBVIOUS
    <2>2. part \in Parts /\ ControlsInv /\ ThresholdsInv /\ AlsInv /\ CountersInv /\ ProfileInv
      BY <2>1, Zenon DEF SettingsInv
    <2>3. Control!OutOfServiceIsDark /\ Control!HardwareFollows /\ Control!CountersFollowRate
      BY <2>2, ControlsAreReported, Zenon
    <2>4. Threshold!UserValuesKept /\ Shutdown!ControlInForce /\ Profile!OneSeverity
      BY <2>2, Zenon DEF ThresholdsInv, AlsInv, ProfileInv
    <2>5. Counter!FreedIsNotRead
      BY <2>2, FreedIsHidden, Zenon
    <2> QED BY <2>2, <2>3, <2>4, <2>5 DEF Parts, IsAsReported
  <1> QED BY <1>1, SettingsHold, PTL

\* Wherever the power fails, the chip is late or a call of another user of the chip
\* comes in, what is in the flash is whole: the preferences are those of one save, a
\* completed pack is the one sent, and the driver reports success only for what it wrote
\* (kurs_user_prefs.c writes the second signature last, lld_memcpy).
THEOREM FlashHolds == Spec => []FlashIsWhole
  <1>1. SettingsInv => FlashIsWhole
    <2>1. SUFFICES ASSUME SettingsInv PROVE FlashIsWhole
      OBVIOUS
    <2>2. /\ part \in Parts /\ PreferencesInv /\ LanguageInv /\ FlashInv
          /\ Kept!PreferencesAssumption /\ Flash!LldFlashAssumption
      BY <2>1, SettingsAssumption, Zenon DEF SettingsInv, SettingsAssumption
    <2>3. Kept!AllOrNothing /\ Kept!SaveTakesEffect
      BY <2>2, PreferencesAreWhole, Zenon
    <2>4. Language!PackIsWritten
      BY <2>2, PackIsWhole, Zenon
    <2>5. Flash!Copied /\ Flash!NoFalseAlarm /\ Flash!NeverAborted /\ Flash!LeftReadable
      BY <2>2, FlashIsCopied, Zenon
    <2> QED BY <2>2, <2>3, <2>4, <2>5 DEF Parts, FlashIsWhole
  <1> QED BY <1>1, SettingsHold, PTL

\* No step of a loop lights a transmitter that was not asked for, a request answered NA
\* changes no setting, and no pack is begun in the flash before it is complete (task_10,
\* HandleKursSetParamValue, the blocks of the language pack).
THEOREM OnlyWhatWasAsked == Spec => NothingUnasked
  <1>1. SettingsInv /\ [Next]_vars =>
            /\ [Control!LitOnRequest]_(Control!vars)
            /\ [Profile!RefusedKeepsAll]_(Profile!vars)
            /\ [Language!WrittenForAPack]_(Language!vars)
    BY SettingsAssumption, SettingsNext
  <1>2. Spec => Control!LitByHand
    BY <1>1, SettingsHold, PTL DEF Spec, Control!LitByHand
  <1>3. Spec => Profile!RefusedChangesNothing
    BY <1>1, SettingsHold, PTL DEF Spec, Profile!RefusedChangesNothing
  <1>4. Spec => Language!OnlyWholePacks
    BY <1>1, SettingsHold, PTL DEF Spec, Language!OnlyWholePacks
  <1> QED BY <1>2, <1>3, <1>4 DEF NothingUnasked
=============================================================================
