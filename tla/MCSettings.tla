----------------------------- MODULE MCSettings -----------------------------
(***************************************************************************)
(* What the control unit sets and what the flash keeps of it, on small     *)
(* instances: the controls of an interface, its thresholds, its laser      *)
(* shutdown, its performance counters, the profile, the preferences, the   *)
(* language pack and the driver of the flash.  The components share no     *)
(* variable, so that what one of them does is the same whether the others  *)
(* move or not: in every behaviour one of them, `part', moves and the others*)
(* stay as they begin.                                                     *)
(***************************************************************************)
EXTENDS Naturals

CONSTANTS
    \* of Controls
    CtlKinds, CtlRates, MaxControls,
    \* of Thresholds
    ThrCount, ThrValues, ThrDefault, MaxThresholds,
    \* of Als
    AlsKinds, Requested,
    \* of PfcCounts
    PortKinds, PortRates, Period, MaxResets,
    \* of KursProfile
    SectionsAsked, Colours, MaxWrites,
    \* of Preferences
    PrefCells, PrefHighBit, PrefSettings, PrefList, PrefValues, PrefDefault,
    Signature, MaxCommits,
    \* of LangPack
    LangCells, LangHighBit, Packs, LastOf, ZeroBlock, GarbledBlock, MaxSends,
    \* of both
    ErasedCell,
    \* of LldFlash
    BufferSize, FlashCells, MaxCount, Bytes

VARIABLES
    part,   \* the component that moves
    \* of Controls
    ctlKind, service, tx, lb, ctlRate, port, hw, ctlRestore, ctlPc, loaded,
    ctlRaced, ctlAsked, ctlRestored, ctlRequests,
    \* of Thresholds
    mode, thr, module, absent, thrRestore, copying, thrNext, wanted, thrRaced,
    thrRequests,
    \* of Als
    alsKind, alsEnabled, hwMode, control, saved, alsSave, alsRestore, booting,
    failed, alsRestored,
    \* of PfcCounts
    pfcKind, pfcBlock, select, pfcNext, change, resets, pfcRate, prot,
    capable, pfc, data, pfcPc, pulled, pfcRaced, pfcRequests,
    \* of KursProfile
    profEnabled, value, level, monitored, degrade, failure, colour, profBlock,
    profSave, reply, unsaved, profRequests,
    \* of Preferences
    prefCells, prefSrc, prefWriter, prefChip, prefDisturbed, ram, prefSave,
    prefPc, copied, prefAsked, prefRaced, changed, snapshot, prefEvents,
    \* of LangPack
    langCells, langSrc, langWriter, langChip, langDisturbed,
    expected_blck_cnt, new_lng_file, langPc, cu, damaged, pack, langRaced,
    langEvents,
    \* of LldFlash
    mem, lldChip, call, chunk, reads, before

Control == INSTANCE Controls WITH
    Kinds <- CtlKinds, Rates <- CtlRates, MaxRequests <- MaxControls,
    kind <- ctlKind, rate <- ctlRate, restore <- ctlRestore, pc <- ctlPc,
    raced <- ctlRaced, asked <- ctlAsked, restored <- ctlRestored,
    requests <- ctlRequests

Threshold == INSTANCE Thresholds WITH
    Count <- ThrCount, Values <- ThrValues, Default <- ThrDefault,
    MaxRequests <- MaxThresholds, restore <- thrRestore, next <- thrNext,
    raced <- thrRaced, requests <- thrRequests

Shutdown == INSTANCE Als WITH
    Kinds <- AlsKinds, kind <- alsKind, enabled <- alsEnabled,
    save <- alsSave, restore <- alsRestore, restored <- alsRestored

Counter == INSTANCE PfcCounts WITH
    Kinds <- PortKinds, Rates <- PortRates, MaxRequests <- MaxResets,
    kind <- pfcKind, block <- pfcBlock, next <- pfcNext, rate <- pfcRate,
    pc <- pfcPc, raced <- pfcRaced, requests <- pfcRequests

Profile == INSTANCE KursProfile WITH
    Asked <- SectionsAsked, MaxRequests <- MaxWrites, enabled <- profEnabled,
    block <- profBlock, save <- profSave, requests <- profRequests

Kept == INSTANCE Preferences WITH
    Cells <- PrefCells, HighBit <- PrefHighBit, Blank <- ErasedCell,
    Settings <- PrefSettings, List <- PrefList, Values <- PrefValues,
    Default <- PrefDefault, MaxEvents <- MaxCommits, cells <- prefCells,
    src <- prefSrc, writer <- prefWriter, chip <- prefChip,
    disturbed <- prefDisturbed, save <- prefSave, pc <- prefPc,
    asked <- prefAsked, raced <- prefRaced, events <- prefEvents

Language == INSTANCE LangPack WITH
    Cells <- LangCells, HighBit <- LangHighBit, Blank <- ErasedCell,
    Last <- LastOf, Zero <- ZeroBlock, Garbled <- GarbledBlock,
    MaxEvents <- MaxSends,
    cells <- langCells, src <- langSrc, writer <- langWriter,
    chip <- langChip, disturbed <- langDisturbed, pc <- langPc,
    raced <- langRaced, events <- langEvents

Flash == INSTANCE LldFlash WITH Cells <- FlashCells, chip <- lldChip

ASSUME SettingsAssumption ==
    /\ Control!ControlsAssumption
    /\ Threshold!ThresholdsAssumption
    /\ Shutdown!AlsAssumption
    /\ Counter!PfcCountsAssumption
    /\ Profile!KursProfileAssumption
    /\ Kept!PreferencesAssumption
    /\ Language!LangPackAssumption
    /\ Flash!LldFlashAssumption

controlsVars == <<ctlKind, service, tx, lb, ctlRate, port, hw, ctlRestore,
                  ctlPc, loaded, ctlRaced, ctlAsked, ctlRestored, ctlRequests>>
thresholdsVars == <<mode, thr, module, absent, thrRestore, copying, thrNext,
                    wanted, thrRaced, thrRequests>>
alsVars == <<alsKind, alsEnabled, hwMode, control, saved, alsSave, alsRestore,
             booting, failed, alsRestored>>
countersVars == <<pfcKind, pfcBlock, select, pfcNext, change, resets, pfcRate,
                  prot, capable, pfc, data, pfcPc, pulled, pfcRaced,
                  pfcRequests>>
profileVars == <<profEnabled, value, level, monitored, degrade, failure,
                 colour, profBlock, profSave, reply, unsaved, profRequests>>
preferencesVars == <<prefCells, prefSrc, prefWriter, prefChip, prefDisturbed,
                     ram, prefSave, prefPc, copied, prefAsked, prefRaced,
                     changed, snapshot, prefEvents>>
languageVars == <<langCells, langSrc, langWriter, langChip, langDisturbed,
                  expected_blck_cnt, new_lng_file, langPc, cu, damaged,
                  pack, langRaced, langEvents>>
flashVars == <<mem, lldChip, call, chunk, reads, before>>
vars == <<part, controlsVars, thresholdsVars, alsVars, countersVars,
          profileVars, preferencesVars, languageVars, flashVars>>

Parts == {"controls", "thresholds", "als", "counters", "profile",
          "preferences", "language", "flash"}

TypeOK ==
    CASE part = "controls" -> Control!TypeOK
      [] part = "thresholds" -> Threshold!TypeOK
      [] part = "als" -> Shutdown!TypeOK
      [] part = "counters" -> Counter!TypeOK
      [] part = "profile" -> Profile!TypeOK
      [] part = "preferences" -> Kept!TypeOK
      [] part = "language" -> Language!TypeOK
      [] part = "flash" -> Flash!TypeOK

-----------------------------------------------------------------------------
\* A component that does not move begins in one of its initial states.
Init ==
    /\ part \in Parts
    /\ Control!Init
    /\ part # "controls" =>
           ctlKind = (CHOOSE x \in CtlKinds : TRUE) /\ service.current = "IS"
           /\ ~tx.current /\ lb.current = "NORMAL" /\ ~hw.dark
           /\ ctlRate.current \in {"STM1", "OTU2"}
    /\ Threshold!Init
    /\ part # "thresholds" => ~absent /\ module = thr
    /\ Shutdown!Init
    /\ part # "als" => alsKind = (CHOOSE x \in AlsKinds : TRUE) /\ saved = control
    /\ Counter!Init
    /\ Profile!Init
    /\ Kept!Init
    /\ Language!Init
    /\ Flash!Init
    /\ part # "flash" => \A a \in DOMAIN mem : mem[a] = Flash!Blank

\* The others stay as they are.
OnlyPartMoves ==
    /\ UNCHANGED part
    /\ part # "controls" => UNCHANGED controlsVars
    /\ part # "thresholds" => UNCHANGED thresholdsVars
    /\ part # "als" => UNCHANGED alsVars
    /\ part # "counters" => UNCHANGED countersVars
    /\ part # "profile" => UNCHANGED profileVars
    /\ part # "preferences" => UNCHANGED preferencesVars
    /\ part # "language" => UNCHANGED languageVars
    /\ part # "flash" => UNCHANGED flashVars

Next ==
    /\ \/ part = "controls" /\ Control!Next
       \/ part = "thresholds" /\ Threshold!Next
       \/ part = "als" /\ Shutdown!Next
       \/ part = "counters" /\ Counter!Next
       \/ part = "profile" /\ Profile!Next
       \/ part = "preferences" /\ Kept!Next
       \/ part = "language" /\ Language!Next
       \/ part = "flash" /\ Flash!Next
    /\ OnlyPartMoves

\* That of each component, while it moves.
Fairness ==
    /\ WF_controlsVars(part = "controls" /\ Control!MainLoop)
    /\ WF_thresholdsVars(part = "thresholds" /\ Threshold!Main)
    /\ WF_countersVars(part = "counters" /\ Counter!MainStep)
    /\ WF_countersVars(part = "counters" /\ Counter!pfc_timer_isr)
    /\ WF_profileVars(part = "profile" /\ Profile!ColorDynamicParameters)
    /\ WF_profileVars(part = "profile" /\ Profile!Save)
    /\ WF_preferencesVars(part = "preferences" /\ Kept!task_2000)
    /\ WF_preferencesVars(part = "preferences" /\ Kept!Chip)
    /\ WF_languageVars(part = "language" /\ Language!task_2000)
    /\ WF_languageVars(part = "language" /\ Language!Chip)
    /\ WF_flashVars(part = "flash" /\ Flash!Driver)
    /\ WF_flashVars(part = "flash" /\ (Flash!Finish \/ Flash!TakeTooLong))

Spec == Init /\ [][Next]_vars /\ Fairness

-----------------------------------------------------------------------------
\* What the control unit is told is so.  A port out of service is dark, the
\* hardware has the loop and the rate the unit reports, and a port counts what its
\* rate allows, while requests and the restoring of defaults come in between the
\* steps of task_10 (main.c:6820).  A threshold stays although task_55 copies
\* those of the module (main.c:6620), and a mode of the laser shutdown that a
\* register did not take is not reported (main.c:5019).  No answer is read from
\* counters that were freed (ipg_pfc.c), nor from an alarm of two colours
\* (kurs_core.c:1089).
IsAsReported ==
    CASE part = "controls" ->
             Control!OutOfServiceIsDark /\ Control!HardwareFollows /\ Control!CountersFollowRate
      [] part = "thresholds" -> Threshold!UserValuesKept
      [] part = "als" -> Shutdown!ControlInForce
      [] part = "counters" -> Counter!FreedIsNotRead
      [] part = "profile" -> Profile!OneSeverity
      [] OTHER -> TRUE

\* What is in the flash is whole.  Preferences are those of one save or none,
\* whatever the power does (kurs_user_prefs.c), a pack that was completed is the
\* one written (kurs_core.c), and the driver reports success only for data that
\* was programmed and an error only if there was one (lld_S29GLxxxP.c).
FlashIsWhole ==
    CASE part = "preferences" -> Kept!AllOrNothing /\ Kept!SaveTakesEffect
      [] part = "language" -> Language!PackIsWritten
      [] part = "flash" -> /\ Flash!Copied /\ Flash!NoFalseAlarm
                           /\ Flash!NeverAborted /\ Flash!LeftReadable
      [] OTHER -> TRUE

\* Nothing happens unasked: no transmitter is lit that was not asked for
\* (main.c:6820), no setting is changed by a request answered NA (kurs_core.c:507)
\* and no pack is begun in the flash before it is complete.
NothingUnasked ==
    /\ Control!LitByHand
    /\ Profile!RefusedChangesNothing
    /\ Language!OnlyWholePacks

\* Every request is carried out in the end: the controls, the thresholds given
\* back to the module, the save of what was changed, and what is written to the
\* flash.  And the counters show in the end what the hardware counted at the
\* present rate since they were last reset, whatever was created, freed and
\* copied before.
RequestsSettle ==
    /\ part = "controls" => Control!Settles
    /\ part = "thresholds" => Threshold!ModuleTakesOver
    /\ part = "counters" =>
           Counter!ResetForgets /\ Counter!RateCountsAnew /\ Counter!CountsInTheEnd
    /\ part = "profile" => Profile!ChangesAreSaved
    /\ part = "preferences" => Kept!CommitEnds
    /\ part = "language" => Language!WriteEnds
    /\ part = "flash" => Flash!Returns

-----------------------------------------------------------------------------
\* The constants of the run that a configuration cannot write.

\* The preferences are two settings, one after the other.
MCList == <<"rate", "info">>

\* A pack of one block and one of two, after the first with the number of the last.
MCLast == [p \in {"short", "long"} |-> IF p = "short" THEN 1 ELSE 2]

\* A byte that looks aborted and one that looks late.
MCBytes == {[dq1 |-> TRUE, dq5 |-> FALSE, dq6 |-> TRUE],
            [dq1 |-> FALSE, dq5 |-> TRUE, dq6 |-> FALSE]}
=============================================================================
