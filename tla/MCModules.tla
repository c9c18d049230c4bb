----------------------------- MODULE MCModules ------------------------------
(***************************************************************************)
(* The pluggable modules and what is read from them, on small instances:   *)
(* the state machine of a transceiver, its data, the timers of the         *)
(* performance counters and the values shown to the control unit.  The     *)
(* components share no variable; in every behaviour one of them, `part',   *)
(* moves (MCSettings).                                                     *)
(***************************************************************************)
EXTENDS Naturals

VARIABLES
    part,   \* the component that moves
    \* of Transceiver
    trxList, trxTime, trxRollover, trxNticks, trxTicking, trxCursor, module,
    trxTrans, trxPc, since, waited, trxEvents,
    \* of SfpData
    cage, sfpTrans, boot, pin, phy, unseen, sfpEvents, failures,
    \* of PfcTimer
    pfcList, pfcTime, pfcRollover, pfcNticks, pfcTicking, pfcCursor, pfc,
    pfcPc, port,
    \* of KursValues
    select, faults, octets, rate, prot, word, rx_octs, selected, kursPc,
    updated, changes

Socket == INSTANCE Transceiver WITH
    Alarm <- {1, 2}, TickRange <- 5, PollTicks <- 2, BootTicks <- 2,
    KursTicks <- 1, LostRange <- 5, MaxEvents <- 2, list <- trxList,
    time <- trxTime, rollover <- trxRollover, nticks <- trxNticks,
    ticking <- trxTicking, cursor <- trxCursor, trans <- trxTrans,
    pc <- trxPc, events <- trxEvents

Data == INSTANCE SfpData WITH
    Module <- {"fibre", "long", "plain", "copper"},
    Optical <- {"fibre", "long", "plain"}, Monitored <- {"fibre", "long"},
    MaxEvents <- 4, MaxFailures <- 2, trans <- sfpTrans, events <- sfpEvents

Timer == INSTANCE PfcTimer WITH
    Alarm <- {1, 2, 3}, Port <- {0, 1}, TickRange <- 5, Second <- 2,
    KursTicks <- 1, DefPeriod <- 2, SecondsRange <- 3, list <- pfcList,
    time <- pfcTime, rollover <- pfcRollover, nticks <- pfcNticks,
    ticking <- pfcTicking, cursor <- pfcCursor, pc <- pfcPc

Shown == INSTANCE KursValues WITH
    Ports <- {0, 7}, Rates <- {"GE", "STM1", "OTU1", "FC1"}, MaxChanges <- 3,
    pc <- kursPc

ASSUME ModulesAssumption ==
    /\ Socket!TransceiverAssumption
    /\ Data!SfpDataAssumption
    /\ Timer!PfcAssumption
    /\ Shown!KursValuesAssumption

transceiverVars == <<trxList, trxTime, trxRollover, trxNticks, trxTicking,
                     trxCursor, module, trxTrans, trxPc, since, waited,
                     trxEvents>>
sfpVars == <<cage, sfpTrans, boot, pin, phy, unseen, sfpEvents, failures>>
pfcVars == <<pfcList, pfcTime, pfcRollover, pfcNticks, pfcTicking, pfcCursor,
             pfc, pfcPc, port>>
valuesVars == <<select, faults, octets, rate, prot, word, rx_octs, selected,
                kursPc, updated, changes>>
vars == <<part, transceiverVars, sfpVars, pfcVars, valuesVars>>

Parts == {"transceiver", "sfp", "pfc", "values"}

TypeOK ==
    CASE part = "transceiver" -> Socket!TypeOK
      [] part = "sfp" -> Data!TypeOK
      [] part = "pfc" -> Timer!TypeOK
      [] part = "values" -> Shown!TypeOK

-----------------------------------------------------------------------------
\* A component that does not move begins in one of its initial states.
Init ==
    /\ part \in Parts
    /\ Socket!Init
    /\ part # "transceiver" =>
           trxNticks = 0 /\ module = [plugged |-> FALSE, answers |-> FALSE, fault |-> FALSE]
    /\ Data!Init
    /\ part # "sfp" => cage = Data!None
    /\ Timer!Init
    /\ part # "pfc" => pfcNticks = 0
    /\ Shown!Init

\* The others stay as they are.
OnlyPartMoves ==
    /\ UNCHANGED part
    /\ part # "transceiver" => UNCHANGED transceiverVars
    /\ part # "sfp" => UNCHANGED sfpVars
    /\ part # "pfc" => UNCHANGED pfcVars
    /\ part # "values" => UNCHANGED valuesVars

Next ==
    /\ \/ part = "transceiver" /\ Socket!Next
       \/ part = "sfp" /\ Data!Next
       \/ part = "pfc" /\ Timer!Next
       \/ part = "values" /\ Shown!Next
    /\ OnlyPartMoves

\* That of each component, while it moves.
Fairness ==
    /\ WF_transceiverVars(part = "transceiver" /\ Socket!Interrupt)
    /\ WF_transceiverVars(part = "transceiver" /\ Socket!Tick)
    /\ SF_transceiverVars(part = "transceiver" /\ Socket!Poll)
    /\ SF_transceiverVars(part = "transceiver" /\ Socket!Boot)
    /\ WF_sfpVars(part = "sfp" /\ Data!Poll)
    /\ WF_sfpVars(part = "sfp" /\ Data!Wake)
    /\ WF_pfcVars(part = "pfc" /\ Timer!Interrupt)
    /\ WF_pfcVars(part = "pfc" /\ Timer!Tick)
    /\ SF_pfcVars(part = "pfc" /\ Timer!MainStep)
    /\ WF_valuesVars(part = "values" /\ Shown!task_55)

Spec == Init /\ [][Next]_vars /\ Fairness

-----------------------------------------------------------------------------
\* A module is addressed only when it had time to wake up, its state is reported
\* as it is, what is shown of it is its own, and so are values and colours of the
\* signal, although modules are exchanged, reads fail and the alarm comes between
\* two reads (run_transceiver_*_state, update_if_kurs_power, ipglb_adapter.c:522).
\* In the alarm list, which the interrupt walks, no timer is missing or twice
\* (alt_alarm_start and deinit_pfc do not look).
ModulesAreKnown ==
    CASE part = "transceiver" ->
             Socket!ListIsChain /\ Socket!WakeUpTimeKept /\ Socket!StateIsHonest
      [] part = "sfp" ->
             Data!IdIsTheModules /\ Data!AbsentShowsNothing /\ Data!ThresholdsAreTheModules
      [] part = "pfc" -> Timer!ListHoldsRunningTimers
      [] part = "values" -> Shown!ShowsTheSignal /\ Shown!ColourAgrees

\* No step breaks what was promised: the list of the HAL implements timers called
\* in the tick they were set for, across the rollover of the tick counter, and an
\* alarm that stays does not flicker while its word is written bit by bit.
StepsKeepPromises == Timer!CalledOnTime /\ Shown!NeverFlickers

\* A module that stays plugged is identified, measured and reported OK in the
\* end, or as failed if it is silent; the periods of the counters end again and
\* again; and a signal that stays is shown.
ModulesComeUp ==
    /\ part = "transceiver" => Socket!SoundModuleComesUp /\ Socket!DeadModuleFails
    /\ part = "sfp" => Data!MeasuredInTheEnd
    /\ part = "pfc" => Timer!PeriodEnds
    /\ part = "values" => Shown!ShownInTheEnd
=============================================================================
