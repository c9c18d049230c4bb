------------------------------ MODULE MCBoard -------------------------------
(***************************************************************************)
(* The board, on small instances: the alarms and LEDs, the register map, the*)
(* I2C master and its multiplexers, the clock generators at boot and the clock*)
(* of each client.  The components share no variable; in every behaviour one*)
(* of them, `part', moves (MCSettings).                                    *)
(***************************************************************************)
EXTENDS Integers

CONSTANTS
    \* of CardAlarms
    INTERFACE_COUNT, FirstLine, Protocols, MaxChanges,
    \* of RegisterMap
    Mapped, Rates,
    \* of I2cMaster
    Cells, Stretches, MaxCalls,
    \* of I2cMux
    Buses, Refusals, MuxPassed,
    \* of ClockGen
    Outputs, Served, MaxRefusals,
    \* of ClientClocks
    Clocked

VARIABLES
    part,   \* the component that moves
    \* of CardAlarms
    present, live, odu, level, state, prot, monitor, alarms, odux_alarms,
    read, temperature, alarm1, alarm2, selected_if, led, known, quiet, changes,
    \* of RegisterMap
    mmap, next, phase, initialised, txDisable, mapRate, flagged, touched,
    \* of I2cMaster
    call, i2cPc, i2cI, buff, result, held, tip, dev, late, before, calls,
    \* of I2cMux
    current, mux, taken, access,
    \* of ClockGen
    genPc, chip, k, mem, excused, refusals,
    \* of ClientClocks
    clkRate, cfg, out, last

Alarms == INSTANCE CardAlarms
Map == INSTANCE RegisterMap WITH Interfaces <- Mapped, rate <- mapRate
Master == INSTANCE I2cMaster WITH pc <- i2cPc, i <- i2cI
Mux == INSTANCE I2cMux
Generator == INSTANCE ClockGen WITH Clients <- Served, pc <- genPc
Clocks == INSTANCE ClientClocks WITH Clients <- Clocked, rate <- clkRate

ASSUME BoardAssumption ==
    /\ Alarms!CardAlarmsAssumption
    /\ Map!RegisterMapAssumption
    /\ Master!I2cMasterAssumption
    /\ Mux!I2cMuxAssumption
    /\ Generator!ClockGenAssumption
    /\ Clocks!ClientsAssumption

alarmsVars == <<present, live, odu, level, state, prot, monitor, alarms,
                odux_alarms, read, temperature, alarm1, alarm2, selected_if,
                led, known, quiet, changes>>
registersVars == <<mmap, next, phase, initialised, txDisable, mapRate,
                   flagged, touched>>
i2cVars == <<call, i2cPc, i2cI, buff, result, held, tip, dev, late,
             before, calls>>
muxVars == <<current, mux, taken, access>>
generatorVars == <<genPc, chip, k, mem, excused, refusals>>
clocksVars == <<clkRate, cfg, out, last>>
vars == <<part, alarmsVars, registersVars, i2cVars, muxVars, generatorVars,
          clocksVars>>

Parts == {"alarms", "registers", "i2c", "mux", "generator", "clocks"}

TypeOK ==
    CASE part = "alarms" -> Alarms!TypeOK
      [] part = "registers" -> Map!TypeOK
      [] part = "i2c" -> Master!TypeOK
      [] part = "mux" -> Mux!TypeOK
      [] part = "generator" -> Generator!TypeOK
      [] part = "clocks" -> Clocks!TypeOK

-----------------------------------------------------------------------------
\* A component that does not move begins in one of its initial states.
Init ==
    /\ part \in Parts
    /\ Alarms!Init
    /\ part # "alarms" =>
           (\A i \in DOMAIN present : ~present[i]) /\ led = <<FALSE, FALSE>>
    /\ Map!Init
    /\ Master!Init
    /\ Mux!Init
    /\ part # "mux" => \A b \in DOMAIN taken : taken[b]
    /\ Generator!Init
    /\ Clocks!Init

\* The others stay as they are.
OnlyPartMoves ==
    /\ UNCHANGED part
    /\ part # "alarms" => UNCHANGED alarmsVars
    /\ part # "registers" => UNCHANGED registersVars
    /\ part # "i2c" => UNCHANGED i2cVars
    /\ part # "mux" => UNCHANGED muxVars
    /\ part # "generator" => UNCHANGED generatorVars
    /\ part # "clocks" => UNCHANGED clocksVars

Next ==
    /\ \/ part = "alarms" /\ Alarms!Next
       \/ part = "registers" /\ Map!Next
       \/ part = "i2c" /\ Master!Next
       \/ part = "mux" /\ Mux!Next
       \/ part = "generator" /\ Generator!Next
       \/ part = "clocks" /\ Clocks!Next
    /\ OnlyPartMoves

Spec == Init /\ [][Next]_vars

-----------------------------------------------------------------------------
\* Alarms are shown as they are: the control unit is told of every alarm that
\* comes and of every one that goes, and the LEDs follow, although interfaces are
\* read one at a time, one in each round of task_55 (main.c:6754).
AlarmsAreTrue ==
    part = "alarms" => Alarms!NoAlarmIsMissed /\ Alarms!NoAlarmStaysOn /\ Alarms!LedFollows

\* The device meant is the one reached, in its turn, after refusals too: each
\* client uses its own registers and is served once it is prepared
\* (ipglb_adapter.c:170, main.c:2578), a call of the driver leaves the line free
\* (sls_avalon_i2c_m.c:427), each register of a clock generator is written
\* (ipg_si5338.c:161), and each client has the clock of its rate (main.c:5184).
\* Nothing is said of the multiplexers, whose channel may be any (I2cMux).
DevicesAreReached ==
    CASE part = "registers" -> Map!ClientUsesItsOwn /\ Map!ServedWhenPrepared
      [] part = "i2c" -> Master!LineIsReleased /\ Master!HeldOnlyAfterRefusal
      [] part = "generator" -> Generator!NoneForgotten /\ Generator!LineStepsAgain
      [] part = "clocks" -> Clocks!ClockFollowsRate
      [] OTHER -> TRUE

\* A call on the bus, byte by byte, implements one that is done at once, unless a
\* byte of that very call was late (sls_avalon_i2c_m.c:377), and setting the rate
\* of a client leaves the clocks of the others alone.
StepsKeepPromises == Master!CallsAreAtomic /\ Clocks!OthersKeepTheirClock
=============================================================================
