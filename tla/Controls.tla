----------------------------- MODULE Controls -----------------------------
(***************************************************************************)
(* The settings of one interface: the control unit asks for a change in    *)
(* the KURS alarm (KURS_userset_value), a timer interrupt, which writes    *)
(* the `next' value of a control and raises its `change' flag; task_10     *)
(* carries it out in the main program and lowers the flag.  The alarm may  *)
(* come between any two steps of task_10.  The main loop restores the      *)
(* defaults on request, and the boot sequence the saved preferences.       *)
(*                                                                         *)
(* An interface is a client of the first or the second FPGA, or a line;    *)
(* `client1' is the first of all, the only one whose data type the control *)
(* unit can set (see DataTypeIsSet).                                       *)
(* Left out: the counters, whose reset is asked for and done in the same   *)
(* way, the clock and framer devices behind a change of the rate, and the  *)
(* requests refused because no module is plugged.                          *)
(***************************************************************************)
EXTENDS Integers, FiniteSets

CONSTANTS
    Kinds,        \* kinds of interface looked at: "client1", "client2", "line"
    Rates,        \* rates of a client looked at
    MaxRequests   \* bound: requests of the control unit since the boot

AllRates == {"FE", "GE", "STM1", "STM4", "STM16", "OTU1", "FC1", "FC2"}

ControlsAssumption ==
    /\ Kinds \subseteq {"client1", "client2", "line"}
    /\ Rates \subseteq AllRates /\ "STM1" \in Rates
    /\ MaxRequests \in Nat

VARIABLES
    kind,      \* the kind of the interface
    service,   \* service_state: next, current, change
    tx,        \* tx_disable
    lb,        \* loopback_mode
    rate,      \* the rate of the port
    port,      \* what the port monitors: rate read back, capabilities, pfc module, activity
    hw,        \* registers: dark (transmitter off), loop, rate (RATE_SELECT)
    restore,   \* the flag ID_3_RESET raises
    pc,        \* where the main program is
    loaded,    \* the value of service_state.next task_10 holds; IS when it holds none
    raced,     \* history: controls asked for while task_10 was carrying them out
    asked,     \* history: the transmitter was last asked for to be on
    restored,  \* history: the defaults were restored
    requests   \* counter for the bound

settings == <<service, tx, lb, rate>>
history == <<raced, asked, restored, requests>>
vars == <<kind, settings, port, hw, restore, pc, loaded, history>>

States == {"OOS", "MT", "IS"}
Modes == {"NORMAL", "CL", "LN"}
Ethernet == {"FE", "GE"}

Control(v) == [next |-> v, current |-> v, change |-> TRUE]

\* RATE_SELECT before the first write.
Reset == 6

TypeOK ==
    /\ kind \in Kinds
    /\ service \in [next : States, current : States, change : BOOLEAN]
    /\ tx \in [next : BOOLEAN, current : BOOLEAN, change : BOOLEAN]
    /\ lb \in [next : Modes, current : Modes, change : BOOLEAN]
    /\ rate \in [next : Rates \cup {"none", "OTU2"}, current : Rates \cup {"OTU2"}, change : BOOLEAN]
    /\ port \in [rate : AllRates \cup {"OTU2"}, pfcCapable : BOOLEAN,
                 fecCapable : BOOLEAN, pfc : BOOLEAN, activity : BOOLEAN]
    /\ hw \in [dark : BOOLEAN, loop : BOOLEAN, rate : 0 .. Reset]
    /\ restore \in BOOLEAN /\ asked \in BOOLEAN /\ restored \in BOOLEAN
    /\ pc \in {"idle", "flags", "service", "switched", "copied", "lb", "lb_rate", "lb_done",
               "rate", "rate_read", "rate_check", "rate_clear", "tx", "tx_check", "tx_equal"}
    /\ loaded \in States
    /\ raced \subseteq {"service", "tx", "lb", "rate"}
    /\ requests \in 0 .. MaxRequests

-----------------------------------------------------------------------------
\* The hardware.

\* The code of a rate in RATE_SELECT.
top_level_rate(r) ==
    CASE r \in {"FE", "GE"} -> 0
      [] r \in {"STM1", "STM4"} -> 1
      [] r = "STM16" -> 2
      [] r = "OTU1" -> 3
      [] r = "FC1" -> 4
      [] r = "FC2" -> 5
      [] OTHER -> 1

\* set_if_port_rate: the rate asked for is in force for the program too.
set_if_port_rate ==
    /\ hw' = [hw EXCEPT !.rate = top_level_rate(rate.next)]
    /\ rate' = [rate EXCEPT !.current = rate.next]

\* The rates read_if_port_rate may find; none: it fails, and reads nothing.
ReadBack ==
    CASE hw.rate = 0 -> {rate.next} \cap Ethernet
      [] hw.rate = 1 -> {"STM1"}
      [] hw.rate = 2 -> {"STM16"}
      [] hw.rate = 3 -> {"OTU1"}
      [] hw.rate = 4 -> {"FC1"}
      [] hw.rate = 5 -> {"FC2"}
      [] OTHER -> {}

\* The loopback bit after a mode is set; it was l before.  A line ignores CL.
LoopBit(m, l) ==
    CASE m = "NORMAL" -> FALSE
      [] m = "CL" -> IF kind = "line" THEN l ELSE FALSE
      [] m = "LN" -> TRUE

\* Whether setting a loopback mode sets the rate as well.
LoopSetsRate(m) ==
    \/ kind = "client1"
    \/ /\ kind = "client2"
       /\ \/ m = "CL"
          \/ m = "NORMAL" /\ rate.next \in {"OTU1", "STM16", "FC2"}

-----------------------------------------------------------------------------
\* The boot sequence restores the preferences s, off, m, r.

Init ==
    /\ kind \in Kinds
    /\ \E s \in States, off \in BOOLEAN, m \in Modes, r \in Rates, lit \in BOOLEAN :
           /\ service = Control(s)
           /\ tx = Control(off \/ s = "OOS")
           /\ lb = Control(m)
           /\ rate = IF kind = "line"
                     THEN [next |-> "none", current |-> "OTU2", change |-> FALSE]
                     ELSE [Control(r) EXCEPT !.change = r \notin {"OTU1", "STM16", "FC2"}]
           /\ hw = [dark |-> ~lit, loop |-> FALSE, rate |-> Reset]
           /\ asked = ~(off \/ s = "OOS")
    /\ port = [rate |-> IF kind = "line" THEN "OTU2" ELSE "STM1", pfcCapable |-> TRUE,
               fecCapable |-> kind = "line", pfc |-> TRUE, activity |-> FALSE]
    /\ restore = FALSE /\ restored = FALSE
    /\ pc = "idle"
    /\ loaded = "IS"
    /\ raced = {}
    /\ requests = 0

-----------------------------------------------------------------------------
\* The requests of the control unit, carried out in the alarm.  SetStrValueItem
\* writes the value to the parameter's data as well: the current service state
\* and loopback mode are those asked for at once.

\* From reading `next' to lowering `change'.
Window(c) ==
    CASE c = "service" -> {"switched", "copied"}
      [] c = "lb" -> {"lb_rate", "lb_done"}
      [] c = "rate" -> {"rate_read", "rate_check", "rate_clear"}
      [] c = "tx" -> {"tx_equal"}
      [] OTHER -> {}

Asked(c) ==
    /\ requests < MaxRequests
    /\ requests' = requests + 1
    /\ raced' = IF pc \in Window(c) THEN raced \cup {c} ELSE raced \ {c}
    /\ UNCHANGED <<kind, port, hw, pc, loaded, restored>>

SetState(s) ==
    /\ Asked("service")
    /\ service' = Control(s)
    /\ UNCHANGED <<tx, lb, rate, restore, asked>>

\* Refused when the port is out of service.
EnableTx(on) ==
    /\ service.current # "OOS"
    /\ Asked("tx")
    /\ tx' = [tx EXCEPT !.next = ~on, !.change = TRUE]
    /\ asked' = on
    /\ UNCHANGED <<service, lb, rate, restore>>

SetLoopback(m) ==
    /\ Asked("lb")
    /\ lb' = Control(m)
    /\ UNCHANGED <<service, tx, rate, restore, asked>>

\* The index is the number of the parameter less that of client 1, which is
\* the greatest: of any other client it is negative.
DataTypeIndex == IF kind = "client1" THEN 0 ELSE 0 - 45

SetDataType(r) ==
    /\ kind # "line" /\ DataTypeIndex = 0
    /\ Asked("rate")
    /\ rate' = [rate EXCEPT !.next = r, !.change = TRUE]
    /\ UNCHANGED <<service, tx, lb, restore, asked>>

\* The request goes to memory in front of the array, and its answer depends on
\* what is there; the interface keeps its rate.
SetDataTypeElsewhere(r) ==
    /\ kind # "line" /\ DataTypeIndex # 0
    /\ requests < MaxRequests /\ requests' = requests + 1
    /\ UNCHANGED <<kind, settings, port, hw, restore, pc, loaded, raced, asked, restored>>

ResetSettings ==
    /\ restore' = TRUE
    /\ Asked("restore")
    /\ UNCHANGED <<settings, asked>>

Alarm ==
    \/ \E s \in States : SetState(s)
    \/ \E on \in BOOLEAN : EnableTx(on)
    \/ \E m \in Modes : SetLoopback(m)
    \/ \E r \in Rates : SetDataType(r) \/ SetDataTypeElsewhere(r)
    \/ ResetSettings

-----------------------------------------------------------------------------
\* The main loop.

Changed == service.change \/ tx.change \/ lb.change \/ rate.change

\* profile.SetDefault, then the flags, then the request is forgotten.
SetDefault ==
    /\ pc = "idle" /\ restore
    /\ pc' = "flags"
    /\ service' = [service EXCEPT !.next = "IS", !.current = "IS"]
    /\ tx' = [tx EXCEPT !.next = FALSE, !.current = FALSE]
    /\ lb' = [lb EXCEPT !.next = "NORMAL", !.current = "NORMAL"]
    /\ rate' = [rate EXCEPT !.next = "STM1", !.current = "STM1"]
    /\ port' = [port EXCEPT !.activity = TRUE]
    /\ restored' = TRUE
    /\ UNCHANGED <<kind, hw, restore, loaded, raced, asked, requests>>

RaiseFlags ==
    /\ pc = "flags"
    /\ pc' = "idle"
    /\ service' = [service EXCEPT !.change = TRUE]
    /\ tx' = [tx EXCEPT !.change = TRUE]
    /\ lb' = [lb EXCEPT !.change = TRUE]
    /\ rate' = [rate EXCEPT !.change = TRUE]
    /\ restore' = FALSE
    /\ UNCHANGED <<kind, port, hw, loaded, history>>

\* A turn of task_10 that finds no flag.
QuietTurn == pc = "idle" /\ ~Changed /\ UNCHANGED vars

Turn ==
    /\ pc = "idle" /\ Changed
    /\ pc' = "service"
    /\ UNCHANGED <<kind, settings, port, hw, restore, loaded, history>>

Main(from, to) ==
    /\ pc = from /\ pc' = to
    /\ UNCHANGED <<kind, restore, history>>

Skip(from, to, flag) ==
    /\ Main(from, to) /\ ~flag
    /\ UNCHANGED <<settings, port, hw, loaded>>

\* The switch over service_state.next; then next is copied to current.
ServiceSwitch ==
    /\ Main("service", "switched") /\ service.change
    /\ port' = [port EXCEPT !.activity = service.next = "IS"]
    /\ tx' = IF service.next = "OOS" THEN [tx EXCEPT !.next = TRUE, !.change = TRUE] ELSE tx
    /\ UNCHANGED <<service, lb, rate, hw, loaded>>

ServiceLoad ==
    /\ Main("switched", "copied")
    /\ loaded' = service.next
    /\ UNCHANGED <<settings, port, hw>>

ServiceStore ==
    /\ Main("copied", "lb")
    /\ service' = [service EXCEPT !.current = loaded, !.change = FALSE]
    /\ loaded' = "IS"
    /\ UNCHANGED <<tx, lb, rate, port, hw>>

LoopSet ==
    /\ Main("lb", IF LoopSetsRate(lb.next) THEN "lb_rate" ELSE "lb_done") /\ lb.change
    /\ hw' = [hw EXCEPT !.loop = LoopBit(lb.next, hw.loop)]
    /\ UNCHANGED <<settings, port, loaded>>

LoopRate ==
    /\ Main("lb_rate", "lb_done")
    /\ set_if_port_rate
    /\ UNCHANGED <<service, tx, lb, port, loaded>>

LoopDone ==
    /\ Main("lb_done", "rate")
    /\ lb' = [lb EXCEPT !.current = lb.next, !.change = FALSE]
    /\ UNCHANGED <<service, tx, rate, port, hw, loaded>>

\* A line has one rate: cancel_request.
CancelRate ==
    /\ Main("rate", "tx") /\ rate.change /\ kind = "line"
    /\ rate' = [rate EXCEPT !.next = rate.current, !.change = FALSE]
    /\ UNCHANGED <<service, tx, lb, port, hw, loaded>>

RateSet ==
    /\ Main("rate", "rate_read") /\ rate.change /\ kind # "line"
    /\ set_if_port_rate
    /\ UNCHANGED <<service, tx, lb, port, loaded>>

RateRead ==
    /\ Main("rate_read", IF ReadBack = {} THEN "rate_clear" ELSE "rate_check")
    /\ port' = [port EXCEPT !.rate = IF ReadBack = {} THEN @ ELSE CHOOSE r \in ReadBack : TRUE]
    /\ UNCHANGED <<settings, hw, loaded>>

\* The capabilities of port p at rate r.
Capable(r, p) ==
    [p EXCEPT !.pfcCapable = r \in {"STM1", "STM4", "STM16", "OTU1"}, !.fecCapable = r = "OTU1"]

\* When the rate read is the one asked for it takes effect; the pfc module
\* follows the capability in any case.
RateCheck ==
    /\ Main("rate_check", "rate_clear")
    /\ LET same == port.rate = rate.next
           p == IF same THEN Capable(port.rate, port) ELSE port
       IN  /\ rate' = IF same THEN [rate EXCEPT !.current = rate.next, !.change = FALSE] ELSE rate
           /\ port' = [p EXCEPT !.pfc = p.pfcCapable]
    /\ UNCHANGED <<service, tx, lb, hw, loaded>>

RateClear ==
    /\ Main("rate_clear", "tx")
    /\ rate' = [rate EXCEPT !.change = FALSE]
    /\ UNCHANGED <<service, tx, lb, port, hw, loaded>>

TxSet ==
    /\ Main("tx", "tx_check") /\ tx.change
    /\ hw' = [hw EXCEPT !.dark = tx.next]
    /\ UNCHANGED <<settings, port, loaded>>

TxCheck ==
    /\ Main("tx_check", IF hw.dark = tx.next THEN "tx_equal" ELSE "idle")
    /\ tx' = [tx EXCEPT !.current = hw.dark]
    /\ UNCHANGED <<service, lb, rate, port, hw, loaded>>

TxClear ==
    /\ Main("tx_equal", "idle")
    /\ tx' = [tx EXCEPT !.change = FALSE]
    /\ UNCHANGED <<service, lb, rate, port, hw, loaded>>

task_10 ==
    \/ QuietTurn \/ Turn
    \/ Skip("service", "lb", service.change) \/ ServiceSwitch \/ ServiceLoad \/ ServiceStore
    \/ Skip("lb", "rate", lb.change) \/ LoopSet \/ LoopRate \/ LoopDone
    \/ Skip("rate", "tx", rate.change) \/ CancelRate
    \/ RateSet \/ RateRead \/ RateCheck \/ RateClear
    \/ Skip("tx", "idle", tx.change) \/ TxSet \/ TxCheck \/ TxClear

MainLoop == SetDefault \/ RaiseFlags \/ task_10

Next == Alarm \/ MainLoop

Spec == Init /\ [][Next]_vars

\* The main loop never waits in these steps.
FairSpec == Spec /\ WF_vars(MainLoop)

-----------------------------------------------------------------------------
\* Nothing is left to do.
Settled == pc = "idle" /\ ~Changed /\ ~restore

\* A port that is out of service is dark and its parameters are not coloured,
\* however requests, restores and turns of task_10 were mixed; the exception
\* is a request that came while task_10 was carrying out an earlier one for
\* the same control (see LaserStaysOff).
OutOfServiceIsDark ==
    Settled /\ raced \cap {"service", "tx"} = {} /\ service.current = "OOS" =>
        hw.dark /\ ~port.activity

\* With nothing left to do the loopback bit, and for a client RATE_SELECT, are
\* those of the mode and the rate the unit reports, although both write the
\* rate, a restore overwrites both and requests come in between.  A line
\* ignores CL; before the first rate is set the register is untouched.
HardwareFollows ==
    Settled =>
        /\ "lb" \notin raced /\ ~(kind = "line" /\ lb.current = "CL") =>
               hw.loop = (lb.current = "LN")
        /\ "rate" \notin raced /\ kind # "line" /\ hw.rate # Reset =>
               rate.current = rate.next /\ hw.rate = top_level_rate(rate.current)

\* A port whose rate was read back counts performance and errors when the
\* rate allows it, and only then.
CountersFollowRate ==
    Settled /\ "rate" \notin raced /\ kind # "line" /\ port.rate = rate.current =>
        /\ port.pfc = (rate.current \in {"STM1", "STM4", "STM16", "OTU1"})
        /\ port.fecCapable = (rate.current = "OTU1")

\* A transmitter goes on only when it was last asked for to be on, or when the
\* defaults were restored: neither a service state nor a race lights it.
LitOnRequest == hw.dark /\ ~hw.dark' => asked \/ restored
LitByHand == [][LitOnRequest]_vars

\* task_10 comes to an end with every request: no flag stays up for ever.
Settles == Changed ~> ~Changed

-----------------------------------------------------------------------------
\* What the code or its comments say, and the program does not keep.

\* "In this state ... TX cannot be turned ON or OFF" (main.c:6854-6855); with
\* the requests in any order a port out of service stays dark.
LaserStaysOff == Settled /\ service.current = "OOS" => hw.dark

\* "We do not turn ON TX enable automatically for safety reasons. We want the
\* user to manually turn ON SFP TX" (main.c:6850-6851).
OnlyByHand == [][hw.dark /\ ~hw.dark' => asked]_vars

\* "restore client port rate" (main.c:619): once the boot is over the hardware
\* of a client is set to the rate that was restored.
RateRestored ==
    Settled /\ kind # "line" /\ requests = 0 => hw.rate = top_level_rate(rate.current)

\* PFC is "not available for ETHERNET rates" (ipglb_adapter.c:115) and task_10
\* makes STM4 capable of it (main.c:6943): an STM4 port has its pfc module.
Stm4Counts == Settled /\ raced = {} /\ kind # "line" /\ rate.current = "STM4" => port.pfc

\* A write "changes a parameter to a new value based on user selection"
\* (main.c:3509): a request of rate r for a client leaves r as its next rate.
DataTypeIsSet ==
    [][\A r \in Rates : SetDataType(r) \/ SetDataTypeElsewhere(r) => rate'.next = r]_vars

\* MODE_LB_CL is "port placed in loop to client mode" (ipg_types.h:199): the
\* registers of a looped port are not those of an open one.
LoopsToClient == Settled /\ raced = {} /\ lb.current = "CL" => hw.loop
=============================================================================
