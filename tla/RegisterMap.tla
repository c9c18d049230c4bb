----------------------------- MODULE RegisterMap -----------------------------
(***************************************************************************)
(* The registers of the interfaces.  At boot every interface gets a table  *)
(* of pointers to its registers, a client to those in either FPGA, and     *)
(* whoever handles an interface picks from the table the pointers of the   *)
(* FPGA the interface is in.  The boot sequence then prepares the clients, *)
(* with the outputs of the lines switched off, and the tasks of the main   *)
(* loop read, reset and reconfigure the interfaces from there on.          *)
(*                                                                         *)
(* What matters here is which register a step ends up at.  The main loop   *)
(* does all of this by itself, so that every handler is one step.          *)
(***************************************************************************)
EXTENDS Integers

CONSTANTS
    Interfaces,  \* interfaces looked at, out of 0 .. 17
    Rates        \* rates of a client

RegisterMapAssumption ==
    /\ Interfaces \subseteq 0 .. 17
    /\ "STM1" \in Rates /\ Rates \subseteq {"STM1", "STM16", "OTU1", "GE", "FC1"}

VARIABLES
    mmap,         \* from interface to its table, from <<block, FPGA>> to a register
    next,         \* the interface mapped next
    phase,        \* "map", "disable", "boot" and "run"
    initialised,  \* clients run_boot_sequence has prepared
    txDisable,    \* tx_disable.current of a line
    rate,         \* rate of a client
    flagged,      \* port_rate_change_flag: clients whose framer is to be reset
    touched       \* registers the last step used

vars == <<mmap, next, phase, initialised, txDisable, rate, flagged, touched>>

LN_INDEX_START == 16
LN_INDEX_END == 17
LN_INDEX_OFFSET == 2

Blocks == {"stm_14", "stm_16", "gemac", "gepcs", "ge", "otu1", "odtu", "otu2_brick"}
Fields == Blocks \X {1, 2}

\* A register, and what malloc left in a pointer nobody has set.
Register(fpga, i, block) == [fpga |-> fpga, port |-> i, block |-> block]
Unset == [fpga |-> 0, port |-> 0, block |-> "unset"]
NoTable == [f \in Fields |-> Unset]

IsLine(i) == i >= LN_INDEX_START
Clients == {i \in Interfaces : ~IsLine(i)}
Lines == Interfaces \ Clients
Fpga(i) == IF i < 8 \/ i = LN_INDEX_START THEN 1 ELSE 2

TypeOK ==
    /\ mmap \in [Interfaces -> [Fields -> {Unset} \cup {Register(n, i, b) : n \in {1, 2}, i \in Interfaces, b \in Blocks}]]
    /\ next \in 0 .. 18 /\ phase \in {"map", "disable", "boot", "run"}
    /\ initialised \subseteq Clients
    /\ txDisable \in [Lines -> {0, 1}] /\ rate \in [Clients -> Rates] /\ flagged \subseteq Clients
    /\ \A t \in touched : t.of \in Interfaces /\ t.field \in Fields

Init ==
    /\ mmap = [i \in Interfaces |-> NoTable]
    /\ next = 0 /\ phase = "map" /\ initialised = {}
    /\ txDisable = [l \in Lines |-> 0]
    /\ rate = [c \in Clients |-> "STM1"]
    /\ flagged = {} /\ touched = {}

-----------------------------------------------------------------------------

\* The table of a client.  Its gemac_1 is assigned twice.
client_port_mmap(i) ==
    [f \in Fields |->
        CASE f[1] = "otu2_brick" \/ f = <<"gemac", 2>> -> Unset
          [] f = <<"gemac", 1>> -> Register(2, i, "gemac")
          [] OTHER -> Register(f[2], i, f[1])]

line_port_mmap(i) ==
    LET ln_index == i - LN_INDEX_OFFSET
    IN [NoTable EXCEPT
          ![<<"otu2_brick", 1>>] = IF ln_index = LN_INDEX_START THEN Register(1, i, "otu2_brick") ELSE @,
          ![<<"otu2_brick", 2>>] = IF ln_index = LN_INDEX_END THEN Register(2, i, "otu2_brick") ELSE @]

init_interface_data ==
    /\ phase = "map"
    /\ mmap' = IF next \in Interfaces
               THEN [mmap EXCEPT ![next] = IF IsLine(next) THEN line_port_mmap(next) ELSE client_port_mmap(next)]
               ELSE mmap
    /\ next' = next + 1
    /\ phase' = IF next = 17 THEN "disable" ELSE "map"
    /\ UNCHANGED <<initialised, txDisable, rate, flagged, touched>>

-----------------------------------------------------------------------------
\* What a step uses: the pointers fs in the tables of the interfaces is.
Use(op, is, fs) ==
    {[op |-> op, of |-> i, field |-> f, at |-> mmap[i][f]] : i \in is \cap Interfaces, f \in fs}

\* The pointers to some blocks in the FPGA of the interface.
Own(i, blocks) == blocks \X {Fpga(i)}

\* Both loops over the lines end before the last one.
LinesInLoop == Lines \ {LN_INDEX_END}

\* The reference clock of both lines is forced or released.
LockLines(op) == Use(op, {16}, {<<"otu2_brick", 1>>}) \cup Use(op, {17}, {<<"otu2_brick", 2>>})

disable_all_line_transceivers_tx ==
    /\ phase = "disable" /\ phase' = "boot"
    /\ txDisable' = [l \in Lines |-> IF l \in LinesInLoop THEN 1 ELSE txDisable[l]]
    /\ touched' = LockLines("boot")
    /\ UNCHANGED <<mmap, next, initialised, rate, flagged>>

\* The next client in run_boot_sequence.  The MAC of one in the second FPGA is
\* initialised through the other pointer, and the lines are enabled at the end
\* of the loop, not behind it.
BootClient(c) ==
    /\ phase = "boot" /\ c \in Clients \ initialised /\ \A d \in Clients \ initialised : c <= d
    /\ phase' = IF Clients \ initialised = {c} THEN "run" ELSE "boot"
    /\ touched' = Use("boot", {c}, Own(c, {"stm_14", "stm_16", "gepcs", "gemac", "ge"}) \cup {<<"gemac", 1>>})
                  \cup LockLines("boot")
    /\ initialised' = initialised \cup {c}
    /\ txDisable' = [l \in Lines |-> IF l \in LinesInLoop THEN 0 ELSE txDisable[l]]
    /\ UNCHANGED <<mmap, next, rate, flagged>>

-----------------------------------------------------------------------------
Running == phase = "run" /\ UNCHANGED <<mmap, next, phase, initialised, txDisable>>

\* Where the alarms and counters of a port are, by its rate.
StatsOf(i) ==
    IF IsLine(i) THEN {<<"otu2_brick", i - 15>>, <<"otu2_brick", 1>>}
    ELSE CASE rate[i] = "GE" -> Own(i, {"ge", "gemac"})
           [] rate[i] = "OTU1" -> Own(i, {"otu1"})
           [] rate[i] = "STM16" -> Own(i, {"stm_16"})
           [] rate[i] = "STM1" -> Own(i, {"stm_14"})
           [] rate[i] = "FC1" -> {}

\* task_55 reads an interface, its transceiver's pins first.
update_if_dynamic_data(i) ==
    /\ Running /\ UNCHANGED <<rate, flagged>>
    /\ touched' = Use("read", {i}, (IF IsLine(i) THEN {} ELSE Own(i, {"odtu"})) \cup StatsOf(i))

\* ... and helps a receiver that has lost its frame.
RecoverFromLof(i) ==
    /\ Running /\ UNCHANGED <<rate, flagged>>
    /\ \/ /\ IsLine(i)
          /\ touched' = LockLines("recover")
       \/ /\ ~IsLine(i) /\ rate[i] = "OTU1"
          /\ touched' = Use("recover", {i}, {<<"odtu", 1>>})

reconfigure_ge_port(i) == Use("reconfigure", {i}, Own(i, {"gepcs", "gemac", "ge"}))

set_if_port_rate(i, r) ==
    /\ Running
    /\ rate' = [rate EXCEPT ![i] = r] /\ flagged' = flagged \cup {i}
    /\ touched' = Use("rate", {i}, Own(i, {"odtu"}))
                  \cup (IF r = "GE" THEN reconfigure_ge_port(i) ELSE {})

\* task_100 resets the framers of the clients whose rate was changed.
ResetFramers ==
    /\ Running /\ flagged # {} /\ flagged' = {} /\ UNCHANGED rate
    /\ touched' = UNION {Use("reset", {i}, Own(i, {"stm_14"})) : i \in flagged}

\* An optical module of a client has become ready.
ModuleReady(i) ==
    /\ Running /\ UNCHANGED <<rate, flagged>>
    /\ touched' = reconfigure_ge_port(i)

\* A module was pulled out.  The table of a line is taken for that of a client.
callback_on_transceiver_plug_change(i) ==
    /\ Running /\ UNCHANGED <<rate, flagged>>
    /\ touched' = Use("unplug", {i}, {<<"gemac", IF i < 9 THEN 1 ELSE 2>>})

\* task_10 clears the counters of a client.
ClearCounters(i) ==
    /\ Running /\ UNCHANGED <<rate, flagged>>
    /\ touched' = Use("clear", {i}, Own(i, {"gemac"}))

Next ==
    \/ init_interface_data
    \/ disable_all_line_transceivers_tx
    \/ ResetFramers
    \/ \E i \in Interfaces :
          \/ update_if_dynamic_data(i)
          \/ RecoverFromLof(i)
          \/ callback_on_transceiver_plug_change(i)
    \/ \E c \in Clients :
          \/ BootClient(c)
          \/ ModuleReady(c)
          \/ ClearCounters(c)
          \/ \E r \in Rates : set_if_port_rate(c, r)

Spec == Init /\ [][Next]_vars

-----------------------------------------------------------------------------
Uses(of, blocks) == {t \in touched : t.of \in of /\ t.field[1] \in blocks}

\* A client is served through its own registers in its own FPGA: its framers,
\* its PCS, its GFP and, except while a receiver is helped to recover, its
\* transceiver.  A table filled, or a pointer picked, for the other FPGA would
\* reset a client in service (ipglb_adapter.c:178).
ClientUsesItsOwn ==
    \A t \in Uses(Clients, Blocks \ {"gemac"}) :
        t.op # "recover" => t.at = Register(Fpga(t.of), t.of, t.field[1])

\* No client is in service whose framers the boot sequence has not prepared
\* (main.c:2579).
ServedWhenPrepared == phase = "run" => initialised = Clients

\* ipglb_adapter.c:644: the statistics of an Ethernet port are those of
\* its own MAC.
EthernetReadsItsMac ==
    \A t \in Uses(Clients, {"gemac"}) : t.at = Register(Fpga(t.of), t.of, "gemac")

\* ipglb_adapter.c:296: a line's port is mapped to the registers of the line.
LineUsesItsOwn == \A t \in Uses(Lines, {"otu2_brick"}) : t.at # Unset

\* main.c:6715: the receiver that lost its frame is the one that is helped.
LofRecovers ==
    \A t \in touched : t.op = "recover" /\ t.of \in Clients => t.at.fpga = Fpga(t.of)

\* main.c:2663: the lines transmit once all is ready.
TransmitsWhenReady ==
    phase = "boot" => (initialised # {} /\ 16 \in Lines => txDisable[16] = 1)

\* main.c:1285: the transmitters of all lines are disabled.
AllLinesAreOff == phase = "boot" /\ initialised = {} => \A l \in Lines : txDisable[l] = 1
==============================================================================
