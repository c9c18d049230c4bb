------------------------------- MODULE I2cMux -------------------------------
(***************************************************************************)
(* The virtual multiplexer of the I2C buses.  A device has a channel on    *)
(* its bus, and every driver selects that channel before it talks to the   *)
(* device (select_i2c_channel_on_bus).  On the two main buses that means   *)
(* writing the control register of a PCA9547, itself an I2C device of the  *)
(* bus; the program remembers which channel it selected last and writes    *)
(* nothing when that channel is wanted again.                              *)
(*                                                                         *)
(* All I2C use is in the main loop, so a selection is one step.  The       *)
(* transfer that follows it belongs to I2cMaster.                          *)
(***************************************************************************)
EXTENDS Integers

CONSTANTS
    Buses,      \* main buses in use, out of bus4 and rem_bus4
    Refusals,   \* TRUE when a multiplexer may not answer
    MuxPassed   \* what select_channel gets for its second argument

I2cMuxAssumption ==
    /\ Buses \subseteq {"bus4", "rem_bus4"}
    /\ Refusals \in BOOLEAN
    /\ MuxPassed \subseteq {"own", "other", "none"}

VARIABLES
    current,    \* current_selected_channel, a static of select_channel_on_bus4
    mux,        \* from bus to the channel its multiplexer passes
    taken,      \* history: from bus to whether it took what it was sent last
    access      \* the selection made last

vars == <<current, mux, taken, access>>

CHANNEL_NONE == -1
SFP_SI5338 == 0 .. 2    \* an SFP and a clock generator share the channel
SFP_ONLY == 3 .. 7
MCP9808 == 8 .. 9       \* temperature sensors, on the bus itself
MuxChannels == SFP_SI5338 \cup SFP_ONLY

\* Whether a write is taken: what its outcome may be.
Outcomes == IF Refusals THEN BOOLEAN ELSE {TRUE}

Other(b) == CHOOSE o \in {"bus4", "rem_bus4"} : o # b

\* The buses whose multiplexer the callback may write to.  bus->select_channel
\* is called with a channel only; for the pointer it reads next it finds what
\* is left in the register.
MuxesOf(b) == {CASE p = "own" -> {b} [] p = "other" -> {Other(b)} \cap Buses [] p = "none" -> {} :
                  p \in MuxPassed}

\* The boot clears both multiplexers, which keep their channel over a restart.
Init ==
    /\ current = CHANNEL_NONE
    /\ taken \in [Buses -> Outcomes]
    /\ mux \in [Buses -> MuxChannels \cup {CHANNEL_NONE}]
    /\ \A b \in Buses : taken[b] => mux[b] = CHANNEL_NONE
    /\ access = [bus |-> "none"]

-----------------------------------------------------------------------------
\* unselect_all_pca9547_channels, then select_pca9547_channel, on the
\* multiplexers ms: what they pass afterwards when the writes are taken or not.
Passes(ms, ch, off, on) ==
    [b \in Buses |->
        CASE b \notin ms -> mux[b]
          [] b \in ms /\ ch \in MuxChannels /\ on -> ch
          [] b \in ms /\ ~(ch \in MuxChannels /\ on) /\ off /\ current # CHANNEL_NONE -> CHANNEL_NONE
          [] OTHER -> mux[b]]

\* Whether the last write sent to a multiplexer was taken.
LastTaken(ms, ch, off, on) ==
    [b \in Buses |->
        CASE b \in ms /\ ch \in MuxChannels -> on
          [] b \in ms /\ ch \notin MuxChannels /\ current # CHANNEL_NONE -> off
          [] OTHER -> taken[b]]

select_channel_on_bus4(b, ch) ==
    IF current = ch
    THEN UNCHANGED <<current, mux, taken>>
    ELSE /\ \E ms \in MuxesOf(b), off \in Outcomes, on \in Outcomes :
              /\ mux' = Passes(ms, ch, off, on)
              /\ taken' = LastTaken(ms, ch, off, on)
         /\ current' = ch

\* A driver selects the channel of its device; both buses have the same
\* callback.
select_i2c_channel_on_bus(b, ch) ==
    /\ select_channel_on_bus4(b, ch)
    /\ access' = [bus |-> b, channel |-> ch, wrote |-> current # ch]

\* Where the transceivers are.  build_i2c_tree goes over the eight SFPs of
\* either bus, and then over the line modules, two of either half; it finds
\* them by index, and both times by the same.
BusOf ==
    LET bus4 == [i \in 0 .. 17 |-> IF i < 8 THEN "bus4" ELSE "unset"]
        bus9 == [i \in 0 .. 17 |-> IF i < 8 THEN "rem_bus4" ELSE bus4[i]]
        line == [bus9 EXCEPT ![0] = "ln0", ![1] = "ln1"]
    IN [line EXCEPT ![0] = "rem_ln0", ![1] = "rem_ln1"]

\* A clock generator or a sensor; both buses have three and two of them.
AccessDevice(b) ==
    \E ch \in SFP_SI5338 \cup MCP9808 : select_i2c_channel_on_bus(b, ch)

\* A transceiver.  Those of the line have a bus to themselves.  What becomes of
\* an access through the bus pointer malloc left is not followed.
AccessModule(i) ==
    \/ /\ BusOf[i] \in Buses
       /\ select_i2c_channel_on_bus(BusOf[i], i)
    \/ /\ BusOf[i] \notin {"bus4", "rem_bus4"}
       /\ access' = [bus |-> BusOf[i], channel |-> CHANNEL_NONE, wrote |-> FALSE]
       /\ UNCHANGED <<current, mux, taken>>

Next ==
    \/ \E b \in Buses : AccessDevice(b)
    \/ \E i \in 0 .. 17 : AccessModule(i)

Spec == Init /\ [][Next]_vars

-----------------------------------------------------------------------------
TypeOK ==
    /\ current \in MuxChannels \cup MCP9808 \cup {CHANNEL_NONE}
    /\ mux \in [Buses -> MuxChannels \cup {CHANNEL_NONE}]
    /\ taken \in [Buses -> BOOLEAN]
    /\ \/ access = [bus |-> "none"]
       \/ access \in [bus : Buses \cup {"rem_ln0", "rem_ln1", "unset"}, channel : -1 .. 9, wrote : BOOLEAN]

\* What the device wanted needs of the multiplexer: its channel and no other,
\* or nothing at all for a sensor.
Wanted(ch) == IF ch \in MuxChannels THEN ch ELSE CHANNEL_NONE

\* Refuted: a driver that has selected its channel talks to its device and to no
\* other: the multiplexer passes that channel alone, and none while a sensor is
\* read.  The generators, like the SFPs, all have the same address, so that a
\* wrong channel is another device written.
ReachesItsDevice ==
    \A b \in Buses : access.bus = b /\ taken[b] => mux[b] = Wanted(access.channel)

\* Refuted: a channel that could not be selected is selected again before the device
\* is accessed once more.
RefusedIsRepeated ==
    [][\A b \in Buses : access'.bus = b /\ ~taken[b] /\ mux[b] # Wanted(access'.channel) => access'.wrote]_vars

\* Refuted: every transceiver of the card is on a bus when it is accessed.
EveryModuleIsWired == access.bus # "unset"
=============================================================================
