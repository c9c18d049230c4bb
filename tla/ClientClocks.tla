---------------------------- MODULE ClientClocks ----------------------------
(***************************************************************************)
(* The clocks of the clients.  Every client has a port of an attenuator    *)
(* (si5375).  A change of its rate (set_if_port_rate) puts the registers   *)
(* for the new rate in the copy of that port kept in memory (switch_to_ge  *)
(* and its kin) and then writes ports of the first four attenuators from   *)
(* their copies (ipg_si5375_config).  A user of the test port can have a   *)
(* port written, too.                                                      *)
(*                                                                         *)
(* The registers of a port are one value, its clock.  That the generators  *)
(* take what is written is the subject of ClockGen.                        *)
(***************************************************************************)
EXTENDS Integers

CONSTANT Clients        \* clients whose rate is changed, of the 16 on the board

ClientsAssumption == Clients \subseteq 0 .. 15

VARIABLES
    rate,   \* from client to its rate as last set
    cfg,    \* from attenuator to port to the copy in memory
    out,    \* from attenuator to port to what the port was last given
    last    \* the request served last, and what was answered

vars == <<rate, cfg, out, last>>

Rate == {"GE", "STM", "OTU1", "FC1", "FC2"}
Clock == {"125", "155.52", "166.62", "106.25"}

PORT_A == 0
Devices == 0 .. 3
Ports == 0 .. 3

\* The clock of a rate (the tables si5375_155_52_*).
ClockOf(r) == CASE r = "GE" -> "125" [] r = "STM" -> "155.52" [] r = "OTU1" -> "166.62"
                [] r \in {"FC1", "FC2"} -> "106.25"

\* The port of a client: attenuator and port.
At(c) == <<c \div 4, c % 4>>

\* What build_i2c_tree puts in the copies; 167 MHz is not a client's clock.
InitialClock(d) == CASE d = 1 -> "166.62" [] d = 2 -> "167" [] OTHER -> "155.52"

\* configure_board_clocks leaves two ports of the third attenuator alone.
ConfiguredAtStart(d, p) == ~(d = 2 /\ p \in {1, 3})

Init ==
    /\ rate = [c \in Clients |-> "unset"]
    /\ cfg = [d \in Devices |-> [p \in Ports |-> InitialClock(d)]]
    /\ out = [d \in Devices |-> [p \in Ports |->
                 IF ConfiguredAtStart(d, p) THEN InitialClock(d) ELSE "reset"]]
    /\ last = [by |-> "nobody"]

-----------------------------------------------------------------------------
\* Which copy a switch changes, and to which clock.
Copy(at, clock) == [at |-> at, clock |-> clock]

switch_to_sonet(c) == Copy(At(c), "155.52")
switch_to_ge(c) == Copy(At(c), "125")
switch_to_fc1(c) == Copy(At(c), "106.25")

switch_to_fc2(c) == Copy(At(c), "106.25")

\* Clients 7 and 12 are given the clock of GE, client 3 changes port C.
switch_to_otu1(c) ==
    CASE c = 3 -> Copy(<<0, 2>>, "166.62")
      [] c \in {7, 12} -> Copy(At(c), "125")
      [] OTHER -> Copy(At(c), "166.62")

\* There is no switch to OTU1 for client 1.
Switched(c, r) == ~(c = 1 /\ r = "OTU1")

Switch(c, r) == CASE r = "GE" -> switch_to_ge(c) [] r = "STM" -> switch_to_sonet(c)
                  [] r = "OTU1" -> switch_to_otu1(c) [] r = "FC1" -> switch_to_fc1(c)
                  [] r = "FC2" -> switch_to_fc2(c)

\* ipg_si5375_config: a port is written from its copy; there are four.
ipg_si5375_config(d, port, copies) == [out EXCEPT ![d][port] = copies[d][port]]

\* The four calls at the end of every switch: the port is PORT_A plus the index
\* of the client, so that nothing is written for a client above 3.
ConfigAll(c, copies) ==
    [d \in Devices |->
        IF PORT_A + c \in Ports THEN ipg_si5375_config(d, PORT_A + c, copies)[d] ELSE out[d]]

set_if_port_rate(c, r) ==
    /\ rate' = [rate EXCEPT ![c] = r]
    /\ IF Switched(c, r)
       THEN LET w == Switch(c, r)
            IN /\ cfg' = [cfg EXCEPT ![w.at[1]][w.at[2]] = w.clock]
               /\ out' = ConfigAll(c, cfg')
       ELSE UNCHANGED <<cfg, out>>
    /\ last' = [by |-> "rate", client |-> c]

\* handle_user_i2c_config: the index names the attenuator and the port.
handle_user_i2c_config(index) ==
    LET k == index - 6
    IN /\ IF k \in Ports
          THEN out' = ipg_si5375_config(k, k, cfg) /\ last' = [by |-> "user", result |-> "OK"]
          ELSE UNCHANGED out /\ last' = [by |-> "user", result |-> "FAIL"]
       /\ UNCHANGED <<rate, cfg>>

Next == \/ \E c \in Clients, r \in Rate : set_if_port_rate(c, r)
        \/ \E index \in 6 .. 29 : handle_user_i2c_config(index)

Spec == Init /\ [][Next]_vars

-----------------------------------------------------------------------------
TypeOK ==
    /\ rate \in [Clients -> Rate \cup {"unset"}]
    /\ cfg \in [Devices -> [Ports -> Clock \cup {"167"}]]
    /\ out \in [Devices -> [Ports -> Clock \cup {"167", "reset"}]]
    /\ last \in [by : {"nobody"}] \cup [by : {"rate"}, client : Clients]
                \cup [by : {"user"}, result : {"OK", "FAIL"}]

\* The rates that are switched as they should be.
Right(c) == rate[c] # "unset" /\ <<c, rate[c]>> \notin {<<1, "OTU1">>, <<3, "OTU1">>,
                                                         <<7, "OTU1">>, <<12, "OTU1">>}

(***************************************************************************)
(* The first four clients run from the clock of their rate whatever rates  *)
(* the other clients were given in between and whatever a user has         *)
(* configured, the OTU1 of clients 1 and 3 apart (switch_to_ge, etc.).     *)
(***************************************************************************)
ClockFollowsRate ==
    \A c \in Clients : c < 4 /\ Right(c) => out[At(c)[1]][At(c)[2]] = ClockOf(rate[c])

\* A client whose rate is not changed has its clock, or the one it had.
OthersFollow ==
    \A c \in Clients : Right(c) /\ rate'[c] = rate[c] =>
        out'[At(c)[1]][At(c)[2]] \in {out[At(c)[1]][At(c)[2]], ClockOf(rate[c])}

(***************************************************************************)
(* A change of the rate of one client writes the ports of others, too, but *)
(* gives none of them a clock that is not that of its rate                 *)
(* (ipg_si5375_config on all four attenuators).                            *)
(***************************************************************************)
OthersKeepTheirClock == [][OthersFollow]_vars

\* main.c:5530, of client 3: "Modify the SI5375 PORT D output configuration."
PortDIsModified == 3 \in Clients /\ rate[3] = "OTU1" => cfg[0][3] = "166.62"

\* main.c:5603: "Apply the new SI5375 configuration."
NewIsApplied ==
    last.by = "rate" => LET at == At(last.client) IN out[at[1]][at[2]] = cfg[at[1]][at[2]]

\* main.c:2040: "6 SI-5375 device with 4 ports (index 6:30)".
IndexIsPort == last.by = "user" => last.result = "OK"
=============================================================================
