----------------------------- MODULE CardAlarms -----------------------------
(***************************************************************************)
(* The two alarms of the card.  Every 55 ms task_55 reads one interface:   *)
(* its module, and the defects its framer shows.  After the last one it    *)
(* sums them up, alarm 1 for the warnings and alarm 2 for what is          *)
(* critical, and sends the two to the ARM, which lights the status LED,    *)
(* whenever one of them has changed.                                       *)
(*                                                                         *)
(* A port keeps its defects in one word, whose bits mean something else    *)
(* for each protocol.  Three of them stand for the word: bit 0 (LOS, for   *)
(* all), bit 4 (SM_IAE for OTU, MS_BIP for SDH) and bit 6 (SM_BDI, MS_RDI).*)
(* A diagnostics value (temperature, powers, FEC load) is the severity it  *)
(* has under the thresholds, and an interface the set of its severities.   *)
(***************************************************************************)
EXTENDS Naturals

CONSTANTS
    INTERFACE_COUNT,   \* the interfaces are 0 .. INTERFACE_COUNT - 1
    FirstLine,         \* the clients are below it, the lines begin with it
    Protocols,         \* what a client may carry, of "OTU", "SDH", "ETH", "FC"
    MaxChanges         \* bound on the changes of the hardware and of the settings

CardAlarmsAssumption ==
    /\ INTERFACE_COUNT \in Nat \ {0} /\ FirstLine \in 0 .. INTERFACE_COUNT
    /\ Protocols \subseteq {"OTU", "SDH", "ETH", "FC"} /\ MaxChanges \in Nat

VARIABLES
    present,      \* hardware: a module is plugged
    live,         \* hardware: the defects of the signal
    odu,          \* hardware: a line shows a defect of the ODU
    level,        \* hardware: the severities of the module's values
    state,        \* monitor.state, what was read of the module
    prot,         \* monitor.prot
    monitor,      \* ACTIVITY_MONITOR_ON
    alarms,       \* monitor.statistics, the alarm word of the port
    odux_alarms,  \* is one of the ODU alarms set
    read,         \* the severities of the values as they were last read
    temperature,  \* the severity of the card's temperature
    alarm1, alarm2,
    selected_if,
    led,          \* the alarms the ARM was told last: <<alarm2, alarm1>>
    known,        \* history: the last exchange with the ARM went through
    quiet,        \* history: interfaces updated since something changed
    changes

hardware == <<present, live, odu, level>>
interface == <<state, alarms, odux_alarms, read>>
card == <<alarm1, alarm2, led, known>>
vars == <<hardware, interface, prot, monitor, temperature, card,
          selected_if, quiet, changes>>

Interfaces == 0 .. INTERFACE_COUNT - 1
IsLine(i) == i >= FirstLine
Bits == {"LOS", "bit 4", "bit 6"}
Severities == {"warning", "critical"}
Alarm == [current : BOOLEAN, change : BOOLEAN]

TypeOK ==
    /\ present \in [Interfaces -> BOOLEAN]
    /\ live \in [Interfaces -> SUBSET Bits]
    /\ odu \in [Interfaces -> BOOLEAN]
    /\ level \in [Interfaces -> SUBSET Severities]
    /\ state \in [Interfaces -> {"absent", "booting", "monitor"}]
    /\ prot \in [Interfaces -> {"OTU", "SDH", "ETH", "FC"}]
    /\ \A i \in Interfaces : IsLine(i) => prot[i] = "OTU"
    /\ monitor \in [Interfaces -> BOOLEAN]
    /\ alarms \in [Interfaces -> SUBSET Bits]
    /\ odux_alarms \in [Interfaces -> BOOLEAN]
    /\ \A i \in Interfaces : odux_alarms[i] => IsLine(i)
    /\ read \in [Interfaces -> SUBSET Severities]
    /\ temperature \in Severities \cup {"normal"}
    /\ {alarm1, alarm2} \subseteq Alarm
    /\ selected_if \in Interfaces
    /\ led \in BOOLEAN \X BOOLEAN /\ known \in BOOLEAN
    /\ quiet \in 0 .. 2 * INTERFACE_COUNT /\ changes \in 0 .. MaxChanges

(***************************************************************************)
(* The defaults: both alarms are raised, every interface is monitored,     *)
(* the clients carry STM-1.                                                *)
(* The ARM was not reset and shows what it was told before.                *)
(***************************************************************************)
Init ==
    /\ present \in [Interfaces -> BOOLEAN]
    /\ live = [i \in Interfaces |-> {}]
    /\ odu = [i \in Interfaces |-> FALSE]
    /\ level = [i \in Interfaces |-> {}]
    /\ state = [i \in Interfaces |-> "absent"]
    /\ prot = [i \in Interfaces |-> IF IsLine(i) THEN "OTU" ELSE "SDH"]
    /\ monitor = [i \in Interfaces |-> TRUE]
    /\ alarms = [i \in Interfaces |-> {}]
    /\ odux_alarms = [i \in Interfaces |-> FALSE]
    /\ read = [i \in Interfaces |-> {"critical"}]
    /\ temperature = "normal"
    /\ alarm1 = [current |-> TRUE, change |-> TRUE]
    /\ alarm2 = [current |-> TRUE, change |-> TRUE]
    /\ selected_if = 0
    /\ led \in BOOLEAN \X BOOLEAN /\ known = FALSE
    /\ quiet = 0 /\ changes = 0

-----------------------------------------------------------------------------
(* The hardware and the settings *)

Changed == changes < MaxChanges /\ changes' = changes + 1 /\ quiet' = 0

\* A module is plugged in or pulled out.
Plug(i) ==
    /\ Changed
    /\ present' = [present EXCEPT ![i] = ~@]
    /\ UNCHANGED <<live, odu, level, interface, prot, monitor, temperature, card, selected_if>>

\* The signal gets or loses defects; a line's framer also looks at the ODU.
Signal(i) ==
    /\ Changed
    /\ \E defects \in SUBSET Bits : live' = [live EXCEPT ![i] = defects]
    /\ \E o \in (IF IsLine(i) THEN BOOLEAN ELSE {FALSE}) : odu' = [odu EXCEPT ![i] = o]
    /\ UNCHANGED <<present, level, interface, prot, monitor, temperature, card, selected_if>>

\* Values of the module pass their thresholds.
Diagnostics(i) ==
    /\ Changed
    /\ \E severities \in SUBSET Severities : level' = [level EXCEPT ![i] = severities]
    /\ UNCHANGED <<present, live, odu, interface, prot, monitor, temperature, card, selected_if>>

\* task_10 sets another rate on a client and reads it back.
SetRate(i) ==
    /\ ~IsLine(i) /\ Changed
    /\ \E p \in Protocols : prot' = [prot EXCEPT ![i] = p]
    /\ UNCHANGED <<hardware, interface, monitor, temperature, card, selected_if>>

\* task_10 takes the interface into service or out of it.
ServiceState(i) ==
    /\ Changed
    /\ monitor' = [monitor EXCEPT ![i] = ~@]
    /\ UNCHANGED <<hardware, interface, prot, temperature, card, selected_if>>

\* The temperature of the card passes a threshold.
get_board_temperature ==
    /\ Changed
    /\ temperature' \in Severities \cup {"normal"}
    /\ UNCHANGED <<hardware, interface, prot, monitor, card, selected_if>>

-----------------------------------------------------------------------------
(* One interface *)

\* The state the module is found in.  From plugging it to its first reading
\* it takes some rounds, in which nothing of it is read.
NextState(i) ==
    IF ~present[i] THEN {"absent"}
    ELSE CASE state[i] = "monitor" -> {"monitor"}
           [] state[i] = "booting" -> {"booting", "monitor"}
           [] state[i] = "absent" -> {"booting"}

\* The values of an absent module are the least there are, all of them below
\* their critical thresholds; they stay until the module is read.
Read(i, next) == IF next = "monitor" THEN level[i]
                 ELSE IF next = "absent" THEN {"critical"} ELSE read[i]

\* LOS is the module's; it is set until the module is read.
Los(i, next) == IF next = "monitor" THEN live[i] \cap {"LOS"} ELSE {"LOS"}

(***************************************************************************)
(* What the port's statistics become, by protocol.  The masks keep the     *)
(* bits 0..7 for SDH, 0..6 for OTU, 0..2 for Ethernet.  A line does not    *)
(* read SM_IAE; SDH no longer reads MS_BIP; Fibre Channel reads nothing.   *)
(***************************************************************************)
Stats(i, next) ==
    CASE prot[i] = "OTU" /\ ~IsLine(i) -> Los(i, next) \cup (live[i] \ {"LOS"})
      [] prot[i] = "OTU" /\ IsLine(i) ->
            Los(i, next) \cup (live[i] \cap {"bit 6"}) \cup (alarms[i] \cap {"bit 4"})
      [] prot[i] = "SDH" ->
            Los(i, next) \cup (live[i] \cap {"bit 6"}) \cup (alarms[i] \cap {"bit 4"})
      [] prot[i] = "ETH" -> Los(i, next)
      [] OTHER -> alarms[i]

\* An absent module has its statistics cleared when it goes, and not read.
update_if_dynamic_data(i) ==
    \E next \in NextState(i) :
        /\ state' = [state EXCEPT ![i] = next]
        /\ read' = [read EXCEPT ![i] = Read(i, next)]
        /\ alarms' = [alarms EXCEPT ![i] =
                        IF next # "absent" THEN Stats(i, next)
                        ELSE IF state[i] # "absent" THEN {} ELSE @]
        /\ odux_alarms' = [odux_alarms EXCEPT ![i] = IsLine(i) /\ next # "absent" /\ odu[i]]

-----------------------------------------------------------------------------
(* The card *)

\* update_alarms and update_card_alarm1
Warned(seen) ==
    temperature = "warning" \/ \E i \in Interfaces : monitor[i] /\ "warning" \in seen[i]

\* update_alarms and update_card_alarm2
Critical(seen, word, oduWord) ==
    \/ temperature = "critical"
    \/ \E i \in Interfaces :
        /\ monitor[i]
        /\ \/ "critical" \in seen[i]
           \/ IsLine(i) /\ oduWord[i]
           \/ prot[i] \in {"ETH", "SDH", "OTU"} /\ word[i] # {}

\* alarm.previous, alarm.current and alarm.change
Updated(alarm, now) == [current |-> now, change |-> now # alarm.current]

\* Mutant: only an alarm that has come is a change.
RaisedIsTold == (alarm1'.change /\ alarm1'.current) \/ (alarm2'.change /\ alarm2'.current)

\* Either alarm has changed.
MustTell == alarm1'.change \/ alarm2'.change

\* set_status_led: the request carries both alarms.  The ARM may not get it,
\* or its reply may not come back; the result is ignored.
set_status_led ==
    IF ~MustTell THEN UNCHANGED <<led, known>>
    ELSE \E answer \in {"reply", "reply lost", "request lost"} :
            /\ led' = IF answer = "request lost" THEN led
                      ELSE <<alarm2'.current, alarm1'.current>>
            /\ known' = (answer = "reply")

\* What task_55 does after the last interface.  The slot is known by then.
Round ==
    /\ alarm1' = Updated(alarm1, Warned(read'))
    /\ alarm2' = Updated(alarm2, Critical(read', alarms', odux_alarms'))
    /\ set_status_led

task_55 ==
    /\ update_if_dynamic_data(selected_if)
    /\ selected_if' = (selected_if + 1) % INTERFACE_COUNT
    /\ IF selected_if' = 0 THEN Round ELSE UNCHANGED card
    /\ quiet' = IF quiet < 2 * INTERFACE_COUNT THEN quiet + 1 ELSE quiet
    /\ UNCHANGED <<hardware, prot, monitor, temperature, changes>>

Next ==
    \/ \E i \in Interfaces : \/ Plug(i) \/ Signal(i) \/ Diagnostics(i)
                             \/ SetRate(i) \/ ServiceState(i)
    \/ get_board_temperature
    \/ task_55

Spec == Init /\ [][Next]_vars

-----------------------------------------------------------------------------
(* Properties *)

\* Between two rounds, and nothing changed since before the whole last one.
Settled == selected_if = 0 /\ quiet >= INTERFACE_COUNT

\* A module that is watched and read.
Watched(i) == present[i] /\ monitor[i] /\ state[i] = "monitor"

\* The defects a protocol reads.
DefectsOf(i) ==
    CASE prot[i] = "OTU" /\ ~IsLine(i) -> Bits
      [] prot[i] = "ETH" -> {"LOS"}
      [] prot[i] = "FC" -> {}
      [] OTHER -> {"LOS", "bit 6"}

Defective(i) == live[i] \cap DefectsOf(i) # {} \/ odu[i]

\* No alarm is missed: once a round has gone by without a change, whatever is
\* wrong with a module that is watched shows in the alarms, through rate
\* changes, modules that come and go and interfaces taken out of service.
NoAlarmIsMissed ==
    Settled =>
        /\ (temperature = "warning" \/ \E i \in Interfaces : Watched(i) /\ "warning" \in level[i])
              => alarm1.current
        /\ (temperature = "critical"
              \/ \E i \in Interfaces : Watched(i) /\ (Defective(i) \/ "critical" \in level[i]))
              => alarm2.current

\* The interface shows what its module and its signal show: it is read, and no
\* protocol before this one has left bits that this one does not write.
Clean(i) == Watched(i) /\ (prot[i] = "SDH" => "bit 4" \notin alarms[i])

\* No alarm stays on: once a round has gone by without a change, alarms that
\* are raised have a reason, unless a watched module is absent or not read yet.
NoAlarmStaysOn ==
    Settled /\ (\A i \in Interfaces : monitor[i] => Clean(i)) =>
        /\ alarm1.current =>
              temperature = "warning" \/ \E i \in Interfaces : monitor[i] /\ "warning" \in level[i]
        /\ alarm2.current =>
              \/ temperature = "critical"
              \/ \E i \in Interfaces : monitor[i] /\ (Defective(i) \/ "critical" \in level[i])

\* The LED follows: as long as the ARM's last answer came, the ARM shows what
\* the alarms are.  Only changes are sent, so that each must be.
LedFollows == known => led = <<alarm2.current, alarm1.current>>

(***************************************************************************)
(* "Update status LED according to Alarm 1 and Alarm 2 states"             *)
(* (main.c:6758): after two rounds without a change the LED shows them.    *)
(* An exchange that was lost is not repeated.                              *)
(***************************************************************************)
LedShowsTheAlarms ==
    selected_if = 0 /\ quiet = 2 * INTERFACE_COUNT => led = <<alarm2.current, alarm1.current>>

(***************************************************************************)
(* "clear all alarms if SFP is absent" (ipglb_adapter.c:2573): a card      *)
(* whose modules are all absent, and known to be, shows no alarm of them.  *)
(* The values of an absent module are below every threshold.               *)
(***************************************************************************)
AbsentShowsNone ==
    Settled /\ temperature = "normal" /\ (\A i \in Interfaces : ~present[i]) => ~alarm2.current

(***************************************************************************)
(* "alarms removed in this project" (ipglb_adapter.c:522): SDH has no      *)
(* MS_BIP any more, so that a client without a defect shows no alarm.      *)
(* What OTU left in that bit stays.                                        *)
(***************************************************************************)
RemovedAlarmsAreOff ==
    Settled /\ temperature = "normal"
    /\ (\A i \in Interfaces : Watched(i) /\ level[i] = {} /\ ~odu[i] /\ live[i] = {})
        => ~alarm2.current
=============================================================================
