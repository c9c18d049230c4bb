------------------------------ MODULE SfpData ------------------------------
(***************************************************************************)
(* What the program knows of the SFP in one cage (ipg_sfp.c), from its     *)
(* plugging to its removal: type, identification, capabilities, thresholds *)
(* and measurements, each read over an I2C bus where any read may fail,    *)
(* and the copy task_55 makes of them for the control unit.                *)
(* The state machine that calls for the reads is Transceiver's: here the   *)
(* end of a boot comes at any time and lost answers are not counted.       *)
(***************************************************************************)
EXTENDS Naturals, FiniteSets

CONSTANTS
    Module,       \* the modules there are
    Optical,      \* those with an LC connector
    Monitored,    \* those that measure themselves: digital diagnostics
    MaxEvents,    \* bound: modules plugged, pulled, exchanged
    MaxFailures   \* bound: reads that fail

None == "none"
Floor == "floor"      \* the limits and values of an empty cage
Garbage == "garbage"  \* what malloc, or an unset pointer, leads to

SfpDataAssumption ==
    /\ Optical \subseteq Module /\ Monitored \subseteq Optical
    /\ Module \cap {None, Floor, Garbage} = {}
    /\ MaxEvents \in Nat /\ MaxFailures \in Nat

VARIABLES
    cage,      \* the module in the cage
    trans,     \* transceiver_t: what was read from it
    boot,      \* "asked", "timer" while the module wakes up, "done", or None
    pin,       \* the copy for the control unit: value and thr
    phy,       \* the modules whose PHY was set for Ethernet
    unseen,    \* history: the module read was exchanged between two polls
    events,    \* counter for a bound
    failures   \* counter for a bound

vars == <<cage, trans, boot, pin, phy, unseen, events, failures>>

\* The reads of com_check, of get_sfp_info in their order, of the thresholds and of get_sfp_diagnostics.
Reads == {"base", "vn", "sn", "pn", "rn", "ddi", "options", "connector", "thr", "power", "temp"}

-----------------------------------------------------------------------------
\* From transceiver to transceiver; m is the module in the cage, f the reads that fail.

\* Mutant: the type is not taken back with the module.
UnplugKeepsType(t) ==
    [t EXCEPT !.handler = "absent", !.id = None, !.temp = Floor,
              !.floor = IF t.type = "optical" THEN Floor ELSE @,
              !.thr = IF t.type = "optical" THEN Floor ELSE @,
              !.value = IF t.type = "optical" THEN Floor ELSE t.floor]

\* callback_on_transceiver_plug_change and the absent state.
Unplugged(t) ==
    [t EXCEPT !.handler = "absent", !.type = "optical", !.id = None, !.temp = Floor,
              !.floor = Floor, !.thr = Floor, !.value = Floor]

sfp_com_check(m, f) == m # None /\ "base" \notin f

get_sfp_capabilities(t, m, f) == [t EXCEPT !.ddi = IF "ddi" \in f THEN @ ELSE m \in Monitored]

get_sfp_connector_value(m, f) ==
    IF "connector" \notin f /\ m \in Optical THEN "optical" ELSE "electrical"

\* get_sfp_vn, get_sfp_sn, get_sfp_pn and get_sfp_rn.
IdRead(f) == {"vn", "sn", "pn", "rn"} \cap f = {}

\* The identification is composed when all its parts are there.
get_sfp_id(t, m, f) == IF IdRead(f) THEN [t EXCEPT !.id = m] ELSE t

\* RET_SUCCESS of get_sfp_info: the connector's read is not asked.
InfoRead(f) == IdRead(f) /\ {"ddi", "options"} \cap f = {}

get_sfp_info(t, m, f) ==
    LET i == get_sfp_id(t, m, f)
        c == get_sfp_capabilities(i, m, f)
    IN  CASE InfoRead(f) -> [c EXCEPT !.type = get_sfp_connector_value(m, f)]
          [] ~InfoRead(f) /\ IdRead(f) -> c
          [] OTHER -> i

Reallocated(t) ==
    [t EXCEPT !.alloc = TRUE, !.value = Garbage, !.floor = Garbage, !.thr = Garbage]

\* read_if_transceiver_opt_pwr_thresholds: those of an optical module.
get_sfp_optical_power_thresholds(t, m, f) ==
    IF t.type = "optical" THEN [t EXCEPT !.floor = Floor, !.thr = IF "thr" \in f THEN @ ELSE m]
    ELSE t

run_transceiver_query_state(t, m, f) ==
    LET i == get_sfp_info(t, m, f)
        r == IF i.ddi THEN get_sfp_optical_power_thresholds(Reallocated(i), m, f) ELSE i
    IN  IF InfoRead(f) THEN [r EXCEPT !.handler = "monitor"]
        ELSE [i EXCEPT !.handler = "com_check"]

get_sfp_optical_power(t, m, f) == IF "power" \in f THEN t ELSE [t EXCEPT !.value = m]

get_sfp_temperature(t, m, f) == IF "temp" \in f THEN t ELSE [t EXCEPT !.temp = m]

get_sfp_diagnostics(t, m, f) ==
    IF t.ddi THEN get_sfp_temperature(get_sfp_optical_power(t, m, f), m, f) ELSE t

-----------------------------------------------------------------------------
Init ==
    /\ cage \in Module \cup {None}
    /\ trans = [handler |-> "absent", absent |-> TRUE, type |-> "optical", id |-> None,
                ddi |-> TRUE, alloc |-> FALSE, value |-> Garbage, floor |-> Garbage,
                thr |-> Garbage, temp |-> Floor]
    /\ boot = None
    /\ pin = [value |-> Floor, thr |-> Floor]
    /\ phy = {}
    /\ unseen = FALSE
    /\ events = 0 /\ failures = 0

\* The handler's work on a module that is there and not to be booted.
Handled(f) ==
    CASE trans.handler = "com_check" ->
            IF sfp_com_check(cage, f) THEN [trans EXCEPT !.handler = "query"] ELSE trans
      [] trans.handler = "query" -> run_transceiver_query_state(trans, cage, f)
      [] trans.handler = "monitor" -> get_sfp_diagnostics(trans, cage, f)
      [] OTHER -> trans

\* The handler's turn, with the reads of f failing.
Turn(f) ==
    CASE cage = None /\ ~trans.absent ->
            trans' = [Unplugged(trans) EXCEPT !.absent = TRUE] /\ UNCHANGED boot
      [] cage # None /\ trans.absent ->
            trans' = [trans EXCEPT !.handler = "booting", !.absent = FALSE] /\ boot' = "timer"
      [] (cage = None <=> trans.absent) /\ trans.handler = "booting" ->
            CASE boot = "asked" -> boot' = "timer" /\ UNCHANGED trans
              [] boot = "done" -> boot' = None /\ trans' = [trans EXCEPT !.handler = "com_check"]
              [] OTHER -> UNCHANGED <<boot, trans>>
      [] OTHER ->
            /\ trans' = IF cage = None THEN [trans EXCEPT !.handler = "absent"] ELSE Handled(f)
            /\ UNCHANGED boot

\* update_if_kurs_power of what the turn left, with the thresholds of the module in force.
Copied(t) ==
    [value |-> IF t.alloc THEN t.value ELSE pin.value,
     thr |-> CASE t.absent /\ ~trans.absent -> Floor
               [] t.absent /\ trans.absent -> pin.thr
               [] OTHER -> IF t.alloc THEN t.thr ELSE Garbage]

\* task_55 comes to the interface.
Poll ==
    \E f \in SUBSET Reads :
        /\ failures + Cardinality(f) <= MaxFailures
        /\ cage = None => f = {}
        /\ Turn(f)
        /\ pin' = Copied(trans')
        /\ phy' = IF trans'.handler = "monitor" /\ trans.handler # "monitor"
                     /\ trans'.type = "electrical" THEN phy \cup {cage} ELSE phy
        /\ unseen' = (unseen /\ ~trans'.absent /\ trans.handler # "query")
        /\ failures' = failures + Cardinality(f)
        /\ UNCHANGED <<cage, events>>

\* The alarm a second after the boot began.
Wake ==
    /\ boot = "timer"
    /\ boot' = "done"
    /\ UNCHANGED <<cage, trans, pin, phy, unseen, events, failures>>

\* A module is plugged or pulled, or exchanged for another between two polls.
Exchange ==
    /\ events < MaxEvents
    /\ cage' \in (Module \cup {None}) \ {cage}
    /\ unseen' = (cage' # None /\ ~trans.absent /\ (unseen \/ trans.id # cage'))
    /\ events' = events + 1
    /\ UNCHANGED <<trans, boot, pin, phy, failures>>

Next == Poll \/ Wake \/ Exchange

Spec == Init /\ [][Next]_vars /\ WF_vars(Poll) /\ WF_vars(Wake)

-----------------------------------------------------------------------------
(***************************************************************************)
(* Type invariant: the records and counters of the transceiver hold what   *)
(* the program writes to them.                                             *)
(***************************************************************************)
TypeOK ==
    /\ cage \in Module \cup {None}
    /\ trans \in [handler : {"absent", "booting", "com_check", "query", "monitor"},
                  absent : BOOLEAN, type : {"optical", "electrical"}, id : Module \cup {None},
                  ddi : BOOLEAN, alloc : BOOLEAN, value : Module \cup {Floor, Garbage},
                  floor : {Floor, Garbage}, thr : Module \cup {Floor, Garbage},
                  temp : Module \cup {Floor}]
    /\ boot \in {None, "asked", "timer", "done"}
    /\ pin \in [value : Module \cup {Floor, Garbage}, thr : Module \cup {Floor, Garbage}]
    /\ phy \subseteq Module
    /\ unseen \in BOOLEAN
    /\ events \in 0 .. MaxEvents /\ failures \in 0 .. MaxFailures

(***************************************************************************)
(* Whatever reads failed on the way, a module that is monitored is the one *)
(* identified, with its own capabilities: run_transceiver_query_state      *)
(* comes back to the communication check until everything was read.        *)
(***************************************************************************)
IdIsTheModules ==
    trans.handler = "monitor" /\ ~unseen /\ cage # None =>
        trans.id = cage /\ (trans.ddi <=> cage \in Monitored)

(***************************************************************************)
(* Once its removal was seen, nothing of a module is shown any more, be it *)
(* optical or electrical: the type is taken back before the absent state   *)
(* resets what belongs to it (callback_on_transceiver_plug_change).        *)
(***************************************************************************)
AbsentShowsNothing ==
    trans.absent => /\ trans.id = None /\ trans.temp = Floor
                    /\ pin.thr = Floor
                    /\ trans.alloc => pin.value = Floor

(***************************************************************************)
(* As long as no read failed, the thresholds in force for a module that is *)
(* monitored are its own and not those of the one before it nor what the   *)
(* new arrays came with (run_transceiver_query_state).                     *)
(***************************************************************************)
ThresholdsAreTheModules ==
    trans.handler = "monitor" /\ ~unseen /\ cage \in Monitored /\ failures = 0 =>
        pin.thr = cage

(***************************************************************************)
(* A module that stays in the cage is identified in the end and, if it     *)
(* measures itself, its own measurements are shown from then on: reads     *)
(* that fail, and what new arrays came with, only delay them               *)
(* (get_sfp_diagnostics, update_if_kurs_power).                            *)
(***************************************************************************)
MeasuredInTheEnd ==
    \A m \in Module :
        <>[](cage = m /\ ~unseen) =>
            <>[](trans.id = m /\ (m \in Monitored => pin.value = m /\ trans.temp = m))

(***************************************************************************)
(* get_sfp_info returns RET_SUCCESS when it has read the module: what it   *)
(* takes an optical module for, and so what callback_on_transceiver_state_ *)
(* change does with it, agrees with the module.  Only copper modules have  *)
(* their PHY set for Ethernet.                                             *)
(***************************************************************************)
OnlyCopperIsSet == phy \cap Optical = {}
=============================================================================
