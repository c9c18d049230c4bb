---------------------------- MODULE Transceiver ----------------------------
(***************************************************************************)
(* The state machine of a pluggable transceiver (ipglb_transceiver.c),     *)
(* polled by task_55, one interface after the other; task_10 starts the    *)
(* timer of a module that boots, and the timer interrupt ends its wait.    *)
(*                                                                         *)
(* One interface is modelled.  Its polls come at least PollTicks apart, a  *)
(* round of the others lies between: 17 turns of 55 ticks against the 1001 *)
(* of the boot timer.                                                      *)
(***************************************************************************)
EXTENDS HalAlarms

CONSTANTS
    PollTicks,  \* ticks from a turn of task_10 to the next poll
    BootTicks,  \* alt_ticks_per_second()
    KursTicks,  \* kurs_ticks
    LostRange,  \* 2^8, the range of input_com_lost
    MaxEvents   \* bound: modules plugged, unplugged, failing

TransceiverAssumption ==
    /\ HalAssumption /\ Alarm = {1, 2}
    /\ PollTicks \in Nat /\ PollTicks <= BootTicks /\ BootTicks < 2 * PollTicks
    /\ {BootTicks, KursTicks} \subseteq 1 .. TickRange - 2
    /\ LostRange \in Nat /\ LostRange > 3
    /\ MaxEvents \in Nat

Kurs == 1
Timer == 2

VARIABLES
    module,     \* what is in the cage: plugged, answers, fault
    trans,      \* transceiver_t and its state machine
    pc,         \* main loop: "poll" or "boot" next
    since,      \* ticks since the last turn of task_10, up to PollTicks
    waited,     \* history: ticks since the last boot began
    events      \* counter for the bound

vars == <<hal, module, trans, pc, since, waited, events>>

Handlers == {"absent", "booting", "com_check", "query", "monitor", "fail"}

-----------------------------------------------------------------------------
\* One operator per function of the state machine, from transceiver to
\* transceiver; m is the module in the cage.

run_transceiver_absent_state(t, m) ==
    IF t.absent /\ ~t.previous THEN [t EXCEPT !.state = "ABSENT", !.fault = TRUE] ELSE t

run_transceiver_booting_state(t, m) ==
    CASE t.boot_start -> [t EXCEPT !.state = "REBOOTING", !.reboot = TRUE,
                                   !.boot_done = FALSE, !.boot_start = FALSE]
      [] ~t.boot_start /\ t.boot_done -> [t EXCEPT !.handler = "com_check", !.boot_done = FALSE]
      [] OTHER -> t

\* The branches every state past the boot begins with.
Leaves(t) == t.absent \/ t.boot_start
Left(t) == IF t.absent THEN [t EXCEPT !.state = "ABSENT", !.handler = "absent"]
           ELSE [t EXCEPT !.handler = "booting"]

run_transceiver_com_check_state(t, m) ==
    CASE Leaves(t) -> Left(t)
      [] ~Leaves(t) /\ m.answers -> [t EXCEPT !.handler = "query", !.com_lost = 0]
      [] OTHER -> [t EXCEPT !.com_lost = (@ + 1) % LostRange,
                            !.handler = IF t.com_lost + 1 = 3 THEN "fail" ELSE @]

run_transceiver_query_state(t, m) ==
    IF Leaves(t) THEN Left(t)
    ELSE [t EXCEPT !.handler = IF m.answers THEN "monitor" ELSE "com_check"]

run_transceiver_monitor_state(t, m) ==
    CASE Leaves(t) -> Left(t)
      [] ~Leaves(t) /\ m.fault -> [t EXCEPT !.fault = TRUE,
                                            !.state = IF t.fault THEN @ ELSE "NOT_READY"]
      [] OTHER -> [t EXCEPT !.fault = FALSE, !.state = "OK"]

\* Mutant: a module that has failed is not asked again.
FailStays(t, m) == [t EXCEPT !.state = "FAIL"]

run_transceiver_fail_state(t, m) == [t EXCEPT !.state = "FAIL", !.handler = "com_check"]

\* UPDATE_IO(absent) and the event a change of it is.
UpdateAbsent(t, m) ==
    LET u == [t EXCEPT !.previous = t.absent, !.absent = ~m.plugged]
    IN  CASE u.absent /\ ~u.previous -> [u EXCEPT !.handler = "absent"]
          [] ~u.absent /\ u.previous -> [u EXCEPT !.handler = "booting", !.boot_start = TRUE]
          [] OTHER -> u

read_transceiver_dynamic_data(t, m) ==
    LET u == UpdateAbsent(t, m)
    IN  CASE u.handler = "absent" -> run_transceiver_absent_state(u, m)
          [] u.handler = "booting" -> run_transceiver_booting_state(u, m)
          [] u.handler = "com_check" -> run_transceiver_com_check_state(u, m)
          [] u.handler = "query" -> run_transceiver_query_state(u, m)
          [] u.handler = "monitor" -> run_transceiver_monitor_state(u, m)
          [] u.handler = "fail" -> run_transceiver_fail_state(u, m)

-----------------------------------------------------------------------------
Init ==
    /\ nticks \in 0 .. TickRange - 1
    /\ list = alt_llist_insert([next |-> [e \in Node |-> e], previous |-> [e \in Node |-> e]], Kurs)
    /\ time = [a \in Alarm |-> IF a = Kurs THEN (nticks + KursTicks + 1) % TickRange ELSE 0]
    /\ rollover = [a \in Alarm |-> a = Kurs /\ nticks + KursTicks + 1 >= TickRange]
    /\ ticking = FALSE
    /\ cursor = Head
    /\ module \in [plugged : BOOLEAN, answers : BOOLEAN, fault : BOOLEAN]
    /\ trans = [absent |-> TRUE, previous |-> FALSE, fault |-> TRUE, state |-> "ABSENT",
                handler |-> "absent", boot_start |-> FALSE, boot_done |-> FALSE,
                com_lost |-> 0, reboot |-> FALSE]
    /\ pc = "poll"
    /\ since = 0
    /\ waited = 0
    /\ events = 0

\* task_55 comes to this interface.
Poll ==
    /\ pc = "poll" /\ ~ticking
    /\ since = PollTicks
    /\ trans' = read_transceiver_dynamic_data(trans, module)
    /\ waited' = IF trans'.reboot THEN 0 ELSE waited
    /\ pc' = "boot"
    /\ UNCHANGED <<hal, module, since, events>>

\* task_10 comes to it, and boots the module if that was asked for.
Boot ==
    /\ pc = "boot" /\ ~ticking
    /\ IF trans.reboot
       THEN /\ alt_alarm_start(Timer, BootTicks)
            /\ trans' = [trans EXCEPT !.reboot = FALSE]
       ELSE UNCHANGED <<hal, trans>>
    /\ pc' = "poll"
    /\ since' = 0
    /\ UNCHANGED <<module, waited, events>>

\* Modules are plugged and unplugged, fall silent and recover.
ModuleChanges ==
    /\ events < MaxEvents
    /\ \/ module' \in [plugged : {~module.plugged}, answers : BOOLEAN, fault : BOOLEAN]
       \/ module.plugged /\ \/ module' = [module EXCEPT !.answers = ~@]
                            \/ module' = [module EXCEPT !.fault = ~@]
    /\ events' = events + 1
    /\ UNCHANGED <<hal, trans, pc, since, waited>>

TimerExpires ==
    /\ cursor = Timer
    /\ VisitExpired(0)
    /\ trans' = [trans EXCEPT !.boot_done = TRUE]
    /\ UNCHANGED <<module, pc, since, waited, events>>

KursExpires ==
    /\ cursor = Kurs
    /\ VisitExpired(KursTicks)
    /\ UNCHANGED <<module, trans, pc, since, waited, events>>

Tick ==
    /\ TickBegins
    /\ since' = IF since = PollTicks THEN since ELSE since + 1
    /\ waited' = IF waited > BootTicks THEN waited ELSE waited + 1
    /\ UNCHANGED <<module, trans, pc, events>>

Idle == VisitIdle /\ UNCHANGED <<module, trans, pc, since, waited, events>>
Return == TickReturns /\ UNCHANGED <<module, trans, pc, since, waited, events>>

Interrupt == TimerExpires \/ KursExpires \/ Idle \/ Return
Next == Poll \/ Boot \/ ModuleChanges \/ Interrupt \/ Tick

\* The timer runs, its interrupt is served, and the main loop comes round.
Spec ==
    /\ Init /\ [][Next]_vars
    /\ WF_vars(Interrupt) /\ WF_vars(Tick)
    /\ SF_vars(Poll) /\ SF_vars(Boot)

-----------------------------------------------------------------------------
TypeOK ==
    /\ HalTypeOK
    /\ module \in [plugged : BOOLEAN, answers : BOOLEAN, fault : BOOLEAN]
    /\ trans \in [absent : BOOLEAN, previous : BOOLEAN, fault : BOOLEAN,
                  state : {"ABSENT", "OK", "NOT_READY", "FAIL", "REBOOTING"},
                  handler : Handlers, boot_start : BOOLEAN, boot_done : BOOLEAN,
                  com_lost : 0 .. LostRange - 1, reboot : BOOLEAN]
    /\ pc \in {"poll", "boot"}
    /\ since \in 0 .. PollTicks
    /\ waited \in 0 .. BootTicks + 1
    /\ events \in 0 .. MaxEvents

(***************************************************************************)
(* "A list is considered to be constructed from a chain of objects of type *)
(* alt_llist, with one object being defined to be the head element": the   *)
(* alarm list is such a chain although boot_transceiver starts the timer   *)
(* of the module without looking whether it runs.                          *)
(***************************************************************************)
ListIsChain == Chain

(***************************************************************************)
(* A module is addressed only when it had its wake up time of one second   *)
(* since it was plugged: no end of an earlier boot is taken                *)
(* for the end of this one (boot_transceiver, run_transceiver_booting_state). *)
(***************************************************************************)
WakeUpTimeKept ==
    trans.handler \in {"com_check", "query", "monitor", "fail"} => waited > BootTicks

(***************************************************************************)
(* What the state reported to the control unit says of the module at the   *)
(* last poll: OK, then it was plugged and without fault; unplugged, then   *)
(* ABSENT (TRANSCEIVER_STATE in ipglb_transceiver.h).                      *)
(***************************************************************************)
StateIsHonest ==
    /\ trans.state = "OK" => ~trans.absent /\ ~trans.fault
    /\ trans.absent => trans.state = "ABSENT"

(***************************************************************************)
(* A module that stays plugged and sound is reported OK in the end, after  *)
(* whatever was plugged and unplugged before.                              *)
(***************************************************************************)
Sound == module.plugged /\ module.answers /\ ~module.fault
SoundModuleComesUp == <>[]Sound => <>[](trans.state = "OK")

(***************************************************************************)
(* A module that does not come to be monitored because it does not answer  *)
(* is reported as failed in the end, although the count of lost answers    *)
(* that decides it is not reset when another module is plugged.            *)
(***************************************************************************)
Silent == module.plugged /\ ~module.answers
DeadModuleFails == <>[]Silent => <>[](trans.state = "FAIL" \/ trans.handler = "monitor")

(***************************************************************************)
(* "FAIL: transceiver plugged but not operational, also cannot communicate *)
(* with it": a module that falls silent is reported so in the end.         *)
(***************************************************************************)
SilentModuleFails == <>[]Silent => <>(trans.state = "FAIL")
=============================================================================
