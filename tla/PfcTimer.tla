------------------------------ MODULE PfcTimer ------------------------------
(***************************************************************************)
(* The performance counters of the ports (ipg_pfc.c, create_pfc_module and *)
(* destroy_pfc_module in main.c).  Each port has a structure that comes    *)
(* and goes with the rate of the port and holds an alarm; the alarm's      *)
(* callback, in the timer interrupt, counts the seconds of the monitoring  *)
(* period.  The main loop may be interrupted between any two steps.        *)
(*                                                                         *)
(* Alarm 1 is the one of the KURS handler, which always runs; alarm i + 2  *)
(* is the one of port i.                                                   *)
(***************************************************************************)
EXTENDS HalAlarms

CONSTANTS
    Port,           \* indices of the ports, from 0
    Second,         \* alt_ticks_per_second()
    KursTicks,      \* kurs_ticks
    DefPeriod,      \* DEF_PFC_PERIOD
    SecondsRange    \* 2^32, the range of elapsed_time_s

PfcAssumption ==
    /\ HalAssumption /\ Port \subseteq Nat
    /\ Alarm = {1} \cup {i + 2 : i \in Port}
    /\ {Second, KursTicks} \subseteq 1 .. TickRange - 2
    /\ DefPeriod \in 1 .. SecondsRange - 1

Kurs == 1
Timer(i) == i + 2
PortOf(a) == a - 2

VARIABLES
    pfc,        \* the structure of each port
    pc,         \* main loop: "idle", or what is left of the call in progress
    port        \* the port it is about

mainloop == <<pc, port>>
vars == <<hal, pfc, mainloop>>

-----------------------------------------------------------------------------
Init ==
    /\ nticks \in 0 .. TickRange - 1
    /\ list = alt_llist_insert([next |-> [e \in Node |-> e], previous |-> [e \in Node |-> e]], Kurs)
    /\ time = [a \in Alarm |-> IF a = Kurs THEN (nticks + KursTicks + 1) % TickRange ELSE 0]
    /\ rollover = [a \in Alarm |-> a = Kurs /\ nticks + KursTicks + 1 >= TickRange]
    /\ ticking = FALSE
    /\ cursor = Head
    /\ pfc = [i \in Port |-> [alloc |-> FALSE, running |-> FALSE, elapsed |-> 0, period |-> 0]]
    /\ pc = "idle"
    /\ port = 0

init_pfc_data(p) == [alloc |-> TRUE, running |-> FALSE, elapsed |-> 0, period |-> DefPeriod]

Call(next, i) ==
    /\ pc = "idle" /\ ~ticking
    /\ pc' = next
    /\ port' = i

create_pfc_module(i) ==
    /\ Call("start", i)
    /\ pfc' = [pfc EXCEPT ![i] = IF @.alloc THEN @ ELSE init_pfc_data(@)]
    /\ UNCHANGED hal

\* stop_pfc_monitoring, at the beginning of each of its callers.
Stop(i, next) ==
    /\ IF pfc[i].running
       THEN /\ alt_alarm_stop(Timer(i))
            /\ pfc' = [pfc EXCEPT ![i].running = FALSE]
       ELSE UNCHANGED <<hal, pfc>>
    /\ pc' = next

destroy_pfc_module(i) ==
    /\ pfc[i].alloc
    /\ pc = "idle" /\ ~ticking
    /\ Stop(i, "free")
    /\ port' = i

\* deinit_pfc frees the structure and the alarm in it.
Free ==
    /\ pc = "free" /\ ~ticking
    /\ pfc' = [pfc EXCEPT ![port].alloc = FALSE, ![port].running = FALSE]
    /\ pc' = "idle"
    /\ UNCHANGED <<hal, port>>

\* start_pfc_monitoring
StopFirst ==
    /\ pc = "start" /\ ~ticking
    /\ Stop(port, "alarm")
    /\ UNCHANGED port

StartAlarm ==
    /\ pc = "alarm" /\ ~ticking
    /\ alt_alarm_start(Timer(port), Second)
    /\ pc' = "running"
    /\ UNCHANGED <<pfc, port>>

SetRunning ==
    /\ pc = "running" /\ ~ticking
    /\ pfc' = [pfc EXCEPT ![port].running = TRUE, ![port].elapsed = 0]
    /\ pc' = "idle"
    /\ UNCHANGED <<hal, port>>

-----------------------------------------------------------------------------

\* A second has passed in the callback of the alarm of port i.
pfc_timer_isr(p) ==
    LET s == (p.elapsed + 1) % SecondsRange
    IN  [p EXCEPT !.elapsed = IF s = p.period THEN 0 ELSE s]

PfcExpires ==
    /\ cursor \in Alarm \ {Kurs}
    /\ VisitExpired(Second)
    /\ pfc' = [pfc EXCEPT ![PortOf(cursor)] = pfc_timer_isr(@)]
    /\ UNCHANGED mainloop

KursExpires ==
    /\ cursor = Kurs
    /\ VisitExpired(KursTicks)
    /\ UNCHANGED <<pfc, mainloop>>

Tick ==
    /\ TickBegins
    /\ UNCHANGED <<pfc, mainloop>>

Idle == VisitIdle /\ UNCHANGED <<pfc, mainloop>>
Return == TickReturns /\ UNCHANGED <<pfc, mainloop>>

MainStep == Free \/ StopFirst \/ StartAlarm \/ SetRunning
Interrupt == PfcExpires \/ KursExpires \/ Idle \/ Return

Next ==
    \/ MainStep \/ Interrupt \/ Tick
    \/ \E i \in Port : create_pfc_module(i) \/ destroy_pfc_module(i)

\* The timer runs, its interrupt is served, and the main loop goes on.
Spec == Init /\ [][Next]_vars /\ WF_vars(Interrupt) /\ WF_vars(Tick) /\ SF_vars(MainStep)

-----------------------------------------------------------------------------
TypeOK ==
    /\ HalTypeOK
    /\ pfc \in [Port -> [alloc : BOOLEAN, running : BOOLEAN,
                         elapsed : 0 .. SecondsRange - 1, period : 0 .. SecondsRange - 1]]
    /\ pc \in {"idle", "free", "start", "alarm", "running"}
    /\ port \in Port

(***************************************************************************)
(* The list of alarms is whole at every moment the interrupt may walk it,  *)
(* and it holds the KURS alarm and exactly the timers that run: whatever   *)
(* order ports are created, destroyed, restarted and ticked in, no timer   *)
(* is entered twice (alt_alarm_start does not look) and none is left in    *)
(* the list when its structure is freed (deinit_pfc does not look).        *)
(***************************************************************************)
ListHoldsRunningTimers ==
    /\ Chain
    /\ Registered = {Kurs} \cup {Timer(i) : i \in {j \in Port :
                       pfc[j].running \/ (pc = "running" /\ port = j)}}
    /\ \A a \in Registered \ {Kurs} : pfc[PortOf(a)].alloc

(***************************************************************************)
(* An alarm is called in the tick it was set for, across the rollover of   *)
(* the tick counter, and only then: the HAL list implements AlarmSet.      *)
(***************************************************************************)
AlarmsOnTime == INSTANCE AlarmSet WITH
    left <- TicksLeft, ticking <- ticking, Interval <- {Second, KursTicks}

CalledOnTime == AlarmsOnTime!Spec

(***************************************************************************)
(* The counters of a running port go through the end of their period       *)
(* again and again (pfc_timer_isr).                                        *)
(***************************************************************************)
PeriodEnds == \A i \in Port : []<>(pfc[i].running => pfc[i].elapsed = 0)
=============================================================================
