----------------------------- MODULE HalAlarms -----------------------------
(***************************************************************************)
(* The alarms of the hardware abstraction layer (alt_llist.h,              *)
(* alt_alarm_start.c and alt_tick.c of the bsp): a doubly linked list of   *)
(* alarm structures that the timer interrupt walks in every tick.          *)
(*                                                                         *)
(* The operators are the functions; a module that extends this one says    *)
(* which alarms there are, who starts and stops them, and what their       *)
(* callbacks do.  The interrupt takes a step per alarm it visits.          *)
(***************************************************************************)
EXTENDS Naturals, FiniteSets

CONSTANTS
    Alarm,      \* alarm structures, numbered from 1
    TickRange   \* 2^32, the range of the tick counter

Head == 0       \* alt_alarm_list
Node == Alarm \cup {Head}

HalAssumption ==
    /\ Alarm \subseteq Nat \ {Head} /\ IsFiniteSet(Alarm)
    /\ TickRange \in Nat \ {0, 1}

VARIABLES
    list,       \* next and previous of each element
    time,       \* alarm->time
    rollover,   \* alarm->rollover
    nticks,     \* _alt_nticks
    ticking,    \* alt_tick runs
    cursor      \* its local variable "alarm"

hal == <<list, time, rollover, nticks, ticking, cursor>>

-----------------------------------------------------------------------------
\* alt_llist_insert and alt_llist_remove, assignment by assignment: what they
\* do to an element that is in the list already follows from their order.
alt_llist_insert(l, e) ==
    LET entry == [next |-> [l.next EXCEPT ![e] = l.next[Head]],
                  previous |-> [l.previous EXCEPT ![e] = Head]]
    IN  [next |-> [entry.next EXCEPT ![Head] = e],
         previous |-> [entry.previous EXCEPT ![entry.next[Head]] = e]]

alt_llist_remove(l, e) ==
    LET before == [l.previous EXCEPT ![l.next[e]] = l.previous[e]]
    IN  [next |-> [l.next EXCEPT ![before[e]] = l.next[e], ![e] = e],
         previous |-> [before EXCEPT ![e] = e]]

-----------------------------------------------------------------------------
\* Mutant: the flag is set for a time that is not before now.
StartRollsLate(a, n) ==
    LET t == (n + nticks + 1) % TickRange
    IN  /\ list' = alt_llist_insert(list, a)
        /\ time' = [time EXCEPT ![a] = t]
        /\ rollover' = [rollover EXCEPT ![a] = n + nticks > TickRange]
        /\ UNCHANGED <<nticks, ticking, cursor>>

\* Mutant: the time is not cut to the width of the counter.
StartUnwrapped(a, n) ==
    /\ list' = alt_llist_insert(list, a)
    /\ time' = [time EXCEPT ![a] = n + nticks + 1]
    /\ rollover' = [rollover EXCEPT ![a] = FALSE]
    /\ UNCHANGED <<nticks, ticking, cursor>>

alt_alarm_start(a, n) ==
    LET t == (n + nticks + 1) % TickRange
    IN  /\ list' = alt_llist_insert(list, a)
        /\ time' = [time EXCEPT ![a] = t]
        /\ rollover' = [rollover EXCEPT ![a] = t < nticks]
        /\ UNCHANGED <<nticks, ticking, cursor>>

alt_alarm_stop(a) ==
    /\ list' = alt_llist_remove(list, a)
    /\ UNCHANGED <<time, rollover, nticks, ticking, cursor>>

\* alt_tick: the counter is stepped and the walk begins.
TickBegins ==
    /\ ~ticking
    /\ ticking' = TRUE
    /\ nticks' = (nticks + 1) % TickRange
    /\ cursor' = list.next[Head]
    /\ UNCHANGED <<list, time, rollover>>

\* The flag after the test at the head of the loop: cleared as the counter
\* rolls over.
RollsOver(a) == rollover[a] /\ nticks # 0

Expired(a) == time[a] <= nticks /\ ~RollsOver(a)

VisitIdle ==
    /\ ticking
    /\ cursor # Head
    /\ ~Expired(cursor)
    /\ rollover' = [rollover EXCEPT ![cursor] = RollsOver(cursor)]
    /\ cursor' = list.next[cursor]
    /\ UNCHANGED <<list, time, nticks, ticking>>

\* The callback of an expired alarm is called; it returns the next interval,
\* or 0 to be removed from the list.
VisitExpired(interval) ==
    /\ ticking
    /\ cursor # Head
    /\ Expired(cursor)
    /\ IF interval = 0
       THEN /\ list' = alt_llist_remove(list, cursor)
            /\ rollover' = [rollover EXCEPT ![cursor] = FALSE]
            /\ UNCHANGED time
       ELSE LET t == (time[cursor] + interval) % TickRange
            IN  /\ time' = [time EXCEPT ![cursor] = t]
                /\ rollover' = [rollover EXCEPT ![cursor] = t < nticks]
                /\ UNCHANGED list
    /\ cursor' = list.next[cursor]
    /\ UNCHANGED <<nticks, ticking>>

TickReturns ==
    /\ ticking
    /\ cursor = Head
    /\ ticking' = FALSE
    /\ UNCHANGED <<list, time, rollover, nticks, cursor>>

-----------------------------------------------------------------------------
\* The elements a walk from the head passes, as far as it can go.
Walk ==
    LET N == Cardinality(Node)
        at[i \in 0 .. N] == IF i = 0 THEN list.next[Head]
                            ELSE IF at[i - 1] = Head THEN Head ELSE list.next[at[i - 1]]
    IN  at

Registered == {Walk[i] : i \in DOMAIN Walk} \ {Head}

\* A chain in both directions that leads from the head back to it.
Chain ==
    /\ Walk[Cardinality(Node)] = Head
    /\ \A e \in Registered \cup {Head} : list.previous[list.next[e]] = e

HalTypeOK ==
    /\ list \in [next : [Node -> Node], previous : [Node -> Node]]
    /\ time \in [Alarm -> 0 .. TickRange - 1]
    /\ rollover \in [Alarm -> BOOLEAN]
    /\ nticks \in 0 .. TickRange - 1
    /\ ticking \in BOOLEAN
    /\ cursor \in Node

\* What the list promises, see AlarmSet.
TicksLeft ==
    [a \in Registered |-> (time[a] + TickRange - nticks) % TickRange]
=============================================================================
