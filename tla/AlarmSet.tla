------------------------------ MODULE AlarmSet ------------------------------
(***************************************************************************)
(* What the alarms of the HAL promise: an alarm started with n ticks is    *)
(* called in the (n+1)st tick from then and, as long as its callback       *)
(* returns an interval, every so many ticks; a tick returns when every     *)
(* alarm due in it was called.                                             *)
(***************************************************************************)
EXTENDS Naturals

CONSTANTS
    Alarm,      \* the alarm structures of the program
    Interval    \* intervals in ticks

VARIABLES
    left,       \* for each registered alarm, the ticks until its call
    ticking     \* the interrupt of a tick is being served

vars == <<left, ticking>>

Init ==
    /\ \E S \in SUBSET Alarm : left \in [S -> {n + 1 : n \in Interval}]
    /\ ticking = FALSE

Start(a, n) ==
    /\ ~ticking
    /\ a \notin DOMAIN left
    /\ left' = [b \in DOMAIN left \cup {a} |-> IF b = a THEN n + 1 ELSE left[b]]
    /\ UNCHANGED ticking

Stop(a) ==
    /\ ~ticking
    /\ a \in DOMAIN left
    /\ left' = [b \in DOMAIN left \ {a} |-> left[b]]
    /\ UNCHANGED ticking

Tick ==
    /\ ~ticking
    /\ ticking' = TRUE
    /\ left' = [b \in DOMAIN left |-> left[b] - 1]

Call(a) ==
    /\ ticking
    /\ a \in DOMAIN left
    /\ left[a] = 0
    /\ \/ \E n \in Interval : left' = [left EXCEPT ![a] = n]
       \/ left' = [b \in DOMAIN left \ {a} |-> left[b]]
    /\ UNCHANGED ticking

Return ==
    /\ ticking
    /\ \A a \in DOMAIN left : left[a] > 0
    /\ ticking' = FALSE
    /\ UNCHANGED left

Next ==
    \/ Tick \/ Return
    \/ \E a \in Alarm : Stop(a) \/ Call(a) \/ \E n \in Interval : Start(a, n)

Spec == Init /\ [][Next]_vars /\ WF_vars(Return) /\ \A a \in Alarm : WF_vars(Call(a))
=============================================================================
