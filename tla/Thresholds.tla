---------------------------- MODULE Thresholds ----------------------------
(***************************************************************************)
(* The thresholds of the optical power of one interface.  They are those   *)
(* of the plugged module, which task_55 copies one after the other in      *)
(* update_if_kurs_power, until the control unit sets one of its own: the   *)
(* KURS alarm, a timer interrupt, then writes it and takes the interface   *)
(* to THRESHOLD_USER.  The alarm may come between any two copies.  The     *)
(* control unit may give the thresholds back to the module, and may ask    *)
(* for the defaults, which the main loop restores.  When the module is     *)
(* pulled the defaults are written too, whoever set the thresholds, and    *)
(* the interface stays in the mode it was in.                              *)
(***************************************************************************)
EXTENDS Naturals

CONSTANTS
    Count,        \* the thresholds, numbered in the order of their copy
    Values,       \* the values a threshold may have
    Default,      \* the value SetDefault gives
    MaxRequests   \* bound: requests of the control unit

Names == 1 .. Count
None == "none"

ThresholdsAssumption ==
    /\ Count \in Nat \ {0}
    /\ Default \in Values /\ None \notin Values /\ MaxRequests \in Nat

VARIABLES
    mode,      \* threshold_mode
    thr,       \* the thresholds in force
    module,    \* those the plugged module states; what malloc left when they cannot be read
    absent,    \* no module is plugged
    restore,   \* the flag ID_3_RESET raises
    copying,   \* what the main program is copying: "module", "default", "pulled" or None
    next,      \* the number of the next threshold to be copied
    wanted,    \* history: the value last acknowledged to the control unit
    raced,     \* history: those set before a pull, or after the copy that overwrites them began
    requests   \* counter for the bound

history == <<wanted, raced, requests>>
vars == <<mode, thr, module, absent, restore, copying, next, history>>

TypeOK ==
    /\ mode \in {"TRANSCEIVER", "USER"}
    /\ thr \in [Names -> Values] /\ module \in [Names -> Values]
    /\ absent \in BOOLEAN /\ restore \in BOOLEAN
    /\ copying \in {None, "module", "default", "pulled"}
    /\ next \in Names
    /\ wanted \in [Names -> Values \cup {None}]
    /\ raced \subseteq Names
    /\ requests \in 0 .. MaxRequests

Nobody == [t \in Names |-> None]

Init ==
    /\ mode = "TRANSCEIVER"
    /\ thr = [t \in Names |-> Default]
    /\ module \in [Names -> Values]
    /\ absent \in BOOLEAN
    /\ restore = FALSE /\ copying = None /\ next = 1
    /\ wanted = Nobody /\ raced = {} /\ requests = 0

-----------------------------------------------------------------------------
\* The alarm: requests of the control unit.

\* The thresholds the copy under way still writes.
Pending == IF copying = None THEN {} ELSE next .. Count

Request == requests < MaxRequests /\ requests' = requests + 1

SetThreshold(t, v) ==
    /\ Request
    /\ mode' = "USER"
    /\ thr' = [thr EXCEPT ![t] = v]
    /\ wanted' = [wanted EXCEPT ![t] = v]
    /\ raced' = IF t \in Pending THEN raced \cup {t} ELSE raced \ {t}
    /\ UNCHANGED <<module, absent, restore, copying, next>>

\* ID_3_..._SFP_THRS_RESET; refused without a module.
ResetThresholds ==
    /\ Request
    /\ ~absent
    /\ mode' = "TRANSCEIVER"
    /\ wanted' = Nobody /\ raced' = {}
    /\ UNCHANGED <<thr, module, absent, restore, copying, next>>

AskRestore ==
    /\ Request
    /\ restore' = TRUE
    /\ UNCHANGED <<mode, thr, module, absent, copying, next, wanted, raced>>

-----------------------------------------------------------------------------
\* The main program.

\* Modules come and go for the program in update_if_dynamic_data, before the copy.
Plug ==
    /\ copying = None
    /\ absent
    /\ absent' = FALSE
    /\ module' \in [Names -> Values]
    /\ UNCHANGED <<mode, thr, restore, copying, next, history>>

\* reset_if_kurs_power_threshold begins to write the defaults, in THRESHOLD_USER too.
Pull ==
    /\ copying = None
    /\ ~absent
    /\ absent' = TRUE
    /\ copying' = "pulled"
    /\ raced' = {t \in Names : wanted[t] # None}
    /\ UNCHANGED <<mode, thr, module, restore, next, wanted, requests>>

\* Mutant: they are taken only when the first one differs.
TakenOnChange == mode = "TRANSCEIVER" /\ thr[1] # module[1]

FollowsModule == mode = "TRANSCEIVER"

update_if_kurs_power ==
    /\ copying = None
    /\ FollowsModule /\ ~absent
    /\ copying' = "module"
    /\ UNCHANGED <<mode, thr, module, absent, restore, next, history>>

set_default ==
    /\ copying = None
    /\ restore
    /\ mode' = "TRANSCEIVER"
    /\ copying' = "default"
    /\ wanted' = Nobody /\ raced' = {}
    /\ UNCHANGED <<thr, module, absent, restore, next, requests>>

\* Mutant: the copy does not stop at the last threshold.
OneMore(i) == i + 1

After(i) == IF i = Count THEN 1 ELSE i + 1

Copy ==
    /\ copying # None
    /\ thr' = [thr EXCEPT ![next] = IF copying = "module" THEN module[next] ELSE Default]
    /\ next' = After(next)
    /\ IF next = Count
       THEN copying' = None /\ restore' = (restore /\ copying # "default")
       ELSE UNCHANGED <<copying, restore>>
    /\ UNCHANGED <<mode, module, absent, history>>

Main == update_if_kurs_power \/ set_default \/ Copy

Next ==
    \/ \E t \in Names, v \in Values : SetThreshold(t, v)
    \/ ResetThresholds
    \/ AskRestore
    \/ Plug
    \/ Pull
    \/ Main

Spec == Init /\ [][Next]_vars /\ WF_vars(Main)

-----------------------------------------------------------------------------
(* A value the control unit was told is set stays in force until the        *)
(* control unit sets another or gives the thresholds back, or the module is *)
(* pulled, unless it was set while task_55, SetDefault or the pull had      *)
(* still to write that threshold (main.c:3887, 6620, ipglb_adapter.c:2595). *)
UserValuesKept ==
    \A t \in Names \ raced :
        wanted[t] # None => mode = "USER" /\ thr[t] = wanted[t]

(* The same of every value the control unit was told is set, whatever is    *)
(* copied or pulled: main.c:3509 says of KURS_userset_value that it         *)
(* "changes a parameter to a new value based on user selection".            *)
SelectionKept == \A t \in Names : wanted[t] # None => thr[t] = wanted[t]

(* Given back to a module that stays plugged, the thresholds become its     *)
(* own, all of them, even if the control unit came between two copies       *)
(* (main.c:3852, 6620).                                                     *)
ModuleTakesOver ==
    (mode = "TRANSCEIVER" /\ ~absent) ~> (thr = module \/ mode = "USER" \/ absent)
=============================================================================
