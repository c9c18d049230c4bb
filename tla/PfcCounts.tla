----------------------------- MODULE PfcCounts -----------------------------
(***************************************************************************)
(* The performance counters of one port: errored seconds and the like,     *)
(* counted by the hardware, copied once a second by the alarm of the port  *)
(* (ipg_pfc.c), and shown to the control unit in the KURS alarm.  task_10  *)
(* sets them to zero on request and creates and destroys the structure     *)
(* that holds the copy when the rate changes; task_55 sets them to zero    *)
(* when the module is pulled.  Either alarm may come between two steps of  *)
(* the main program.                                                       *)
(*                                                                         *)
(* All the counters of a port are one set of errors here, each with the    *)
(* rate it happened at and whether the counters were asked to forget it.   *)
(* The list of alarms is PfcTimer's; what else a rate changes, Controls'.  *)
(***************************************************************************)
EXTENDS Naturals

CONSTANTS
    Kinds,        \* kinds of port looked at: "client", "line"
    Rates,        \* rates of the client looked at
    Period,       \* monitor_period_s
    MaxRequests   \* bound: requests of the control unit and modules pulled

PfcCountsAssumption ==
    /\ Kinds \subseteq {"client", "line"}
    /\ Rates \subseteq {"STM1", "OTU1", "GE", "FC1"} /\ "STM1" \in Rates
    /\ Period \in Nat \ {0, 1} /\ MaxRequests \in Nat

VARIABLES
    kind,     \* the kind of the port
    block,    \* hardware: the errors counted since they were last set to zero
    select,   \* hardware: the rate
    next,     \* rate.next
    change,   \* rate.change
    resets,   \* reset_counters.change
    rate,     \* monitor.rate
    prot,     \* monitor.prot
    capable,  \* PFC_CAPABLE
    pfc,      \* the pointer to the structure: "null" or "set"
    data,     \* the structure: alloc, base, running, elapsed, copy
    pc,       \* the main program
    pulled,   \* the reset in progress is task_55's
    raced,    \* history: what was asked for again while it was being done
    requests  \* counter for the bound

settings == <<next, change, resets>>
monitor == <<rate, prot, capable>>
vars == <<kind, block, select, settings, monitor, pfc, data, pc, pulled, raced, requests>>

PfcRates == {"STM1", "OTU1", "OTU2"}
Error == [rate : Rates \cup {"OTU2"}, old : BOOLEAN]

Aged(s) == {[e EXCEPT !.old = TRUE] : e \in s}

TypeOK ==
    /\ kind \in Kinds
    /\ block \subseteq Error
    /\ {select, next, rate} \subseteq Rates \cup {"OTU2"}
    /\ change \in BOOLEAN /\ resets \in BOOLEAN /\ capable \in BOOLEAN
    /\ prot \in {"SDH", "OTU", "ETHERNET", "FIBER_CHANNEL"}
    /\ pfc \in {"null", "set"}
    /\ data \in [alloc : BOOLEAN, base : {"own", "stray"}, running : BOOLEAN,
                 elapsed : 0 .. Period - 1, copy : SUBSET Error]
    /\ pc \in {"idle", "zero", "eop", "again", "lower", "read", "prot", "check", "free", "null", "done"}
    /\ pulled \in BOOLEAN /\ raced \subseteq {"reset", "rate"} /\ requests \in 0 .. MaxRequests

-----------------------------------------------------------------------------
\* The place in the table of two is the index less 2, which is 14 and 15 for
\* the lines: their registers are looked for at an address nobody wrote.
Base == IF kind = "line" THEN "stray" ELSE "own"

\* create_pfc_module; a structure that is there already keeps its copy.
Created ==
    IF pfc = "null"
    THEN [alloc |-> TRUE, base |-> Base, running |-> TRUE, elapsed |-> 0, copy |-> {}]
    ELSE [data EXCEPT !.running = TRUE, !.elapsed = 0]

Protocol(r) ==
    CASE r = "STM1" -> "SDH" [] r \in {"OTU1", "OTU2"} -> "OTU"
      [] r = "GE" -> "ETHERNET" [] r = "FC1" -> "FIBER_CHANNEL"

\* Every port has its counters when the boot is over, and they are to be reset.
Init ==
    /\ kind \in Kinds
    /\ select = IF kind = "line" THEN "OTU2" ELSE "STM1"
    /\ next = select /\ change = FALSE /\ resets = TRUE
    /\ rate = select /\ prot = Protocol(select) /\ capable = TRUE
    /\ pfc = "set"
    /\ data = [alloc |-> TRUE, base |-> Base, running |-> TRUE, elapsed |-> 0, copy |-> {}]
    /\ block = {}
    /\ pc = "idle" /\ pulled = FALSE
    /\ raced = {} /\ requests = 0

-----------------------------------------------------------------------------
\* The hardware.

Count ==
    /\ block' = block \cup {[rate |-> select, old |-> FALSE]}
    /\ UNCHANGED <<kind, select, settings, monitor, pfc, data, pc, pulled, raced, requests>>

\* The end-of-period bit is raised and lowered, and the hardware counts anew.
reset_pfc_hw_counters == block' = IF data.base = "own" THEN {} ELSE block

\* What there is at the place the structure says.
Registers == IF data.base = "own" THEN {block} ELSE SUBSET Error

-----------------------------------------------------------------------------
\* The alarms.

\* The second that ends the period copies nothing.
pfc_timer_isr ==
    /\ data.running
    /\ IF data.elapsed + 1 = Period
       THEN data' = [data EXCEPT !.elapsed = 0]
       ELSE \E r \in Registers : data' = [data EXCEPT !.elapsed = @ + 1, !.copy = r]
    /\ UNCHANGED <<kind, block, select, settings, monitor, pfc, pc, pulled, raced, requests>>

Asked == requests < MaxRequests /\ requests' = requests + 1

\* From now on what was counted so far is to be forgotten.
Forget == /\ block' = Aged(block)
          /\ data' = [data EXCEPT !.copy = Aged(@)]

ResetCounters ==
    /\ Asked /\ Forget
    /\ resets' = TRUE
    /\ raced' = IF pc = "lower" THEN raced \cup {"reset"} ELSE raced \ {"reset"}
    /\ UNCHANGED <<kind, select, next, change, monitor, pfc, pc, pulled>>

\* From setting the rate to lowering its flag.
RateSteps == {"read", "prot", "check", "free", "null", "done"}

SetDataType(r) ==
    /\ kind = "client" /\ Asked
    /\ next' = r /\ change' = TRUE
    /\ raced' = IF pc \in RateSteps THEN raced \cup {"rate"} ELSE raced \ {"rate"}
    /\ UNCHANGED <<kind, block, select, resets, monitor, pfc, data, pc, pulled>>

-----------------------------------------------------------------------------
\* The main program.

Step(from, to) == pc = from /\ pc' = to /\ UNCHANGED <<kind, raced>>
Main(from, to) == Step(from, to) /\ UNCHANGED <<pulled, requests>>

\* reset_port_counters, as task_10 begins it.
Reset ==
    /\ Main("idle", IF capable /\ pfc = "set" THEN "zero" ELSE "lower") /\ resets
    /\ UNCHANGED <<block, select, settings, monitor, pfc, data>>

\* reset_port_counters, as task_55 begins it when the module is pulled.
Pulled ==
    /\ Step("idle", "zero") /\ capable /\ pfc = "set"
    /\ Asked /\ Forget
    /\ pulled' = TRUE
    /\ UNCHANGED <<select, settings, monitor, pfc>>

Zero ==
    /\ Main("zero", "eop")
    /\ data' = [data EXCEPT !.copy = {}]
    /\ UNCHANGED <<block, select, settings, monitor, pfc>>

\* reset_pfc_statistics ends with it, and reset_port_counters does it again.
Eop(from, to) ==
    /\ Main(from, to)
    /\ reset_pfc_hw_counters
    /\ UNCHANGED <<select, settings, monitor, pfc, data>>

\* task_10 lowers the flag, task_55 leaves it alone.
Lower ==
    /\ Step("lower", "idle")
    /\ resets' = (resets /\ pulled) /\ pulled' = FALSE
    /\ UNCHANGED <<block, select, next, change, monitor, pfc, data, requests>>

RateSet ==
    /\ Main("idle", "read") /\ ~resets /\ change
    /\ select' = next
    /\ UNCHANGED <<block, settings, monitor, pfc, data>>

\* read_if_port_rate stores the rate and then the protocol.
RateRead ==
    /\ Main("read", "prot")
    /\ rate' = select
    /\ UNCHANGED <<block, select, settings, prot, capable, pfc, data>>

\* Mutant: the protocol is left to the next reading of the port.
ProtLater ==
    /\ Main("prot", "check")
    /\ UNCHANGED <<block, select, settings, monitor, pfc, data>>

ProtRead ==
    /\ Main("prot", "check")
    /\ prot' = Protocol(rate)
    /\ UNCHANGED <<block, select, settings, rate, capable, pfc, data>>

\* Capabilities follow a rate that is the one asked for; the structure follows
\* the capability.  To destroy it the alarm is stopped first.
RateCheck ==
    LET can == IF rate = next THEN rate \in PfcRates ELSE capable
    IN  /\ Main("check", IF ~can /\ pfc = "set" THEN "free" ELSE "done")
        /\ capable' = can
        /\ pfc' = IF can THEN "set" ELSE pfc
        /\ data' = IF can THEN Created ELSE [data EXCEPT !.running = FALSE]
        /\ IF can /\ pfc = "null" THEN block' = {} ELSE UNCHANGED block
        /\ UNCHANGED <<select, settings, rate, prot>>

Free ==
    /\ Main("free", "null")
    /\ data' = [data EXCEPT !.alloc = FALSE]
    /\ UNCHANGED <<block, select, settings, monitor, pfc>>

Null ==
    /\ Main("null", "done")
    /\ pfc' = "null"
    /\ UNCHANGED <<block, select, settings, monitor, data>>

RateDone ==
    /\ Main("done", "idle")
    /\ change' = FALSE /\ resets' = TRUE
    /\ UNCHANGED <<block, select, next, monitor, pfc, data>>

MainStep ==
    \/ Reset \/ Zero \/ Eop("eop", "again") \/ Eop("again", "lower") \/ Lower
    \/ RateSet \/ RateRead \/ ProtRead \/ RateCheck \/ Free \/ Null \/ RateDone

Next ==
    \/ MainStep \/ Pulled
    \/ Count \/ pfc_timer_isr
    \/ ResetCounters \/ \E r \in Rates : SetDataType(r)

Spec == Init /\ [][Next]_vars

\* The main program and the alarm go on.
FairSpec == Spec /\ WF_vars(MainStep) /\ WF_vars(pfc_timer_isr)

-----------------------------------------------------------------------------
\* What KURS_userget_value answers for the parameters of each group.
Shows(g) == IF g = "SDH" THEN prot = "SDH" ELSE rate = "OTU1"
Shown(g) == IF Shows(g) /\ pfc = "set" THEN data.copy ELSE {}
Groups == {"SDH", "OTU"}

\* The control unit is never answered from a structure that was freed: although
\* destroy_pfc_module frees it and then forgets it, the rate and the protocol
\* that keep the alarm from looking are stored before.
FreedIsNotRead == pfc = "set" /\ ~data.alloc => \A g \in Groups : ~Shows(g)

\* What was counted before the counters were last reset, or the module pulled, is
\* not shown for ever, although the alarm may copy it once more between the two
\* halves of the reset; except a request that comes in the moment the last one
\* is done with.
ResetForgets ==
    <>[]("reset" \notin raced => \A g \in Groups : \A e \in Shown(g) : ~e.old)

\* The counters shown are in the end of the rate the port has, not of those it
\* had before: the structure outlives a change from one rate with counters to
\* another.
RateCountsAnew == <>[](\A g \in Groups : \A e \in Shown(g) : e.rate = select)

\* What the hardware has counted is shown in the end, whatever was created,
\* destroyed and reset before; except after a rate that was asked for while the
\* last was being set (Controls).
CountsInTheEnd ==
    <>[](\A g \in Groups : Shows(g) /\ "rate" \notin raced => Shown(g) = block)

-----------------------------------------------------------------------------
\* "Lines are fixed rates OTU2 and support PFC" (main.c:644): the errors of a
\* line that were copied are shown.
LineCountsAreShown == kind = "line" => Shown("OTU") = data.copy

\* The same comment: what is copied for a line is what the line has counted.
LineReadsItsRegisters ==
    [][kind = "line" => data'.copy \in {data.copy, {}, block, block'}
                        \/ data'.copy = Aged(data.copy)]_vars
=============================================================================
