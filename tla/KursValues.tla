----------------------------- MODULE KursValues -----------------------------
(***************************************************************************)
(* What the control unit is shown of a port: its alarms under each of      *)
(* three protocols with their colours, and its counters.  The main program *)
(* (task_55) reads the framers, one port after the other; the control unit *)
(* is answered in a timer interrupt, between any two steps of that, from   *)
(* one alarm word that the protocols share (a union).                      *)
(*                                                                         *)
(* Every port has a parameter of its own in each group of parameters, and  *)
(* the number of the parameter less the number of the group's first one is *)
(* taken as the index of the port.                                         *)
(*                                                                         *)
(* The bits 0..4 stand for the word; those above are written as these are. *)
(* Every module is plugged and every port is in service (see CardAlarms).  *)
(***************************************************************************)
EXTENDS Naturals, FiniteSets

CONSTANTS
    Ports,       \* the ports looked at, of 0 .. 17; 16 and 17 are the lines
    Rates,       \* the rates of a client looked at
    MaxChanges   \* bound on the changes of rates and signals

KursValuesAssumption ==
    /\ Ports \subseteq 0 .. 17 /\ Ports # {}
    /\ Rates \subseteq {"GE", "STM1", "STM16", "OTU1", "FC1"} /\ "STM1" \in Rates
    /\ MaxChanges \in Nat

VARIABLES
    select,    \* hardware: RATE_SELECT, the rate it is the code of
    faults,    \* hardware: what is wrong with the signal
    octets,    \* hardware: the received octets, counted by the Ethernet MAC
    rate,      \* monitor.rate
    prot,      \* monitor.prot
    word,      \* monitor.statistics: the alarms
    rx_octs,   \* monitor.statistics.eth_sts.rx_octs
    selected,  \* the port task_55 looks at, as selected_if
    pc,        \* where task_55 is
    updated,   \* history: the ports read since their rate and signal last changed
    changes

hardware == <<select, faults, octets>>
monitor == <<rate, prot, word, rx_octs>>
vars == <<hardware, monitor, selected, pc, updated, changes>>

IsLine(p) == p >= 16
Faults == {"los", "frame", "errors", "incoming"}
Bits == 0 .. 4
Protocols == {"OTU", "SDH", "ETHERNET"}

TypeOK ==
    /\ select \in [Ports -> Rates \cup {"OTU2"}]
    /\ rate \in [Ports -> Rates \cup {"OTU2"}]
    /\ prot \in [Ports -> Protocols \cup {"FIBER_CHANNEL"}]
    /\ faults \in [Ports -> SUBSET Faults]
    /\ {octets, rx_octs} \subseteq [Ports -> 0 .. MaxChanges]
    /\ word \in [Ports -> SUBSET Bits]
    /\ \A p \in Ports : prot[p] = "OTU" /\ IsLine(p) => 4 \notin word[p]
    /\ selected \in Ports
    /\ pc \in {"idle", "prot", "clear", "los", "bits"}
    /\ updated \subseteq Ports /\ changes \in 0 .. MaxChanges

Init ==
    /\ select = [p \in Ports |-> IF IsLine(p) THEN "OTU2" ELSE "STM1"]
    /\ rate = select
    /\ prot = [p \in Ports |-> IF IsLine(p) THEN "OTU" ELSE "SDH"]
    /\ word = [p \in Ports |-> {}]
    /\ faults = [p \in Ports |-> {}]
    /\ octets = [p \in Ports |-> 0] /\ rx_octs = octets
    /\ selected = CHOOSE p \in Ports : \A q \in Ports : p <= q
    /\ pc = "idle" /\ updated = {} /\ changes = 0

-----------------------------------------------------------------------------
(* The hardware and the settings *)

Changed(p) ==
    /\ pc = "idle"
    /\ changes < MaxChanges /\ changes' = changes + 1
    /\ updated' = updated \ {p}
    /\ UNCHANGED <<monitor, selected, pc>>

\* task_10 has written the rate of a client.
SetRate(p) ==
    /\ ~IsLine(p) /\ Changed(p)
    /\ \E r \in Rates \ {select[p]} : select' = [select EXCEPT ![p] = r]
    /\ UNCHANGED <<faults, octets>>

Signal(p) ==
    /\ Changed(p)
    /\ \E f \in Faults : faults' = [faults EXCEPT ![p] = IF f \in @ THEN @ \ {f} ELSE @ \cup {f}]
    /\ UNCHANGED <<select, octets>>

Receive(p) ==
    /\ select[p] = "GE" /\ Changed(p)
    /\ octets' = [octets EXCEPT ![p] = @ + 1]
    /\ UNCHANGED <<select, faults>>

-----------------------------------------------------------------------------
(* One turn of task_55 *)

Protocol(r) ==
    CASE r = "GE" -> "ETHERNET"
      [] r \in {"STM1", "STM16"} -> "SDH"
      [] r \in {"OTU1", "OTU2"} -> "OTU"
      [] r = "FC1" -> "FIBER_CHANNEL"

Main(from, to) == pc = from /\ pc' = to /\ UNCHANGED <<hardware, changes>>

Done ==
    /\ updated' = updated \cup {selected}
    /\ selected' = IF \E p \in Ports : p > selected
                   THEN CHOOSE p \in Ports : p > selected /\ \A q \in Ports : q > selected => p <= q
                   ELSE CHOOSE p \in Ports : \A q \in Ports : p <= q

\* read_if_port_rate: two stores; a line has one rate and is not read.
ReadRate ==
    /\ Main("idle", IF IsLine(selected) THEN "clear" ELSE "prot")
    /\ rate' = [rate EXCEPT ![selected] = select[selected]]
    /\ UNCHANGED <<prot, word, rx_octs, selected, updated>>

\* Fibre Channel has no statistics, update_port_fcx_stats does nothing.
ReadProt ==
    /\ Main("prot", IF Protocol(rate[selected]) = "FIBER_CHANNEL" THEN "idle" ELSE "clear")
    /\ prot' = [prot EXCEPT ![selected] = Protocol(rate[selected])]
    /\ IF Protocol(rate[selected]) = "FIBER_CHANNEL" THEN Done ELSE UNCHANGED <<selected, updated>>
    /\ UNCHANGED <<rate, word, rx_octs>>

\* The bits a protocol has.
Mask(g) == CASE g = "OTU" -> Bits [] g = "SDH" -> Bits [] g = "ETHERNET" -> 0 .. 2

\* CLEAR_ETH_ALARMS, CLEAR_STM_ALARMS and CLEAR_OTU_ALARMS keep these bits.
Clear ==
    /\ Main("clear", "los")
    /\ word' = [word EXCEPT ![selected] = @ \cap Mask(prot[selected])]
    /\ UNCHANGED <<rate, prot, rx_octs, selected, updated>>

SetBit(w, b, on) == IF on THEN w \cup {b} ELSE w \ {b}

Los ==
    /\ Main("los", "bits")
    /\ word' = [word EXCEPT ![selected] = SetBit(@, 0, "los" \in faults[selected])]
    /\ UNCHANGED <<rate, prot, rx_octs, selected, updated>>

\* The bit of a fault: LOF, LOF and LINK_DOWN; SM_BIP, RS_BIP and FCS; SM_IAE,
\* which is read for clients only.
Bit(g, f) ==
    CASE f = "los" -> 0
      [] f = "frame" -> 1
      [] f = "errors" -> IF g = "OTU" THEN 3 ELSE 2
      [] f = "incoming" -> 4

Seen(g, p) ==
    {Bit(g, f) : f \in faults[p] \ (IF g = "OTU" /\ ~IsLine(p) THEN {} ELSE {"incoming"})}

\* The bits that are written besides LOS: SDH no longer writes RS_TIM (3) and
\* MS_BIP (4), a line does not write SM_IAE.
Written(g, p) ==
    CASE g = "OTU" -> IF IsLine(p) THEN {1, 2, 3} ELSE {1, 2, 3, 4}
      [] OTHER -> {1, 2}

\* Bit by bit in the program; each is written once, the counters last.
WriteBits ==
    /\ Main("bits", "idle")
    /\ LET g == prot[selected]
       IN  word' = [word EXCEPT ![selected] =
                      (@ \ Written(g, selected)) \cup (Seen(g, selected) \ {0})]
    /\ rx_octs' = IF prot[selected] = "ETHERNET"
                  THEN [rx_octs EXCEPT ![selected] = octets[selected]] ELSE rx_octs
    /\ Done
    /\ UNCHANGED <<rate, prot>>

task_55 == ReadRate \/ ReadProt \/ Clear \/ Los \/ WriteBits

Next == (\E p \in Ports : SetRate(p) \/ Signal(p) \/ Receive(p)) \/ task_55

Spec == Init /\ [][Next]_vars

\* The scheduler runs the task every 55 ms.
FairSpec == Spec /\ WF_vars(task_55)

-----------------------------------------------------------------------------
(* What is shown *)

\* The parameter's number less that of the first of its group.  The OTU alarms
\* of the clients 5 to 16 and the octets of 8 to 16 were given other numbers
\* than the first ones; the lines follow client 4.
Index(group, p) ==
    CASE group = "OTU" -> IF p < 4 THEN p ELSE IF IsLine(p) THEN p - 12 ELSE p + 100
      [] group = "octets" -> IF p < 7 THEN p ELSE p + 98
      [] OTHER -> p

\* Groups have no parameter for a line, but for OTU.
Has(group, p) == group = "OTU" \/ ~IsLine(p)

\* KURS_userget_value tests the rate.
Suits(g, r) ==
    CASE g = "OTU" -> r = "OTU1"
      [] g = "SDH" -> r \in {"STM1", "STM16"}
      [] g = "ETHERNET" -> r = "GE"

\* The alarm words that may be shown; outside the array it may be any.
Values(g, p) ==
    LET k == Index(g, p)
    IN  IF k \notin Ports THEN SUBSET Bits
        ELSE {IF Suits(g, rate[k]) THEN word[k] \cap Mask(g) ELSE {}}

\* KURS_userget_color tests the protocol, and the whole word.
Colour(g, p) ==
    LET k == Index(g, p)
    IN  IF prot[k] # g THEN "NO" ELSE IF word[k] # {} THEN "Failure" ELSE "Normal"

\* The counter that is shown for the received octets.
Octets(p) == LET k == Index("octets", p)
             IN  IF k \notin Ports THEN 0 .. MaxChanges
                 ELSE {IF Suits("ETHERNET", rate[k]) THEN rx_octs[k] ELSE 0}

-----------------------------------------------------------------------------
\* The parameters numbered in a row.
InRow(group, p) == Has(group, p) /\ Index(group, p) = p

\* What port p should show under protocol g; the bits 3 and 4, which OTU1
\* leaves to SDH, apart (see RemovedAlarmsAreOff of CardAlarms).
Real(g, p) == IF Suits(g, select[p]) THEN Seen(g, p) ELSE {}
Read(g, w) == IF g = "SDH" THEN w \ {3, 4} ELSE w

\* Once a port was read after the last change, what is shown of it is what is
\* wrong with its signal: under its own protocol, and nothing under the other
\* two, although the word still holds what the last protocol left there.
ShowsTheSignal ==
    \A p \in updated, g \in Protocols :
        InRow(g, p) => \A w \in Values(g, p) : Read(g, w) = Real(g, p)

\* The colour and the text are computed apart, from the protocol and from the
\* rate, which are stored one after the other: of a port that was read they
\* agree, and one protocol is coloured.
ColourAgrees ==
    \A p \in updated, g \in Protocols :
        InRow(g, p) /\ ~(p = selected /\ pc # "idle") =>
            /\ Colour(g, p) # "NO" <=> Suits(g, rate[p])
            /\ Colour(g, p) = "Failure" <=> Values(g, p) # {{}}

\* A fault that lasts is shown at every moment once it is, also while the word
\* is written, as long as the rate is not changed.
NeverFlickers ==
    [][\A p \in Ports, g \in Protocols :
          InRow(g, p) /\ Suits(g, rate[p]) /\ Suits(g, rate'[p]) =>
              \A w \in Values(g, p), v \in Values(g, p)' :
                  Read(g, w) \cap Real(g, p) \cap Real(g, p)' \subseteq v]_vars

\* The counter and the alarms of a port that no longer changes are in the end
\* those of its signal, whatever the other ports do.
ShownInTheEnd ==
    \A p \in Ports : \A g \in Protocols :
        <>[](InRow(g, p) => \A w \in Values(g, p) : Read(g, w) = Real(g, p))
        /\ <>[](InRow("octets", p) /\ select[p] = "GE" => Octets(p) = {octets[p]})

-----------------------------------------------------------------------------
\* What the comments say of the parameters, and the program does not keep.

\* KURS_userget_value "gets a fresh copy of a parameter value" (main.c:2804):
\* the alarms of a line are shown as its OTU alarms.
LineAlarmsAreShown ==
    \A p \in updated : IsLine(p) /\ faults[p] \cap {"los", "frame"} # {} => {} \notin Values("OTU", p)

\* The same of the counter of a client: "Clients ETH_RX_OCTS"
\* (kurs_constants.h:979).
OctetsAreItsOwn ==
    \A p \in updated : ~IsLine(p) /\ select[p] = "GE" => Octets(p) = {octets[p]}

\* A fresh copy: no bit is shown that no fault can set under this protocol.
CopyIsFresh ==
    \A p \in Ports, g \in Protocols :
        InRow(g, p) => \A w \in Values(g, p) : Read(g, w) \subseteq {Bit(g, f) : f \in Faults}
=============================================================================
