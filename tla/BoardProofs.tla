---------------------------- MODULE BoardProofs -----------------------------
(***************************************************************************)
(* Proofs about the board, whatever its size: the alarms, the registers of *)
(* the interfaces, the I2C driver, its multiplexer, the clock generators   *)
(* and the clocks of the clients.                                          *)
(***************************************************************************)
EXTENDS MCBoard, SequenceTheorems, TLAPS

-----------------------------------------------------------------------------
(* Functions *)

LEMMA OneChanged ==
    ASSUME NEW S, NEW T, NEW f \in [S -> T], NEW x \in S, NEW v \in T
    PROVE  /\ [f EXCEPT ![x] = v] \in [S -> T]
           /\ [f EXCEPT ![x] = v][x] = v
           /\ \A y \in S : y # x => [f EXCEPT ![x] = v][y] = f[y]
OBVIOUS

LEMMA Remainder ==
    ASSUME NEW n \in Nat \ {0}, NEW a \in Nat
    PROVE  a % n \in 0 .. n - 1 /\ (a < n => a % n = a) /\ (a = n => a % n = 0)
  <1> DEFINE q == a \div n
             r == a % n
  <1>1. q \in Nat /\ r \in 0 .. n - 1 /\ a = n * q + r
    OBVIOUS
  <1>2. ASSUME q # 0 PROVE n <= a /\ (q # 1 => 2 * n <= a)
    <2>1. PICK b \in Nat : q = 1 + b
      BY <1>1, <1>2, q - 1 \in Nat, q = 1 + (q - 1)
    <2>2. n * q = n + n * b /\ n * b \in Nat
      BY <2>1
    <2>3. ASSUME b # 0 PROVE n <= n * b
      <3>1. PICK c \in Nat : b = 1 + c
        BY <2>1, <2>3, b - 1 \in Nat, b = 1 + (b - 1)
      <3> QED BY <3>1
    <2> QED BY <1>1, <2>1, <2>2, <2>3
  <1>3. q = 0 => a = r
    BY <1>1
  <1>4. q = 1 => a = n + r
    BY <1>1
  <1> QED BY <1>1, <1>2, <1>3, <1>4

-----------------------------------------------------------------------------
(* The alarms of the card *)

\* How many interfaces were read since i was, i included.
Since(i) == IF i < selected_if THEN selected_if - i ELSE selected_if + INTERFACE_COUNT - i

\* Nothing has changed since i was read.
Fresh(i) == Since(i) <= quiet

\* What was read of a module is what it shows; only SDH leaves a bit alone.
Shows(i) ==
    state[i] = "monitor" =>
        /\ present[i] = TRUE /\ read[i] = level[i]
        /\ odux_alarms[i] <=> odu[i]
        /\ prot[i] # "FC" =>
              /\ live[i] \cap Alarms!DefectsOf(i) \subseteq alarms[i]
              /\ alarms[i] \subseteq (live[i] \cap Alarms!DefectsOf(i))
                                        \cup (IF prot[i] = "SDH" THEN {"bit 4"} ELSE {})

\* A line never has the bit that it does not read, a client no ODU.
LinesApart ==
    \A i \in Alarms!Interfaces :
        /\ odu[i] => Alarms!IsLine(i)
        /\ Alarms!IsLine(i) => "bit 4" \notin alarms[i]

ReadSince == \A i \in Alarms!Interfaces : Fresh(i) => Shows(i)

\* The alarms were summed up after the last interface.
SummedUp ==
    selected_if = 0 /\ quiet > 0 =>
        /\ alarm1.current <=> Alarms!Warned(read)
        /\ alarm2.current <=> Alarms!Critical(read, alarms, odux_alarms)

AlarmsInv ==
    /\ Alarms!TypeOK /\ Alarms!LedFollows
    /\ LinesApart /\ ReadSince /\ SummedUp

LEMMA AlarmsSizes ==
    ASSUME Alarms!CardAlarmsAssumption
    PROVE  /\ INTERFACE_COUNT \in Nat \ {0} /\ MaxChanges \in Nat
           /\ FirstLine \in 0 .. INTERFACE_COUNT
           /\ Protocols \subseteq {"OTU", "SDH", "ETH", "FC"}
  BY DEF Alarms!CardAlarmsAssumption

LEMMA AlarmsInit ==
    ASSUME Alarms!CardAlarmsAssumption
    PROVE  Alarms!Init => AlarmsInv
  <1>1. SUFFICES ASSUME Alarms!Init PROVE AlarmsInv
    OBVIOUS
  <1>2. Alarms!TypeOK
    <2>1. 0 \in Alarms!Interfaces /\ 0 \in 0 .. 2 * INTERFACE_COUNT /\ 0 \in 0 .. MaxChanges
      BY AlarmsSizes DEF Alarms!Interfaces
    <2>2. /\ read \in [Alarms!Interfaces -> SUBSET Alarms!Severities]
          /\ prot \in [Alarms!Interfaces -> {"OTU", "SDH", "ETH", "FC"}]
          /\ \A i \in Alarms!Interfaces : Alarms!IsLine(i) => prot[i] = "OTU"
      BY <1>1 DEF Alarms!Init, Alarms!Severities
    <2>3. /\ odux_alarms \in [Alarms!Interfaces -> BOOLEAN]
          /\ \A i \in Alarms!Interfaces : odux_alarms[i] => Alarms!IsLine(i)
          /\ odu \in [Alarms!Interfaces -> BOOLEAN] /\ monitor \in [Alarms!Interfaces -> BOOLEAN]
      BY <1>1, Zenon DEF Alarms!Init
    <2>4. {alarm1, alarm2} \subseteq Alarms!Alarm
      BY <1>1 DEF Alarms!Init, Alarms!Alarm
    <2>5. /\ live \in [Alarms!Interfaces -> SUBSET Alarms!Bits]
          /\ level \in [Alarms!Interfaces -> SUBSET Alarms!Severities]
          /\ alarms \in [Alarms!Interfaces -> SUBSET Alarms!Bits]
          /\ state \in [Alarms!Interfaces -> {"absent", "booting", "monitor"}]
      BY <1>1 DEF Alarms!Init
    <2> QED BY <1>1, <2>1, <2>2, <2>3, <2>4, <2>5, Zenon DEF Alarms!Init, Alarms!TypeOK
  <1>3. LinesApart /\ SummedUp /\ Alarms!LedFollows
    <2>1. LinesApart
      BY <1>1, Zenon DEF Alarms!Init, LinesApart
    <2>2. ~(quiet > 0)
      BY <1>1 DEF Alarms!Init
    <2> QED BY <1>1, <2>1, <2>2, Zenon DEF Alarms!Init, SummedUp, Alarms!LedFollows
  <1>4. ReadSince
    BY <1>1, AlarmsSizes DEF Alarms!Init, ReadSince, Fresh, Since, Shows, Alarms!Interfaces
  <1> QED BY <1>2, <1>3, <1>4 DEF AlarmsInv

\* Where an interface comes in the round.
LEMMA SinceIs ==
    ASSUME Alarms!CardAlarmsAssumption, NEW s \in Alarms!Interfaces, NEW i \in Alarms!Interfaces
    PROVE  (IF i < s THEN s - i ELSE s + INTERFACE_COUNT - i) \in 1 .. INTERFACE_COUNT
  BY AlarmsSizes DEF Alarms!Interfaces

\* A change of the hardware or of the settings: nothing counts as read since.
LEMMA AlarmsChanged ==
    ASSUME Alarms!CardAlarmsAssumption, AlarmsInv, Alarms!Changed,
           UNCHANGED <<Alarms!interface, Alarms!card, selected_if>>
    PROVE  ReadSince' /\ SummedUp' /\ Alarms!LedFollows' /\ changes' \in 0 .. MaxChanges
  <1>1. /\ selected_if \in Alarms!Interfaces /\ selected_if' = selected_if /\ quiet' = 0
        /\ changes \in 0 .. MaxChanges /\ changes < MaxChanges /\ changes' = changes + 1
    BY DEF AlarmsInv, Alarms!TypeOK, Alarms!Changed
  <1>2. ASSUME NEW i \in Alarms!Interfaces
        PROVE  ~Fresh(i)'
    BY <1>1, SinceIs DEF Fresh, Since
  <1>3. changes' \in 0 .. MaxChanges
    BY <1>1, AlarmsSizes
  <1> QED BY <1>1, <1>2, <1>3 DEF ReadSince, SummedUp, AlarmsInv, Alarms!LedFollows, Alarms!card

LEMMA AlarmsChange ==
    ASSUME Alarms!CardAlarmsAssumption, AlarmsInv,
           \/ \E i \in Alarms!Interfaces :
                 Alarms!Plug(i) \/ Alarms!Signal(i) \/ Alarms!Diagnostics(i)
                 \/ Alarms!SetRate(i) \/ Alarms!ServiceState(i)
           \/ Alarms!get_board_temperature
    PROVE  AlarmsInv'
  <1> USE DEF Alarms!hardware, Alarms!interface, Alarms!card
  <1>1. Alarms!Changed /\ UNCHANGED <<Alarms!interface, Alarms!card, selected_if>>
    BY DEF Alarms!Plug, Alarms!Signal, Alarms!Diagnostics, Alarms!SetRate, Alarms!ServiceState,
       Alarms!get_board_temperature
  <1>2. /\ ReadSince' /\ SummedUp' /\ Alarms!LedFollows' /\ changes' \in 0 .. MaxChanges
        /\ quiet' \in 0 .. 2 * INTERFACE_COUNT
    BY <1>1, AlarmsChanged, AlarmsSizes DEF Alarms!Changed
  <1>3. Alarms!TypeOK /\ LinesApart
    BY DEF AlarmsInv
  <1>4. ASSUME NEW i \in Alarms!Interfaces, Alarms!Plug(i)
        PROVE  Alarms!TypeOK' /\ LinesApart'
    <2>1. present' \in [Alarms!Interfaces -> BOOLEAN]
      <3>1. present \in [Alarms!Interfaces -> BOOLEAN] /\ (~present[i]) \in BOOLEAN
        BY <1>3 DEF Alarms!TypeOK
      <3> QED BY <1>4, <3>1, OneChanged, Zenon DEF Alarms!Plug
    <2>8. Alarms!TypeOK'
      BY <1>1, <1>2, <1>3, <1>4, <2>1 DEF Alarms!Plug, Alarms!TypeOK
    <2>9. LinesApart'
      BY <1>1, <1>2, <1>3, <1>4, <2>1 DEF Alarms!Plug, LinesApart
    <2> QED BY <2>8, <2>9
  <1>5. ASSUME NEW i \in Alarms!Interfaces, Alarms!Signal(i)
        PROVE  Alarms!TypeOK' /\ LinesApart'
    <2>1. PICK d \in SUBSET Alarms!Bits : live' = [live EXCEPT ![i] = d]
      BY <1>5, Zenon DEF Alarms!Signal
    <2>2. PICK o \in (IF Alarms!IsLine(i) THEN BOOLEAN ELSE {FALSE}) : odu' = [odu EXCEPT ![i] = o]
      BY <1>5, Zenon DEF Alarms!Signal
    <2>3. o \in BOOLEAN /\ (o => Alarms!IsLine(i))
      BY <2>2, Zenon
    <2>4. live' \in [Alarms!Interfaces -> SUBSET Alarms!Bits]
      BY <1>3, <2>1, OneChanged, Zenon DEF Alarms!TypeOK
    <2>5. /\ odu' \in [Alarms!Interfaces -> BOOLEAN]
          /\ \A j \in Alarms!Interfaces : odu'[j] => Alarms!IsLine(j)
      <3>1. odu \in [Alarms!Interfaces -> BOOLEAN]
        BY <1>3, Zenon DEF Alarms!TypeOK
      <3>2. /\ odu' \in [Alarms!Interfaces -> BOOLEAN] /\ odu'[i] = o
            /\ \A j \in Alarms!Interfaces : j # i => odu'[j] = odu[j]
        BY <2>2, <2>3, <3>1, OneChanged, Zenon
      <3> QED BY <1>3, <2>3, <3>2, Zenon DEF LinesApart
    <2>8. Alarms!TypeOK'
      BY <1>1, <1>2, <1>3, <1>5, <2>4, <2>5 DEF Alarms!Signal, Alarms!TypeOK
    <2>9. LinesApart'
      BY <1>1, <1>2, <1>3, <1>5, <2>4, <2>5 DEF Alarms!Signal, LinesApart
    <2> QED BY <2>8, <2>9
  <1>6. ASSUME NEW i \in Alarms!Interfaces, Alarms!Diagnostics(i)
        PROVE  Alarms!TypeOK' /\ LinesApart'
    <2>1. PICK d \in SUBSET Alarms!Severities : level' = [level EXCEPT ![i] = d]
      BY <1>6, Zenon DEF Alarms!Diagnostics
    <2>2. level' \in [Alarms!Interfaces -> SUBSET Alarms!Severities]
      BY <1>3, <2>1, OneChanged, Zenon DEF Alarms!TypeOK
    <2>8. Alarms!TypeOK'
      BY <1>1, <1>2, <1>3, <1>6, <2>2 DEF Alarms!Diagnostics, Alarms!TypeOK
    <2>9. LinesApart'
      BY <1>1, <1>2, <1>3, <1>6, <2>2 DEF Alarms!Diagnostics, LinesApart
    <2> QED BY <2>8, <2>9
  <1>7. ASSUME NEW i \in Alarms!Interfaces, Alarms!SetRate(i)
        PROVE  Alarms!TypeOK' /\ LinesApart'
    <2>1. PICK p \in Protocols : prot' = [prot EXCEPT ![i] = p]
      BY <1>7, Zenon DEF Alarms!SetRate
    <2>2. p \in {"OTU", "SDH", "ETH", "FC"} /\ ~Alarms!IsLine(i)
      BY <1>7, AlarmsSizes DEF Alarms!SetRate
    <2>3. /\ prot' \in [Alarms!Interfaces -> {"OTU", "SDH", "ETH", "FC"}]
          /\ \A j \in Alarms!Interfaces : Alarms!IsLine(j) => prot'[j] = "OTU"
      <3>1. /\ prot' \in [Alarms!Interfaces -> {"OTU", "SDH", "ETH", "FC"}]
            /\ \A j \in Alarms!Interfaces : j # i => prot'[j] = prot[j]
        <4>1. prot \in [Alarms!Interfaces -> {"OTU", "SDH", "ETH", "FC"}]
          BY <1>3, Zenon DEF Alarms!TypeOK
        <4> QED BY <2>1, <2>2, <4>1, OneChanged, Zenon
      <3> QED BY <1>3, <2>2, <3>1, Zenon DEF Alarms!TypeOK
    <2>8. Alarms!TypeOK'
      BY <1>1, <1>2, <1>3, <1>7, <2>3 DEF Alarms!SetRate, Alarms!TypeOK
    <2>9. LinesApart'
      BY <1>1, <1>2, <1>3, <1>7, <2>3 DEF Alarms!SetRate, LinesApart
    <2> QED BY <2>8, <2>9
  <1>8. ASSUME NEW i \in Alarms!Interfaces, Alarms!ServiceState(i)
        PROVE  Alarms!TypeOK' /\ LinesApart'
    <2>1. monitor' \in [Alarms!Interfaces -> BOOLEAN]
      <3>1. monitor \in [Alarms!Interfaces -> BOOLEAN] /\ (~monitor[i]) \in BOOLEAN
        BY <1>3 DEF Alarms!TypeOK
      <3> QED BY <1>8, <3>1, OneChanged, Zenon DEF Alarms!ServiceState
    <2>8. Alarms!TypeOK'
      BY <1>1, <1>2, <1>3, <1>8, <2>1 DEF Alarms!ServiceState, Alarms!TypeOK
    <2>9. LinesApart'
      BY <1>1, <1>2, <1>3, <1>8, <2>1 DEF Alarms!ServiceState, LinesApart
    <2> QED BY <2>8, <2>9
  <1>9. ASSUME Alarms!get_board_temperature
        PROVE  Alarms!TypeOK' /\ LinesApart'
    <2>8. Alarms!TypeOK'
      BY <1>1, <1>2, <1>3, <1>9 DEF Alarms!get_board_temperature, Alarms!TypeOK
    <2>9. LinesApart'
      BY <1>1, <1>2, <1>3, <1>9 DEF Alarms!get_board_temperature, LinesApart
    <2> QED BY <2>8, <2>9
  <1> QED BY <1>2, <1>4, <1>5, <1>6, <1>7, <1>8, <1>9, Zenon DEF AlarmsInv

\* What becomes of the interface that is read, and of no other.
LEMMA InterfaceRead ==
    ASSUME Alarms!TypeOK, LinesApart, NEW s \in Alarms!Interfaces,
           Alarms!update_if_dynamic_data(s)
    PROVE  /\ state' \in [Alarms!Interfaces -> {"absent", "booting", "monitor"}]
           /\ read' \in [Alarms!Interfaces -> SUBSET Alarms!Severities]
           /\ alarms' \in [Alarms!Interfaces -> SUBSET Alarms!Bits]
           /\ odux_alarms' \in [Alarms!Interfaces -> BOOLEAN]
           /\ \A i \in Alarms!Interfaces : odux_alarms'[i] => Alarms!IsLine(i)
           /\ Alarms!IsLine(s) => "bit 4" \notin alarms'[s]
           /\ state'[s] = "monitor" =>
                /\ present[s] = TRUE /\ read'[s] = level[s]
                /\ odux_alarms'[s] <=> odu[s]
                /\ prot[s] # "FC" =>
                      /\ live[s] \cap Alarms!DefectsOf(s) \subseteq alarms'[s]
                      /\ alarms'[s] \subseteq (live[s] \cap Alarms!DefectsOf(s))
                                               \cup (IF prot[s] = "SDH" THEN {"bit 4"} ELSE {})
           /\ \A i \in Alarms!Interfaces : i # s =>
                /\ state'[i] = state[i] /\ read'[i] = read[i]
                /\ alarms'[i] = alarms[i] /\ odux_alarms'[i] = odux_alarms[i]
  <1> DEFINE newAlarms(n) == IF n # "absent" THEN Alarms!Stats(s, n)
                             ELSE IF state[s] # "absent" THEN {} ELSE alarms[s]
             newOdu(n) == Alarms!IsLine(s) /\ n # "absent" /\ odu[s]
  <1>1. PICK n \in Alarms!NextState(s) :
            /\ state' = [state EXCEPT ![s] = n]
            /\ read' = [read EXCEPT ![s] = Alarms!Read(s, n)]
            /\ alarms' = [alarms EXCEPT ![s] = newAlarms(n)]
            /\ odux_alarms' = [odux_alarms EXCEPT ![s] = newOdu(n)]
    BY Zenon DEF Alarms!update_if_dynamic_data
  <1>2. /\ present[s] \in BOOLEAN /\ odu[s] \in BOOLEAN
        /\ odu[s] => Alarms!IsLine(s)
        /\ odux_alarms[s] => Alarms!IsLine(s)
    BY Zenon DEF Alarms!TypeOK, LinesApart
  <1>3. /\ live[s] \subseteq Alarms!Bits /\ alarms[s] \subseteq Alarms!Bits
        /\ level[s] \subseteq Alarms!Severities /\ read[s] \subseteq Alarms!Severities
        /\ state[s] \in {"absent", "booting", "monitor"}
        /\ prot[s] \in {"OTU", "SDH", "ETH", "FC"}
        /\ Alarms!IsLine(s) => prot[s] = "OTU" /\ "bit 4" \notin alarms[s]
    BY DEF Alarms!TypeOK, LinesApart
  <1>4. /\ n \in {"absent", "booting", "monitor"}
        /\ n = "monitor" => present[s]
    BY <1>1, <1>2, <1>3 DEF Alarms!NextState
  <1>5. /\ Alarms!Read(s, n) \subseteq Alarms!Severities
        /\ n = "monitor" => Alarms!Read(s, n) = level[s]
    BY <1>3, <1>4 DEF Alarms!Read, Alarms!Severities
  <1>6. /\ newAlarms(n) \subseteq Alarms!Bits
        /\ Alarms!IsLine(s) => "bit 4" \notin newAlarms(n)
    BY <1>3, <1>4 DEF Alarms!Stats, Alarms!Los, Alarms!Bits
  <1>7. ASSUME n = "monitor", prot[s] # "FC"
        PROVE  /\ live[s] \cap Alarms!DefectsOf(s) \subseteq newAlarms(n)
               /\ newAlarms(n) \subseteq (live[s] \cap Alarms!DefectsOf(s))
                                          \cup (IF prot[s] = "SDH" THEN {"bit 4"} ELSE {})
    BY <1>3, <1>7 DEF Alarms!Stats, Alarms!Los, Alarms!Bits, Alarms!DefectsOf
  <1>8. /\ newOdu(n) \in BOOLEAN /\ (newOdu(n) => Alarms!IsLine(s))
        /\ n = "monitor" => (newOdu(n) <=> odu[s])
    BY <1>2, Zenon
  <1> HIDE DEF newAlarms, newOdu
  <1>9. /\ state' \in [Alarms!Interfaces -> {"absent", "booting", "monitor"}]
        /\ state'[s] = n /\ \A i \in Alarms!Interfaces : i # s => state'[i] = state[i]
    <2>1. state \in [Alarms!Interfaces -> {"absent", "booting", "monitor"}]
      BY Zenon DEF Alarms!TypeOK
    <2> QED BY <1>1, <1>4, <2>1, OneChanged, Zenon
  <1>10. /\ read' \in [Alarms!Interfaces -> SUBSET Alarms!Severities]
         /\ read'[s] = Alarms!Read(s, n)
         /\ \A i \in Alarms!Interfaces : i # s => read'[i] = read[i]
    <2>1. Alarms!Read(s, n) \in SUBSET Alarms!Severities
      BY <1>5
    <2>2. read \in [Alarms!Interfaces -> SUBSET Alarms!Severities]
      BY Zenon DEF Alarms!TypeOK
    <2> QED BY <1>1, <2>1, <2>2, OneChanged, Zenon
  <1>11. /\ alarms' \in [Alarms!Interfaces -> SUBSET Alarms!Bits]
         /\ alarms'[s] = newAlarms(n)
         /\ \A i \in Alarms!Interfaces : i # s => alarms'[i] = alarms[i]
    <2>1. newAlarms(n) \in SUBSET Alarms!Bits
      BY <1>6
    <2>2. alarms \in [Alarms!Interfaces -> SUBSET Alarms!Bits]
      BY Zenon DEF Alarms!TypeOK
    <2> QED BY <1>1, <2>1, <2>2, OneChanged, Zenon
  <1>12. /\ odux_alarms' \in [Alarms!Interfaces -> BOOLEAN]
         /\ odux_alarms'[s] = newOdu(n)
         /\ \A i \in Alarms!Interfaces : i # s => odux_alarms'[i] = odux_alarms[i]
    <2>1. odux_alarms \in [Alarms!Interfaces -> BOOLEAN]
      BY Zenon DEF Alarms!TypeOK
    <2> QED BY <1>1, <1>8, <2>1, OneChanged, Zenon
  <1>13. \A i \in Alarms!Interfaces : odux_alarms'[i] => Alarms!IsLine(i)
    BY <1>8, <1>12, Zenon DEF Alarms!TypeOK
  <1>14. state'[s] = "monitor" =>
            /\ present[s] = TRUE /\ read'[s] = level[s]
            /\ odux_alarms'[s] <=> odu[s]
    BY <1>2, <1>4, <1>5, <1>8, <1>9, <1>10, <1>12, Zenon
  <1>15. state'[s] = "monitor" /\ prot[s] # "FC" =>
            /\ live[s] \cap Alarms!DefectsOf(s) \subseteq alarms'[s]
            /\ alarms'[s] \subseteq (live[s] \cap Alarms!DefectsOf(s))
                                     \cup (IF prot[s] = "SDH" THEN {"bit 4"} ELSE {})
    BY <1>7, <1>9, <1>11, Zenon
  <1> QED BY <1>6, <1>9, <1>10, <1>11, <1>12, <1>13, <1>14, <1>15, Zenon

\* The number of the interface that comes next.
LEMMA NextSelected ==
    ASSUME Alarms!CardAlarmsAssumption, NEW s \in Alarms!Interfaces
    PROVE  /\ (s + 1) % INTERFACE_COUNT = IF s + 1 = INTERFACE_COUNT THEN 0 ELSE s + 1
           /\ (s + 1) % INTERFACE_COUNT \in Alarms!Interfaces
  <1>1. s \in Nat /\ s + 1 \in Nat /\ s + 1 <= INTERFACE_COUNT
    BY AlarmsSizes DEF Alarms!Interfaces
  <1>2. (s + 1) % INTERFACE_COUNT = IF s + 1 = INTERFACE_COUNT THEN 0 ELSE s + 1
    BY <1>1, AlarmsSizes, Remainder
  <1> QED BY <1>1, <1>2, AlarmsSizes DEF Alarms!Interfaces

\* An interface other than the one just read is as old as before, by one.
LEMMA FreshBefore ==
    ASSUME Alarms!CardAlarmsAssumption, NEW s \in Alarms!Interfaces, NEW i \in Alarms!Interfaces,
           NEW q \in Nat, i # s
    PROVE  LET t == (s + 1) % INTERFACE_COUNT
               qq == IF q < 2 * INTERFACE_COUNT THEN q + 1 ELSE q
           IN (IF i < t THEN t - i ELSE t + INTERFACE_COUNT - i) <= qq
                  => (IF i < s THEN s - i ELSE s + INTERFACE_COUNT - i) <= q
  <1>1. PICK t \in 0 .. INTERFACE_COUNT - 1 :
            t = (s + 1) % INTERFACE_COUNT /\ t = IF s + 1 = INTERFACE_COUNT THEN 0 ELSE s + 1
    BY NextSelected DEF Alarms!Interfaces
  <1>2. s \in 0 .. INTERFACE_COUNT - 1 /\ i \in 0 .. INTERFACE_COUNT - 1
    BY DEF Alarms!Interfaces
  <1>3. (IF i < t THEN t - i ELSE t + INTERFACE_COUNT - i) <= (IF q < 2 * INTERFACE_COUNT THEN q + 1 ELSE q)
            => (IF i < s THEN s - i ELSE s + INTERFACE_COUNT - i) <= q
    <2>1. CASE s + 1 = INTERFACE_COUNT
      BY <1>1, <1>2, <2>1, AlarmsSizes
    <2>2. CASE s + 1 # INTERFACE_COUNT
      BY <1>1, <1>2, <2>2, AlarmsSizes
    <2> QED BY <2>1, <2>2
  <1> QED BY <1>1, <1>3, Zenon

\* After the last interface the alarms are summed up, and the ARM is told of a change.
LEMMA RoundIs ==
    ASSUME Alarms!TypeOK, Alarms!LedFollows, Alarms!Round
    PROVE  /\ {alarm1, alarm2}' \subseteq Alarms!Alarm
           /\ alarm1'.current <=> Alarms!Warned(read')
           /\ alarm2'.current <=> Alarms!Critical(read', alarms', odux_alarms')
           /\ led' \in BOOLEAN \X BOOLEAN /\ known' \in BOOLEAN
           /\ Alarms!LedFollows'
  <1> DEFINE w == Alarms!Warned(read')
             c == Alarms!Critical(read', alarms', odux_alarms')
  <1>1. /\ w \in BOOLEAN /\ c \in BOOLEAN
        /\ alarm1' = Alarms!Updated(alarm1, w) /\ alarm2' = Alarms!Updated(alarm2, c)
        /\ Alarms!set_status_led
    BY Zenon DEF Alarms!Round, Alarms!Warned, Alarms!Critical
  <1> HIDE DEF w, c
  <1>2. ASSUME NEW b \in BOOLEAN, NEW a, a.current \in BOOLEAN
        PROVE  /\ Alarms!Updated(a, b) \in Alarms!Alarm
               /\ Alarms!Updated(a, b).current = b
               /\ Alarms!Updated(a, b).change <=> (b # a.current)
    BY DEF Alarms!Updated, Alarms!Alarm
  <1>3. alarm1.current \in BOOLEAN /\ alarm2.current \in BOOLEAN
    BY DEF Alarms!TypeOK, Alarms!Alarm
  <1>4. /\ alarm1' \in Alarms!Alarm /\ alarm2' \in Alarms!Alarm
        /\ alarm1'.current = w /\ alarm2'.current = c
        /\ alarm1'.change <=> (w # alarm1.current)
        /\ alarm2'.change <=> (c # alarm2.current)
    <2>1. /\ alarm1' \in Alarms!Alarm /\ alarm1'.current = w
          /\ alarm1'.change <=> (w # alarm1.current)
      BY <1>1, <1>2, <1>3
    <2>2. /\ alarm2' \in Alarms!Alarm /\ alarm2'.current = c
          /\ alarm2'.change <=> (c # alarm2.current)
      BY <1>1, <1>2, <1>3
    <2> QED BY <2>1, <2>2
  <1>5. led \in BOOLEAN \X BOOLEAN /\ known \in BOOLEAN
    BY DEF Alarms!TypeOK
  <1>6. /\ led' \in BOOLEAN \X BOOLEAN /\ known' \in BOOLEAN
        /\ Alarms!LedFollows'
    <2>1. CASE ~Alarms!MustTell
      <3>1. led' = led /\ known' = known
        BY <1>1, <2>1, Zenon DEF Alarms!set_status_led
      <3>2. alarm1'.current = alarm1.current /\ alarm2'.current = alarm2.current
        BY <1>3, <1>4, <2>1, Zenon DEF Alarms!MustTell
      <3> QED BY <1>5, <3>1, <3>2, Zenon DEF Alarms!LedFollows
    <2>2. CASE Alarms!MustTell
      <3>1. PICK answer \in {"reply", "reply lost", "request lost"} :
                /\ led' = IF answer = "request lost" THEN led
                          ELSE <<alarm2'.current, alarm1'.current>>
                /\ known' = (answer = "reply")
        BY <1>1, <2>2, Zenon DEF Alarms!set_status_led
      <3>2. known' \in BOOLEAN /\ (known' => answer # "request lost")
        <4>1. known' => answer = "reply"
          BY <3>1, Zenon
        <4> QED BY <3>1, <4>1
      <3>3. <<alarm2'.current, alarm1'.current>> \in BOOLEAN \X BOOLEAN
        BY <1>1, <1>4, Zenon
      <3> QED BY <1>5, <3>1, <3>2, <3>3, Zenon DEF Alarms!LedFollows
    <2> QED BY <2>1, <2>2, Zenon
  <1>7. /\ alarm1'.current <=> Alarms!Warned(read')
        /\ alarm2'.current <=> Alarms!Critical(read', alarms', odux_alarms')
    BY <1>4, Zenon DEF w, c
  <1> QED BY <1>4, <1>6, <1>7, Zenon

LEMMA AlarmsRead ==
    ASSUME Alarms!CardAlarmsAssumption, AlarmsInv, Alarms!task_55
    PROVE  AlarmsInv'
  <1>1. /\ Alarms!TypeOK /\ LinesApart /\ Alarms!LedFollows
        /\ selected_if \in Alarms!Interfaces /\ quiet \in 0 .. 2 * INTERFACE_COUNT
    BY DEF AlarmsInv, Alarms!TypeOK
  <1>2. /\ selected_if' = (selected_if + 1) % INTERFACE_COUNT
        /\ selected_if' = IF selected_if + 1 = INTERFACE_COUNT THEN 0 ELSE selected_if + 1
        /\ selected_if' \in Alarms!Interfaces
        /\ quiet' = IF quiet < 2 * INTERFACE_COUNT THEN quiet + 1 ELSE quiet
        /\ UNCHANGED <<present, live, odu, level, prot, monitor, temperature, changes>>
    BY <1>1, NextSelected, Zenon DEF Alarms!task_55, Alarms!hardware
  <1>3. Alarms!update_if_dynamic_data(selected_if)
    BY DEF Alarms!task_55
  <1>4. quiet' \in 0 .. 2 * INTERFACE_COUNT
    BY <1>1, <1>2, AlarmsSizes
  <1>5. /\ {alarm1, alarm2}' \subseteq Alarms!Alarm
        /\ led' \in BOOLEAN \X BOOLEAN /\ known' \in BOOLEAN
        /\ Alarms!LedFollows' /\ SummedUp'
    <2>1. CASE selected_if' = 0
      <3>1. Alarms!Round
        BY <2>1, Zenon DEF Alarms!task_55
      <3>2. /\ {alarm1, alarm2}' \subseteq Alarms!Alarm
            /\ alarm1'.current <=> Alarms!Warned(read')
            /\ alarm2'.current <=> Alarms!Critical(read', alarms', odux_alarms')
            /\ led' \in BOOLEAN \X BOOLEAN /\ known' \in BOOLEAN
            /\ Alarms!LedFollows'
        BY <1>1, <3>1, RoundIs, Zenon
      <3>3. /\ Alarms!Warned(read') <=> Alarms!Warned(read)'
            /\ Alarms!Critical(read', alarms', odux_alarms')
                   <=> Alarms!Critical(read, alarms, odux_alarms)'
        BY <1>2, Zenon DEF Alarms!Warned, Alarms!Critical
      <3> QED BY <3>2, <3>3, Zenon DEF SummedUp
    <2>2. CASE selected_if' # 0
      <3>1. UNCHANGED <<alarm1, alarm2, led, known>>
        BY <2>2, Zenon DEF Alarms!task_55, Alarms!card
      <3>2. SummedUp'
        BY <2>2, Zenon DEF SummedUp
      <3>3. {alarm1, alarm2}' \subseteq Alarms!Alarm
        BY <1>1, <3>1 DEF Alarms!TypeOK
      <3> QED BY <1>1, <3>1, <3>2, <3>3, Zenon DEF Alarms!TypeOK, Alarms!LedFollows
    <2> QED BY <2>1, <2>2
  <1>6. Alarms!TypeOK'
    BY <1>1, <1>2, <1>3, <1>4, <1>5, InterfaceRead DEF Alarms!TypeOK
  <1>7. LinesApart'
    <2>1. ASSUME NEW i \in Alarms!Interfaces, Alarms!IsLine(i)
          PROVE  "bit 4" \notin alarms'[i]
      <3>1. CASE i = selected_if
        BY <1>1, <1>3, <2>1, <3>1, InterfaceRead, Zenon
      <3>2. CASE i # selected_if
        <4>1. alarms'[i] = alarms[i]
          BY <1>1, <1>3, <3>2, InterfaceRead, Zenon
        <4> QED BY <1>1, <2>1, <4>1, Zenon DEF LinesApart
      <3> QED BY <3>1, <3>2
    <2> QED BY <1>1, <1>2, <2>1, Zenon DEF LinesApart, Alarms!IsLine
  <1>8. ReadSince'
    <2>1. ASSUME NEW i \in Alarms!Interfaces, Fresh(i)'
          PROVE  Shows(i)'
      <3>1. CASE i = selected_if
        BY <1>1, <1>2, <1>3, <3>1, InterfaceRead, Zenon DEF Shows, Alarms!DefectsOf, Alarms!IsLine
      <3>2. CASE i # selected_if
        <4>1. Fresh(i)
          <5>1. quiet \in Nat
            BY <1>1, AlarmsSizes
          <5> QED BY <1>1, <1>2, <2>1, <3>2, <5>1, FreshBefore, Zenon DEF Fresh, Since
        <4>2. Shows(i)
          BY <4>1, Zenon DEF AlarmsInv, ReadSince
        <4>3. /\ state'[i] = state[i] /\ read'[i] = read[i]
              /\ alarms'[i] = alarms[i] /\ odux_alarms'[i] = odux_alarms[i]
          BY <1>1, <1>3, <3>2, InterfaceRead, Zenon
        <4> QED BY <1>2, <4>2, <4>3, Zenon DEF Shows, Alarms!DefectsOf, Alarms!IsLine
      <3> QED BY <3>1, <3>2
    <2> QED BY <2>1, Zenon DEF ReadSince
  <1> QED BY <1>5, <1>6, <1>7, <1>8 DEF AlarmsInv

LEMMA AlarmsNext ==
    ASSUME Alarms!CardAlarmsAssumption, AlarmsInv, Alarms!Next
    PROVE  AlarmsInv'
  BY AlarmsChange, AlarmsRead, Zenon DEF Alarms!Next

\* Between two rounds every interface was read since the last change.
LEMMA SettledIsRead ==
    ASSUME Alarms!CardAlarmsAssumption, AlarmsInv, Alarms!Settled
    PROVE  /\ \A i \in Alarms!Interfaces : Shows(i)
           /\ alarm1.current <=> Alarms!Warned(read)
           /\ alarm2.current <=> Alarms!Critical(read, alarms, odux_alarms)
  <1>1. /\ selected_if = 0 /\ selected_if \in Alarms!Interfaces
        /\ quiet \in 0 .. 2 * INTERFACE_COUNT /\ quiet >= INTERFACE_COUNT
    BY DEF AlarmsInv, Alarms!TypeOK, Alarms!Settled
  <1>2. ASSUME NEW i \in Alarms!Interfaces
        PROVE  Fresh(i)
    <2>1. ~(i < 0) /\ 0 + INTERFACE_COUNT - i <= quiet
      BY <1>1, AlarmsSizes DEF Alarms!Interfaces
    <2> QED BY <1>1, <2>1, Zenon DEF Fresh, Since
  <1>3. quiet > 0
    BY <1>1, AlarmsSizes
  <1> QED BY <1>1, <1>2, <1>3, Zenon DEF AlarmsInv, ReadSince, SummedUp

\* An invariant of the alarms says what is promised of them.
LEMMA AlarmsAreAsSaid ==
    ASSUME Alarms!CardAlarmsAssumption, AlarmsInv
    PROVE  Alarms!NoAlarmIsMissed /\ Alarms!NoAlarmStaysOn
  <1>1. SUFFICES ASSUME Alarms!Settled PROVE Alarms!NoAlarmIsMissed /\ Alarms!NoAlarmStaysOn
    BY Zenon DEF Alarms!NoAlarmIsMissed, Alarms!NoAlarmStaysOn
  <1>2. /\ \A i \in Alarms!Interfaces : Shows(i)
        /\ alarm1.current <=> Alarms!Warned(read)
        /\ alarm2.current <=> Alarms!Critical(read, alarms, odux_alarms)
    BY <1>1, SettledIsRead
  <1>3. ASSUME NEW i \in Alarms!Interfaces, Alarms!Watched(i)
        PROVE  /\ monitor[i] /\ read[i] = level[i]
               /\ Alarms!Defective(i) =>
                     (Alarms!IsLine(i) /\ odux_alarms[i])
                     \/ (prot[i] \in {"ETH", "SDH", "OTU"} /\ alarms[i] # {})
    <2>1. /\ monitor[i] /\ read[i] = level[i] /\ (odux_alarms[i] <=> odu[i])
          /\ prot[i] # "FC" => live[i] \cap Alarms!DefectsOf(i) \subseteq alarms[i]
      BY <1>2, <1>3, Zenon DEF Alarms!Watched, Shows
    <2>2. odu[i] => Alarms!IsLine(i)
      BY DEF AlarmsInv, LinesApart
    <2>3. prot[i] \in {"OTU", "SDH", "ETH", "FC"}
      BY DEF AlarmsInv, Alarms!TypeOK
    <2>4. ASSUME live[i] \cap Alarms!DefectsOf(i) # {}
          PROVE  prot[i] \in {"ETH", "SDH", "OTU"} /\ alarms[i] # {}
      <3>1. prot[i] # "FC"
        BY <2>4 DEF Alarms!DefectsOf
      <3> QED BY <2>1, <2>3, <2>4, <3>1
    <2> QED BY <2>1, <2>2, <2>4, Zenon DEF Alarms!Defective
  <1>4. ASSUME NEW i \in Alarms!Interfaces, Alarms!Clean(i)
        PROVE  /\ read[i] = level[i] /\ (odux_alarms[i] <=> odu[i])
               /\ prot[i] # "FC" /\ alarms[i] # {} => live[i] \cap Alarms!DefectsOf(i) # {}
    <2>1. /\ read[i] = level[i] /\ (odux_alarms[i] <=> odu[i])
          /\ prot[i] # "FC" =>
                alarms[i] \subseteq (live[i] \cap Alarms!DefectsOf(i))
                                       \cup (IF prot[i] = "SDH" THEN {"bit 4"} ELSE {})
      BY <1>2, <1>4, Zenon DEF Alarms!Clean, Alarms!Watched, Shows
    <2>2. prot[i] = "SDH" => "bit 4" \notin alarms[i]
      BY <1>4, Zenon DEF Alarms!Clean
    <2> QED BY <2>1, <2>2
  <1>5. Alarms!NoAlarmIsMissed
    BY <1>2, <1>3, Zenon DEF Alarms!NoAlarmIsMissed, Alarms!Warned, Alarms!Critical, Alarms!Watched
  <1>6. Alarms!NoAlarmStaysOn
    <2>1. SUFFICES ASSUME \A i \in Alarms!Interfaces : monitor[i] => Alarms!Clean(i)
                   PROVE  /\ alarm1.current =>
                                \/ temperature = "warning"
                                \/ \E i \in Alarms!Interfaces : monitor[i] /\ "warning" \in level[i]
                          /\ alarm2.current =>
                                \/ temperature = "critical"
                                \/ \E i \in Alarms!Interfaces :
                                      monitor[i] /\ (Alarms!Defective(i) \/ "critical" \in level[i])
      BY Zenon DEF Alarms!NoAlarmStaysOn
    <2>2. alarm1.current => \/ temperature = "warning"
                            \/ \E i \in Alarms!Interfaces : monitor[i] /\ "warning" \in level[i]
      BY <1>2, <1>4, <2>1, Zenon DEF Alarms!Warned
    <2>3. ASSUME NEW i \in Alarms!Interfaces, monitor[i],
                 \/ "critical" \in read[i]
                 \/ Alarms!IsLine(i) /\ odux_alarms[i]
                 \/ prot[i] \in {"ETH", "SDH", "OTU"} /\ alarms[i] # {}
          PROVE  Alarms!Defective(i) \/ "critical" \in level[i]
      <3>1. prot[i] \in {"ETH", "SDH", "OTU"} => prot[i] # "FC"
        OBVIOUS
      <3> QED BY <1>4, <2>1, <2>3, <3>1, Zenon DEF Alarms!Defective
    <2> QED BY <1>2, <2>2, <2>3, Zenon DEF Alarms!Critical
  <1> QED BY <1>5, <1>6

-----------------------------------------------------------------------------
(* The I2C driver: the operators of its promise *)

LEMMA NothingWritten ==
    ASSUME NEW m \in [Master!Register -> Master!Value], NEW off \in Master!Register
    PROVE  Master!Abstract!Written(m, off, 0) = m
  BY DEF Master!Abstract!Written, Master!Register

\* One byte more is stored where the device points.
LEMMA OneMoreWritten ==
    ASSUME Master!I2cMasterAssumption, NEW m \in [Master!Register -> Master!Value],
           NEW off \in Master!Register, NEW n \in Nat, off + n \in Master!Register
    PROVE  [Master!Abstract!Written(m, off, n) EXCEPT ![off + n] = Master!New]
               = Master!Abstract!Written(m, off, n + 1)
  <1>1. ASSUME NEW r \in Master!Register
        PROVE  r \in off .. off + (n + 1) - 1 <=> r \in off .. off + n - 1 \/ r = off + n
    BY DEF Master!Register, Master!I2cMasterAssumption
  <1>2. Master!Abstract!Written(m, off, n) = [r \in Master!Register |-> IF r \in off .. off + n - 1 THEN Master!New ELSE m[r]]
    BY DEF Master!Abstract!Written
  <1>3. QED
    BY <1>1, <1>2 DEF Master!Abstract!Written

LEMMA WrittenType ==
    ASSUME NEW m \in [Master!Register -> Master!Value], NEW off, NEW n
    PROVE  Master!Abstract!Written(m, off, n) \in [Master!Register -> Master!Value]
  BY DEF Master!Abstract!Written, Master!Value

\* One byte more is delivered.
LEMMA OneMoreRead ==
    ASSUME Master!I2cMasterAssumption, NEW m \in [Master!Register -> Master!Value],
           NEW off \in Master!Register, NEW n \in Nat, off + n \in Master!Register
    PROVE  Append(Master!Abstract!Bytes(m, off, n), m[off + n]) = Master!Abstract!Bytes(m, off, n + 1)
  <1> DEFINE s == Master!Abstract!Bytes(m, off, n)
             t == Master!Abstract!Bytes(m, off, n + 1)
  <1>1. s \in Seq(Master!Value) /\ t \in Seq(Master!Value) /\ Len(s) = n /\ Len(t) = n + 1
    BY DEF Master!Abstract!Bytes, Master!Register, Master!I2cMasterAssumption
  <1>2. Append(s, m[off + n]) \in Seq(Master!Value) /\ Len(Append(s, m[off + n])) = n + 1
    BY <1>1, AppendProperties
  <1>3. ASSUME NEW n1 \in 1 .. n + 1
        PROVE  Append(s, m[off + n])[n1] = t[n1]
    BY <1>1 DEF Master!Abstract!Bytes
  <1>4. QED
    BY <1>1, <1>2, <1>3, SeqEqual

-----------------------------------------------------------------------------
(* The I2C driver: the inductive invariant *)

\* What is asked for lies in the device.
CallInside ==
    /\ call.off + call.len - 1 \in Master!Register
    /\ call.op = "word" => call.len = 2

\* Between two bytes the bus is held; only a random read goes back to the address
\* after its first byte.
PhaseFits ==
    /\ (i2cPc = "idle") = (result # "none")
    /\ i2cPc \in {"offset", "restart", "data"} => held
    /\ i2cPc = "restart" => call.op # "write"
    /\ i2cPc \in {"address", "offset", "restart"} /\ i2cI > 0 => call.op = "random"

\* In a call whose bytes were all awaited the device knows what comes next,
DeviceFits ==
    ~late =>
        /\ i2cPc \in {"offset", "restart"} => dev.mode = "listening"
        /\ i2cPc = "data" => dev.mode = (IF call.op = "write" THEN "listening" ELSE "sending")

\* it points at the byte that is transferred next,
PointsAtNext == ~late /\ i2cPc \in {"restart", "data"} => dev.ptr = call.off + i2cI

\* it holds the bytes that it took so far, and none from a read,
Took == IF call.op = "write" THEN i2cI ELSE 0

MemSoFar == ~late /\ i2cPc # "idle" => dev.mem = Master!Abstract!Written(before, call.off, Took)

\* and a read delivered the registers before the next one.
Got == IF call.op = "write" THEN 0 ELSE i2cI

BuffSoFar ==
    i2cPc # "idle" =>
        /\ Len(buff) = Got
        /\ ~late => buff = Master!Abstract!Bytes(before, call.off, Got)

MasterInv ==
    /\ Master!TypeOK /\ CallInside
    /\ PhaseFits /\ DeviceFits /\ Master!LineIsReleased /\ Master!HeldOnlyAfterRefusal
    /\ PointsAtNext /\ MemSoFar /\ BuffSoFar

\* A step of the driver is a step of the promise, or none.
CallKept ==
    [\/ Master!Abstract!Ask \/ Master!Abstract!Write \/ Master!Abstract!ReadOk
     \/ Master!Abstract!ReadFail \/ Master!Abstract!Late]_
        <<Master!Called, IF i2cPc = "idle" THEN dev.mem ELSE before, result,
          IF i2cPc = "idle" THEN buff ELSE <<>>, i2cPc = "idle" /\ late>>

LEMMA MasterInit ==
    ASSUME Master!I2cMasterAssumption
    PROVE  Master!Init => MasterInv
  <1>1. SUFFICES ASSUME Master!Init PROVE MasterInv
    OBVIOUS
  <1>2. /\ dev \in [mode : Master!Mode, ptr : Master!Register, mem : [Master!Register -> Master!Value]]
        /\ before \in [Master!Register -> Master!Value]
    BY <1>1 DEF Master!Init, Master!Register, Master!New, Master!Value, Master!Mode, Master!I2cMasterAssumption
  <1>3. call \in [op : Master!Op, off : Master!Register, len : 1 .. 2] /\ CallInside
    BY <1>1 DEF Master!Init, CallInside, Master!Op, Master!Register, Master!I2cMasterAssumption
  <1>4. buff \in Seq(Master!Value) /\ Len(buff) <= i2cI /\ calls \in 0 .. MaxCalls
    BY <1>1 DEF Master!Init, Master!I2cMasterAssumption
  <1>5. Master!TypeOK
    BY <1>1, <1>2, <1>3, <1>4 DEF Master!Init, Master!TypeOK
  <1> QED BY <1>1, <1>3, <1>5 DEF Master!Init, MasterInv, PhaseFits, DeviceFits, Master!LineIsReleased,
             Master!HeldOnlyAfterRefusal, PointsAtNext, MemSoFar, BuffSoFar

-----------------------------------------------------------------------------
(* The I2C driver and the device *)

LEMMA AddressedDevice ==
    ASSUME Master!TypeOK, NEW m \in Master!Mode
    PROVE  /\ Master!Addressed(m) \in [mode : Master!Mode, ptr : Master!Register, mem : [Master!Register -> Master!Value]]
           /\ Master!Addressed(m).mode = m
           /\ Master!Addressed(m).ptr = dev.ptr
           /\ Master!Addressed(m).mem = dev.mem
  <1> DEFINE M == [Master!Register -> Master!Value]
  <1>1. dev \in [mode : Master!Mode, ptr : Master!Register, mem : M]
    BY DEF Master!TypeOK
  <1>2. QED
    BY <1>1, Zenon DEF Master!Addressed

LEMMA PointedDevice ==
    ASSUME Master!TypeOK, NEW r \in Master!Register
    PROVE  /\ Master!Pointed(r) \in [mode : Master!Mode, ptr : Master!Register, mem : [Master!Register -> Master!Value]]
           /\ Master!Pointed(r).mode = dev.mode
           /\ Master!Pointed(r).ptr = r
           /\ Master!Pointed(r).mem = dev.mem
  <1> DEFINE M == [Master!Register -> Master!Value]
  <1>1. dev \in [mode : Master!Mode, ptr : Master!Register, mem : M]
    BY DEF Master!TypeOK
  <1>2. QED
    BY <1>1, Zenon DEF Master!Pointed

\* The pointer comes round after the last register.
LEMMA PointerMoves ==
    ASSUME Master!I2cMasterAssumption, Master!TypeOK
    PROVE  /\ dev.ptr \in Master!Register
           /\ (dev.ptr + 1) % Cells \in Master!Register
           /\ dev.ptr + 1 \in Master!Register => (dev.ptr + 1) % Cells = dev.ptr + 1
  <1>1. dev.ptr \in 0 .. Cells - 1 /\ Cells \in Nat \ {0}
    BY DEF Master!TypeOK, Master!Register, Master!I2cMasterAssumption
  <1>2. dev.ptr + 1 \in Nat
    BY <1>1
  <1> DEFINE p == dev.ptr + 1
             r == p % Cells
  <1>3. r \in 0 .. Cells - 1 /\ (p < Cells => r = p)
    BY <1>1, <1>2, Remainder
  <1> HIDE DEF r
  <1>4. r \in Master!Register /\ (p \in Master!Register => r = p)
    BY <1>1, <1>3 DEF Master!Register
  <1>5. QED
    BY <1>1, <1>4 DEF Master!Register, r

LEMMA SentDevice ==
    ASSUME Master!I2cMasterAssumption, Master!TypeOK, NEW ack \in BOOLEAN
    PROVE  /\ Master!Sent(ack) \in [mode : Master!Mode, ptr : Master!Register, mem : [Master!Register -> Master!Value]]
           /\ Master!Sent(ack).mode = (IF ack THEN "sending" ELSE "deaf")
           /\ Master!Sent(ack).ptr = (dev.ptr + 1) % Cells
           /\ Master!Sent(ack).mem = dev.mem
  <1> DEFINE M == [Master!Register -> Master!Value]
             p == (dev.ptr + 1) % Cells
             o == IF ack THEN "sending" ELSE "deaf"
  <1>1. dev \in [mode : Master!Mode, ptr : Master!Register, mem : M]
    BY DEF Master!TypeOK
  <1>2. p \in Master!Register /\ o \in Master!Mode
    BY PointerMoves DEF Master!Mode
  <1>3. Master!Sent(ack) = [dev EXCEPT !.ptr = p, !.mode = o]
    BY DEF Master!Sent
  <1> HIDE DEF M, p, o
  <1>4. QED
    BY <1>1, <1>2, <1>3, Zenon DEF M, p, o

LEMMA StoredDevice ==
    ASSUME Master!I2cMasterAssumption, Master!TypeOK
    PROVE  /\ Master!Stored \in [mode : Master!Mode, ptr : Master!Register, mem : [Master!Register -> Master!Value]]
           /\ Master!Stored.mode = dev.mode
           /\ Master!Stored.ptr = (dev.ptr + 1) % Cells
           /\ Master!Stored.mem = [dev.mem EXCEPT ![dev.ptr] = Master!New]
  <1> DEFINE M == [Master!Register -> Master!Value]
             p == (dev.ptr + 1) % Cells
             c == [dev.mem EXCEPT ![dev.ptr] = Master!New]
  <1>1. dev \in [mode : Master!Mode, ptr : Master!Register, mem : M]
    BY DEF Master!TypeOK
  <1>2. p \in Master!Register /\ c \in M
    BY <1>1, PointerMoves DEF Master!Value
  <1>3. Master!Stored = [dev EXCEPT !.mem = c, !.ptr = p]
    BY <1>1, Zenon DEF Master!Stored
  <1> HIDE DEF M, p, c
  <1>4. QED
    BY <1>1, <1>2, <1>3, Zenon DEF M, p, c

-----------------------------------------------------------------------------
(* The driver: one lemma per way a step can end *)

\* A call begins.
LEMMA CallStep ==
    ASSUME Master!I2cMasterAssumption, MasterInv, Master!sls_call
    PROVE  MasterInv' /\ CallKept
  <1>1. Master!TypeOK'
    <2>1. dev.mem \in [Master!Register -> Master!Value] /\ calls + 1 \in 0 .. MaxCalls
      BY DEF Master!sls_call, MasterInv, Master!TypeOK, Master!I2cMasterAssumption
    <2>2. call'.len \in 1 .. 2 /\ <<>> \in Seq(Master!Value) /\ Len(<<>>) = 0
      BY DEF Master!sls_call
    <2>3. late' \in BOOLEAN
      BY DEF Master!sls_call, MasterInv, Master!TypeOK
    <2>4. QED
      BY <2>1, <2>2, <2>3 DEF Master!sls_call, MasterInv, Master!TypeOK
  <1>2. /\ CallInside' /\ PhaseFits' /\ DeviceFits' /\ Master!LineIsReleased' /\ Master!HeldOnlyAfterRefusal'
        /\ PointsAtNext' /\ BuffSoFar' /\ MemSoFar'
    <2>1. Took' = 0 /\ Got' = 0
      BY DEF Master!sls_call, Took, Got
    <2>2. MemSoFar'
      BY <1>1, <2>1, NothingWritten DEF Master!sls_call, MemSoFar, MasterInv, Master!TypeOK
    <2>3. BuffSoFar'
      BY <2>1 DEF Master!sls_call, BuffSoFar, Master!Abstract!Bytes, MasterInv, Master!TypeOK
    <2>4. QED
      BY <2>2, <2>3 DEF Master!sls_call, MasterInv, Master!TypeOK, CallInside, PhaseFits, DeviceFits, Master!LineIsReleased,
                Master!HeldOnlyAfterRefusal, PointsAtNext, Master!Op
  <1>3. Master!Abstract!Ask
    <2>1. Master!Called' \in Master!Abstract!Calls
      BY <1>1, <1>2 DEF Master!sls_call, Master!Called, Master!Abstract!Calls, Master!TypeOK, CallInside
    <2>2. QED
      BY <2>1 DEF Master!sls_call, Master!Abstract!Ask, MasterInv, PhaseFits
  <1>4. QED
    BY <1>1, <1>2, <1>3 DEF MasterInv, CallKept

\* A byte is refused: the call is over, and what is in the device stays there.
LEMMA RefusedStep ==
    ASSUME Master!I2cMasterAssumption, MasterInv, i2cPc # "idle", i2cPc = "data" => call.op = "write",
           ~late, late' = FALSE, tip' \in BOOLEAN, dev' = Master!Addressed("deaf"), Master!Refused,
           UNCHANGED <<call, i2cI, before, calls>>
    PROVE  MasterInv' /\ CallKept
  <1>1. /\ dev' \in [mode : Master!Mode, ptr : Master!Register, mem : [Master!Register -> Master!Value]]
        /\ dev'.mode = "deaf" /\ dev'.mem = dev.mem
    BY AddressedDevice DEF MasterInv, Master!Mode
  <1>2. /\ i2cPc' = "idle" /\ buff' = <<>> /\ result' \in {"OK", "FAIL"}
        /\ held' \in BOOLEAN
        /\ held' => call.op \in {"block", "word"} /\ result' = "FAIL"
        /\ call.op # "write" => result' = "FAIL"
        /\ call.op = "write" => result' = IF i2cPc = "data" THEN "FAIL" ELSE "OK"
    BY DEF Master!Refused, Master!Return, MasterInv, Master!TypeOK, Master!Op
  <1>3. Master!TypeOK'
    <2>1. buff' \in Seq(Master!Value) /\ Len(buff') = 0
      BY <1>2
    <2>2. Len(buff') <= i2cI'
      BY <2>1 DEF MasterInv, Master!TypeOK
    <2>3. QED
      BY <1>1, <1>2, <2>1, <2>2 DEF MasterInv, Master!TypeOK
  <1>4. MasterInv'
    BY <1>1, <1>2, <1>3
       DEF MasterInv, Master!TypeOK, CallInside, PhaseFits, DeviceFits, Master!LineIsReleased, Master!HeldOnlyAfterRefusal,
           PointsAtNext, MemSoFar, BuffSoFar
  <1>5. dev'.mem = Master!Abstract!Written(before, call.off, Took)
    BY <1>1 DEF MasterInv, MemSoFar
  <1>6. CASE call.op = "write"
    <2>1. PICK o \in Master!Abstract!Outcomes(call.len) : o.taken = i2cI /\ o.result = result'
      <3> DEFINE o == [taken |-> i2cI, result |-> result']
      <3>1. o \in [taken : 0 .. call.len, result : {"OK", "FAIL"}]
        BY <1>2 DEF MasterInv, Master!TypeOK
      <3>2. result' = "OK" => i2cI = 0
        BY <1>2, <1>6 DEF MasterInv, Master!TypeOK, PhaseFits
      <3>3. o \in Master!Abstract!Outcomes(call.len)
        BY <1>2, <3>1, <3>2 DEF Master!Abstract!Outcomes, MasterInv, Master!TypeOK
      <3>4. QED
        BY <3>3
    <2>2. Master!Abstract!Write
      BY <1>2, <1>5, <1>6, <2>1
         DEF Master!Abstract!Write, Master!Called, MasterInv, Master!TypeOK, PhaseFits, Took
    <2>3. QED
      BY <1>4, <2>2 DEF CallKept
  <1>7. CASE call.op # "write"
    <2>1. dev'.mem = before
      BY <1>5, <1>7, NothingWritten DEF Took, MasterInv, Master!TypeOK
    <2>2. Master!Abstract!ReadFail
      BY <1>2, <1>7, <2>1 DEF Master!Abstract!ReadFail, Master!Called, MasterInv, Master!TypeOK, PhaseFits
    <2>3. QED
      BY <1>4, <2>2 DEF CallKept
  <1>8. QED
    BY <1>6, <1>7

LEMMA TipType ==
    ASSUME MasterInv, Master!checKTip
    PROVE  tip' \in BOOLEAN /\ late' \in BOOLEAN /\ (~late' => ~late)
  BY DEF Master!checKTip, MasterInv, Master!TypeOK

\* The device takes its address or the offset: the call goes on, and its caller sees
\* nothing of it.
LEMMA TakenStep ==
    ASSUME Master!I2cMasterAssumption, MasterInv, ~late, late' = FALSE, tip' \in BOOLEAN, held' = TRUE,
           \/ i2cPc = "address" /\ i2cPc' = "offset" /\ dev' = Master!Addressed("listening")
           \/ i2cPc = "restart" /\ i2cPc' = "data" /\ dev' = Master!Addressed("sending")
           \/ /\ i2cPc = "offset"
              /\ i2cPc' = IF call.op = "write" THEN "data" ELSE "restart"
              /\ dev' = Master!Pointed(call.off + i2cI),
           UNCHANGED <<call, i2cI, buff, result, before, calls>>
    PROVE  MasterInv' /\ CallKept
  <1>1. call.off + i2cI \in Master!Register
    BY DEF MasterInv, Master!TypeOK, CallInside, Master!Register, Master!I2cMasterAssumption
  <1>2. /\ dev' \in [mode : Master!Mode, ptr : Master!Register, mem : [Master!Register -> Master!Value]]
        /\ dev'.mem = dev.mem
        /\ i2cPc = "address" => dev'.mode = "listening" /\ dev'.ptr = dev.ptr
        /\ i2cPc = "restart" => dev'.mode = "sending" /\ dev'.ptr = dev.ptr
        /\ i2cPc = "offset" => dev'.mode = dev.mode /\ dev'.ptr = call.off + i2cI
    BY <1>1, AddressedDevice, PointedDevice DEF MasterInv, Master!Mode
  <1>3. /\ i2cPc \in {"address", "offset", "restart"}
        /\ i2cPc' \in {"offset", "restart", "data"}
    OBVIOUS
  <1>4. Master!TypeOK'
    BY <1>2, <1>3 DEF MasterInv, Master!TypeOK
  <1>5. PhaseFits' /\ DeviceFits' /\ PointsAtNext'
    BY <1>2, <1>3 DEF MasterInv, Master!TypeOK, PhaseFits, DeviceFits, PointsAtNext
  <1>6. MemSoFar' /\ BuffSoFar'
    BY <1>2, <1>3 DEF MasterInv, MemSoFar, Took, BuffSoFar, Got
  <1>7. CallKept
    BY <1>3 DEF CallKept, Master!Called
  <1>8. QED
    BY <1>3, <1>4, <1>5, <1>6, <1>7 DEF MasterInv, CallInside, Master!LineIsReleased, Master!HeldOnlyAfterRefusal

\* The device stores a byte; after the last one the write has succeeded.
LEMMA StoredStep ==
    ASSUME Master!I2cMasterAssumption, MasterInv, i2cPc = "data", call.op = "write",
           ~late, late' = FALSE, tip' \in BOOLEAN, dev' = Master!Stored, i2cI' = i2cI + 1,
           IF Master!LastByte THEN Master!Return("OK", TRUE) ELSE UNCHANGED <<i2cPc, result, held>>,
           UNCHANGED <<buff, call, before, calls>>
    PROVE  MasterInv' /\ CallKept
  <1>1. /\ call.off + i2cI \in Master!Register /\ dev.ptr = call.off + i2cI
        /\ ~Master!LastByte => call.off + i2cI' \in Master!Register /\ i2cI' < call.len
    BY DEF MasterInv, Master!TypeOK, CallInside, PointsAtNext, Master!LastByte, Master!Register, Master!I2cMasterAssumption
  <1>2. /\ dev' \in [mode : Master!Mode, ptr : Master!Register, mem : [Master!Register -> Master!Value]]
        /\ dev'.mode = "listening"
        /\ dev'.ptr = (dev.ptr + 1) % Cells
        /\ dev'.mem = [dev.mem EXCEPT ![dev.ptr] = Master!New]
    BY StoredDevice DEF MasterInv, DeviceFits
  <1>3. dev'.mem = Master!Abstract!Written(before, call.off, i2cI + 1)
    <2>1. dev.mem = Master!Abstract!Written(before, call.off, i2cI)
      BY DEF MasterInv, MemSoFar, Took
    <2>2. QED
      BY <1>1, <1>2, <2>1, OneMoreWritten DEF MasterInv, Master!TypeOK
  <1>4. Master!TypeOK'
    <2>1. /\ i2cPc' \in {"idle", "data"} /\ result' \in {"none", "OK", "FAIL"}
          /\ held' \in BOOLEAN
          /\ i2cI' < call.len \/ i2cPc' = "idle"
      BY <1>1 DEF MasterInv, Master!TypeOK, Master!Return
    <2>2. i2cI' \in 0 .. 2 /\ Len(buff) <= i2cI'
      BY DEF MasterInv, Master!TypeOK
    <2>3. QED
      BY <1>2, <2>1, <2>2 DEF MasterInv, Master!TypeOK
  <1>5. PointsAtNext'
    <2>1. ASSUME ~Master!LastByte PROVE dev'.ptr = call.off + i2cI'
      <3>1. call.off + i2cI' = dev.ptr + 1 /\ dev.ptr + 1 \in Master!Register
        BY <1>1, <2>1 DEF MasterInv, Master!TypeOK, Master!Register, Master!I2cMasterAssumption
      <3>2. QED
        BY <1>2, <3>1, PointerMoves DEF MasterInv
    <2>2. QED
      BY <2>1 DEF PointsAtNext, Master!Return
  <1>6. /\ PhaseFits' /\ DeviceFits' /\ Master!LineIsReleased' /\ Master!HeldOnlyAfterRefusal' /\ CallInside'
        /\ MemSoFar' /\ BuffSoFar'
    BY <1>2, <1>3 DEF MasterInv, Master!TypeOK, PhaseFits, DeviceFits, Master!LineIsReleased, Master!HeldOnlyAfterRefusal, CallInside,
                      MemSoFar, Took, BuffSoFar, Got, Master!Return
  <1>7. CallKept
    <2>1. CASE Master!LastByte
      <3>1. [taken |-> call.len, result |-> "OK"] \in Master!Abstract!Outcomes(call.len)
        BY DEF Master!Abstract!Outcomes, MasterInv, Master!TypeOK
      <3>2. /\ i2cPc' = "idle" /\ result' = "OK" /\ i2cI + 1 = call.len
            /\ result = "none"
        BY <2>1 DEF Master!Return, Master!LastByte, MasterInv, PhaseFits
      <3>3. Master!Abstract!Write
        BY <1>3, <3>1, <3>2 DEF Master!Abstract!Write, Master!Called, MasterInv, Master!TypeOK, BuffSoFar, Got
      <3>4. QED
        BY <3>3 DEF CallKept
    <2>2. CASE ~Master!LastByte
      BY <2>2 DEF CallKept, Master!Called
    <2>3. QED
      BY <2>1, <2>2
  <1>8. QED
    BY <1>4, <1>5, <1>6, <1>7 DEF MasterInv

\* A byte is delivered; after the last one the read has succeeded.
LEMMA ReadStep ==
    ASSUME Master!I2cMasterAssumption, MasterInv, Master!ReadData, ~late, late' = FALSE
    PROVE  MasterInv' /\ CallKept
  <1>1. /\ i2cPc = "data" /\ call.op \in {"random", "block", "word"}
        /\ dev.mode = "sending" /\ held = TRUE /\ result = "none"
        /\ UNCHANGED <<call, before, calls>>
        /\ tip' \in BOOLEAN
    BY TipType DEF Master!ReadData, MasterInv, Master!TypeOK, Master!Op, PhaseFits, DeviceFits
  <1>2. /\ call.off + i2cI \in Master!Register /\ dev.ptr = call.off + i2cI
        /\ i2cI' = i2cI + 1 /\ i2cI \in 0 .. 1
        /\ ~Master!LastByte => call.off + i2cI' \in Master!Register /\ i2cI' < call.len
    BY <1>1 DEF Master!ReadData, MasterInv, Master!TypeOK, CallInside, PointsAtNext, Master!LastByte, Master!Register,
                Master!I2cMasterAssumption
  <1>3. /\ dev' \in [mode : Master!Mode, ptr : Master!Register, mem : [Master!Register -> Master!Value]]
        /\ dev'.mode = (IF Master!Acknowledges THEN "sending" ELSE "deaf")
        /\ dev'.ptr = (dev.ptr + 1) % Cells
        /\ dev'.mem = dev.mem
    <2>1. Master!Acknowledges \in BOOLEAN
      BY DEF Master!Acknowledges
    <2>2. QED
      BY <2>1, SentDevice DEF Master!ReadData, Master!Becomes, MasterInv
  <1>4. dev.mem = before
    BY <1>1, NothingWritten DEF MasterInv, Master!TypeOK, MemSoFar, Took
  <1>5. /\ before[call.off + i2cI] \in Master!Value
        /\ buff' = Append(buff, before[call.off + i2cI])
    BY <1>1, <1>2, <1>4 DEF Master!ReadData, Master!Received, MasterInv, Master!TypeOK
  <1>6. /\ buff' \in Seq(Master!Value) /\ Len(buff') = i2cI + 1
        /\ buff' = Master!Abstract!Bytes(before, call.off, i2cI + 1)
    <2>1. buff \in Seq(Master!Value) /\ Len(buff) = i2cI
      BY <1>1 DEF MasterInv, Master!TypeOK, BuffSoFar, Got
    <2>2. buff = Master!Abstract!Bytes(before, call.off, i2cI)
      BY <1>1 DEF MasterInv, BuffSoFar, Got
    <2>3. i2cI \in Nat /\ call.off \in Master!Register /\ before \in [Master!Register -> Master!Value]
      BY <1>2 DEF MasterInv, Master!TypeOK
    <2>4. buff' = Master!Abstract!Bytes(before, call.off, i2cI + 1)
      BY <1>2, <1>5, <2>2, <2>3, OneMoreRead
    <2>5. buff' \in Seq(Master!Value) /\ Len(buff') = Len(buff) + 1
      BY <1>5, <2>1, AppendProperties
    <2>6. QED
      BY <2>1, <2>4, <2>5
  <1>7. /\ Master!LastByte => i2cPc' = "idle" /\ result' = "OK" /\ held' = FALSE
        /\ ~Master!LastByte => /\ i2cPc' = IF call.op = "random" THEN "address" ELSE "data"
                        /\ result' = result /\ held' = held
    BY DEF Master!ReadData, Master!Return
  <1>8. Master!TypeOK'
    <2>1. i2cI' < call.len \/ i2cPc' = "idle"
      BY <1>2, <1>7
    <2>2. /\ i2cPc' \in {"idle", "address", "data"} /\ result' \in {"none", "OK", "FAIL"}
          /\ held' \in BOOLEAN
      BY <1>1, <1>7
    <2>3. i2cI' \in 0 .. 2 /\ Len(buff') <= i2cI'
      BY <1>2, <1>6
    <2>4. QED
      BY <1>1, <1>3, <1>5, <1>6, <2>1, <2>2, <2>3 DEF MasterInv, Master!TypeOK
  <1>9. PointsAtNext'
    <2>1. ASSUME ~Master!LastByte PROVE dev'.ptr = call.off + i2cI'
      <3>1. call.off + i2cI' = dev.ptr + 1 /\ dev.ptr + 1 \in Master!Register
        BY <1>2, <2>1 DEF MasterInv, Master!TypeOK, Master!Register, Master!I2cMasterAssumption
      <3>2. QED
        BY <1>3, <3>1, PointerMoves DEF MasterInv
    <2>2. QED
      BY <1>1, <1>7, <2>1 DEF PointsAtNext
  <1>10. /\ PhaseFits' /\ DeviceFits' /\ Master!LineIsReleased' /\ Master!HeldOnlyAfterRefusal' /\ CallInside'
    BY <1>1, <1>2, <1>3, <1>7
       DEF Master!Acknowledges, MasterInv, PhaseFits, DeviceFits, Master!LineIsReleased, Master!HeldOnlyAfterRefusal, CallInside
  <1>11. MemSoFar' /\ BuffSoFar'
    BY <1>1, <1>2, <1>3, <1>6 DEF MasterInv, MemSoFar, Took, BuffSoFar, Got
  <1>12. CallKept
    <2>1. CASE Master!LastByte
      <3>1. Master!Abstract!ReadOk
        BY <1>1, <1>3, <1>4, <1>6, <1>7, <2>1
           DEF Master!Abstract!ReadOk, Master!Called, Master!LastByte
      <3>2. QED
        BY <3>1 DEF CallKept
    <2>2. CASE ~Master!LastByte
      BY <1>1, <1>7, <2>2 DEF CallKept, Master!Called
    <2>3. QED
      BY <2>1, <2>2
  <1>13. QED
    BY <1>8, <1>9, <1>10, <1>11, <1>12 DEF MasterInv

-----------------------------------------------------------------------------
(* The driver once it has not waited for a byte *)

LEMMA AstrayDevice ==
    ASSUME Master!TypeOK, dev' \in Master!Astray
    PROVE  dev' \in [mode : Master!Mode, ptr : Master!Register, mem : [Master!Register -> Master!Value]]
  <1> DEFINE M == [Master!Register -> Master!Value]
             W == {dev.mem} \cup {[dev.mem EXCEPT ![r] = Master!New] : r \in Master!Register}
  <1>1. dev.ptr \in Master!Register /\ dev.mem \in M
    BY DEF Master!TypeOK
  <1>2. W \subseteq M
    BY <1>1 DEF Master!Value
  <1>3. dev' \in [mode : Master!Mode, ptr : {dev.ptr}, mem : W]
    BY DEF Master!Astray
  <1> HIDE DEF M, W
  <1>4. \A x \in [mode : Master!Mode, ptr : {dev.ptr}, mem : W] :
            /\ x = [mode |-> x.mode, ptr |-> x.ptr, mem |-> x.mem]
            /\ x.mode \in Master!Mode /\ x.ptr = dev.ptr /\ x.mem \in W
    OBVIOUS
  <1>5. dev' = [mode |-> dev'.mode, ptr |-> dev'.ptr, mem |-> dev'.mem]
    BY <1>3, <1>4, Zenon
  <1>6. dev'.mode \in Master!Mode /\ dev'.ptr \in Master!Register /\ dev'.mem \in M
    BY <1>1, <1>2, <1>3, <1>4, Zenon
  <1> QED BY <1>5, <1>6 DEF M

\* The call is over: nothing is promised of it.
LEMMA LateEnds ==
    ASSUME Master!I2cMasterAssumption, MasterInv, i2cPc # "idle", late' = TRUE, tip' \in BOOLEAN,
           dev' \in Master!Astray, i2cPc' = "idle", result' \in {"OK", "FAIL"}, held' \in BOOLEAN,
           held' => call.op \in {"block", "word"} /\ result' = "FAIL",
           buff' \in Seq(Master!Value), Len(buff') \in {0, call.len}, Len(buff') <= i2cI',
           i2cI' \in 0 .. 2, UNCHANGED <<call, before, calls>>
    PROVE  MasterInv' /\ CallKept
  <1>1. dev' \in [mode : Master!Mode, ptr : Master!Register, mem : [Master!Register -> Master!Value]]
    BY AstrayDevice DEF MasterInv
  <1>2. Master!TypeOK'
    BY <1>1 DEF MasterInv, Master!TypeOK
  <1>3. MasterInv'
    BY <1>2 DEF MasterInv, CallInside, PhaseFits, DeviceFits, Master!LineIsReleased,
                Master!HeldOnlyAfterRefusal, PointsAtNext, MemSoFar, BuffSoFar
  <1>4. buff' \in {<<>>} \cup [1 .. call.len -> Master!Value]
    <2>1. CASE Len(buff') = 0
      BY <2>1, EmptySeq
    <2>2. CASE Len(buff') = call.len
      BY <2>2, LenProperties
    <2> QED BY <2>1, <2>2
  <1>5. Master!Abstract!Late
    BY <1>1, <1>4 DEF Master!Abstract!Late, Master!Abstract!Value, Master!Value, Master!Called, MasterInv, PhaseFits
  <1> QED BY <1>3, <1>5 DEF CallKept

\* The call goes on: its caller sees nothing of it.
LEMMA LateGoesOn ==
    ASSUME Master!I2cMasterAssumption, MasterInv, i2cPc # "idle", late' = TRUE, tip' \in BOOLEAN,
           dev' \in Master!Astray, i2cPc' \in {"address", "offset", "restart", "data"},
           held' \in BOOLEAN, i2cPc' \in {"offset", "restart", "data"} => held',
           i2cPc' = "restart" => call.op # "write",
           i2cPc' \in {"address", "offset", "restart"} /\ i2cI' > 0 => call.op = "random",
           buff' \in Seq(Master!Value), Len(buff') = Got',
           i2cI' \in 0 .. 2, i2cI' < call.len, UNCHANGED <<call, result, before, calls>>
    PROVE  MasterInv' /\ CallKept
  <1>1. dev' \in [mode : Master!Mode, ptr : Master!Register, mem : [Master!Register -> Master!Value]]
    BY AstrayDevice DEF MasterInv
  <1>2. Len(buff') <= i2cI'
    BY DEF Got
  <1>3. Master!TypeOK'
    BY <1>1, <1>2 DEF MasterInv, Master!TypeOK
  <1>4. MasterInv'
    BY <1>3 DEF MasterInv, CallInside, PhaseFits, DeviceFits, Master!LineIsReleased,
                Master!HeldOnlyAfterRefusal, PointsAtNext, MemSoFar, BuffSoFar
  <1>5. CallKept
    BY DEF CallKept, Master!Called
  <1> QED BY <1>4, <1>5

LEMMA LateRefused ==
    ASSUME Master!I2cMasterAssumption, MasterInv, i2cPc # "idle", i2cPc = "data" => call.op = "write",
           late' = TRUE, tip' \in BOOLEAN, dev' \in Master!Astray, Master!Refused,
           UNCHANGED <<call, i2cI, before, calls>>
    PROVE  MasterInv' /\ CallKept
  <1>1. /\ i2cPc' = "idle" /\ buff' = <<>> /\ result' \in {"OK", "FAIL"}
        /\ held' \in BOOLEAN
        /\ held' => call.op \in {"block", "word"} /\ result' = "FAIL"
    BY DEF Master!Refused, Master!Return, MasterInv, Master!TypeOK, Master!Op
  <1>2. buff' \in Seq(Master!Value) /\ Len(buff') = 0
    BY <1>1
  <1>3. i2cI' \in 0 .. 2
    BY DEF MasterInv, Master!TypeOK
  <1> QED BY <1>1, <1>2, <1>3, LateEnds

LEMMA LateRead ==
    ASSUME Master!I2cMasterAssumption, MasterInv, Master!ReadData, late' = TRUE
    PROVE  MasterInv' /\ CallKept
  <1>1. /\ i2cPc = "data" /\ call.op \in {"random", "block", "word"} /\ held = TRUE
        /\ tip' \in BOOLEAN /\ dev' \in Master!Astray /\ i2cI' = i2cI + 1
        /\ UNCHANGED <<call, before, calls>>
    BY TipType DEF Master!ReadData, Master!Becomes, MasterInv, Master!TypeOK, Master!Op, PhaseFits
  <1>2. i2cI \in 0 .. 1 /\ i2cI < call.len /\ call.len \in 1 .. 2 /\ buff \in Seq(Master!Value)
    BY <1>1 DEF MasterInv, Master!TypeOK
  <1>3. Len(buff) = i2cI
    BY <1>1 DEF MasterInv, BuffSoFar, Got
  <1>4. PICK byte \in Master!Value : buff' = Append(buff, byte)
    BY DEF Master!ReadData, Master!Received
  <1>5. buff' \in Seq(Master!Value) /\ Len(buff') = i2cI'
    BY <1>1, <1>2, <1>3, <1>4
  <1>6. CASE Master!LastByte
    <2>1. i2cPc' = "idle" /\ result' = "OK" /\ held' = FALSE /\ i2cI' = call.len
      BY <1>1, <1>6 DEF Master!ReadData, Master!Return, Master!LastByte
    <2>2. i2cI' \in 0 .. 2 /\ Len(buff') \in {0, call.len} /\ Len(buff') <= i2cI'
      BY <1>1, <1>2, <1>5, <2>1
    <2> QED BY <1>1, <1>5, <2>1, <2>2, LateEnds
  <1>7. CASE ~Master!LastByte
    <2>1. i2cPc' = (IF call.op = "random" THEN "address" ELSE "data") /\ result' = result /\ held' = TRUE
      BY <1>1, <1>7 DEF Master!ReadData
    <2>2. i2cI' < call.len /\ i2cI' \in 0 .. 2
      BY <1>1, <1>2, <1>7 DEF Master!LastByte
    <2>3. Got' = i2cI'
      BY <1>1 DEF Got
    <2>4. /\ i2cPc' \in {"address", "offset", "restart", "data"} /\ i2cPc' # "restart"
          /\ i2cPc' \in {"address", "offset", "restart"} => call.op = "random"
      BY <2>1
    <2> QED BY <1>1, <1>5, <2>1, <2>2, <2>3, <2>4, LateGoesOn
  <1> QED BY <1>6, <1>7

\* The address or the offset was sent and the driver goes on.
LEMMA LateTaken ==
    ASSUME Master!I2cMasterAssumption, MasterInv, late' = TRUE, tip' \in BOOLEAN, dev' \in Master!Astray,
           held' = TRUE,
           \/ i2cPc = "address" /\ i2cPc' = "offset"
           \/ i2cPc = "restart" /\ i2cPc' = "data"
           \/ i2cPc = "offset" /\ i2cPc' = IF call.op = "write" THEN "data" ELSE "restart",
           UNCHANGED <<call, i2cI, buff, result, before, calls>>
    PROVE  MasterInv' /\ CallKept
  <1>1. /\ i2cPc \in {"address", "offset", "restart"}
        /\ i2cPc' \in {"address", "offset", "restart", "data"}
        /\ i2cPc' = "restart" => call.op # "write"
    OBVIOUS
  <1>2. /\ i2cI > 0 => call.op = "random"
        /\ i2cI' \in 0 .. 2 /\ i2cI' < call.len /\ buff' \in Seq(Master!Value) /\ Len(buff') = Got'
    BY <1>1 DEF MasterInv, Master!TypeOK, PhaseFits, BuffSoFar, Got
  <1> QED BY <1>1, <1>2, LateGoesOn

LEMMA LateStored ==
    ASSUME Master!I2cMasterAssumption, MasterInv, i2cPc = "data", call.op = "write",
           late' = TRUE, tip' \in BOOLEAN, dev' \in Master!Astray, i2cI' = i2cI + 1,
           IF Master!LastByte THEN Master!Return("OK", TRUE) ELSE UNCHANGED <<i2cPc, result, held>>,
           UNCHANGED <<buff, call, before, calls>>
    PROVE  MasterInv' /\ CallKept
  <1>1. /\ i2cI \in 0 .. 1 /\ i2cI < call.len /\ call.len \in 1 .. 2 /\ held = TRUE
        /\ buff' \in Seq(Master!Value) /\ Len(buff') = 0 /\ Got' = 0
    BY DEF MasterInv, Master!TypeOK, PhaseFits, BuffSoFar, Got
  <1>2. CASE Master!LastByte
    <2>1. i2cPc' = "idle" /\ result' = "OK" /\ held' = FALSE
      BY <1>2 DEF Master!Return
    <2>2. i2cI' \in 0 .. 2 /\ Len(buff') \in {0, call.len} /\ Len(buff') <= i2cI'
      BY <1>1
    <2> QED BY <1>1, <2>1, <2>2, LateEnds
  <1>3. CASE ~Master!LastByte
    <2>1. i2cPc' = "data" /\ result' = result /\ held' = TRUE /\ i2cI' < call.len
      BY <1>1, <1>3 DEF Master!LastByte
    <2> QED BY <1>1, <2>1, LateGoesOn
  <1> QED BY <1>2, <1>3

\* An address is sent.
LEMMA AddressStep ==
    ASSUME Master!I2cMasterAssumption, MasterInv, NEW m, NEW n, Master!Address(m, n),
           \/ i2cPc = "address" /\ m = "listening" /\ n = "offset"
           \/ i2cPc = "restart" /\ m = "sending" /\ n = "data"
    PROVE  MasterInv' /\ CallKept
  <1>1. /\ UNCHANGED <<call, i2cI, before, calls>> /\ tip' \in BOOLEAN
        /\ late' = TRUE \/ (~late /\ late' = FALSE)
    BY TipType DEF Master!Address
  <1>2. CASE Master!Refused /\ Master!Becomes(Master!Addressed("deaf"))
    BY <1>1, <1>2, RefusedStep, LateRefused DEF Master!Becomes
  <1>3. CASE /\ Master!Becomes(Master!Addressed(m)) /\ held' = TRUE /\ i2cPc' = n
             /\ UNCHANGED <<result, buff>>
    BY <1>1, <1>3, TakenStep, LateTaken DEF Master!Becomes
  <1> QED BY <1>2, <1>3 DEF Master!Address

LEMMA MasterNext ==
    ASSUME Master!I2cMasterAssumption, MasterInv, [Master!Next]_(Master!vars)
    PROVE  MasterInv' /\ CallKept
  <1>0. ASSUME Master!checKTip
        PROVE  tip' \in BOOLEAN /\ (late' = TRUE \/ (~late /\ late' = FALSE))
    BY <1>0, TipType
  <1>1. CASE Master!sls_call
    BY <1>1, CallStep
  <1>2. CASE Master!WriteAddress \/ Master!ReadAddress
    <2>1. \/ i2cPc = "address" /\ Master!Address("listening", "offset")
          \/ i2cPc = "restart" /\ Master!Address("sending", "data")
      BY <1>2 DEF Master!WriteAddress, Master!ReadAddress
    <2> QED BY <2>1, AddressStep
  <1>3. CASE Master!WriteOffset
    <2>1. /\ UNCHANGED <<call, i2cI, before, calls>> /\ tip' \in BOOLEAN /\ i2cPc = "offset"
          /\ late' = TRUE \/ (~late /\ late' = FALSE)
      BY <1>0, <1>3 DEF Master!WriteOffset
    <2>2. CASE Master!Refused /\ Master!Becomes(Master!Addressed("deaf"))
      BY <2>1, <2>2, RefusedStep, LateRefused DEF Master!Becomes
    <2>3. CASE /\ Master!Becomes(Master!Pointed(Master!Offset))
               /\ i2cPc' = IF call.op = "write" THEN "data" ELSE "restart"
               /\ UNCHANGED <<result, buff, held>>
      <3>1. held' = TRUE
        BY <2>1, <2>3 DEF MasterInv, Master!TypeOK, PhaseFits
      <3>2. QED
        BY <2>1, <2>3, <3>1, TakenStep, LateTaken DEF Master!Offset, Master!Becomes
    <2>4. QED
      BY <1>3, <2>2, <2>3 DEF Master!WriteOffset
  <1>4. CASE Master!WriteData
    <2>1. /\ UNCHANGED <<call, before, calls>> /\ tip' \in BOOLEAN
          /\ i2cPc = "data" /\ call.op = "write"
          /\ late' = TRUE \/ (~late /\ late' = FALSE)
      BY <1>0, <1>4 DEF Master!WriteData
    <2>2. CASE Master!Refused /\ Master!Becomes(Master!Addressed("deaf")) /\ UNCHANGED i2cI
      BY <2>1, <2>2, RefusedStep, LateRefused DEF Master!Becomes
    <2>3. CASE /\ Master!Becomes(Master!Stored) /\ i2cI' = i2cI + 1 /\ UNCHANGED buff
               /\ IF Master!LastByte THEN Master!Return("OK", TRUE) ELSE UNCHANGED <<i2cPc, result, held>>
      BY <2>1, <2>3, StoredStep, LateStored DEF Master!Becomes
    <2>4. QED
      BY <1>4, <2>2, <2>3 DEF Master!WriteData
  <1>5. CASE Master!ReadData
    <2>1. late' = TRUE \/ (~late /\ late' = FALSE)
      BY <1>0, <1>5 DEF Master!ReadData
    <2> QED BY <1>5, <2>1, ReadStep, LateRead
  <1>6. CASE UNCHANGED Master!vars
    <2>1. MasterInv'
      BY <1>6 DEF Master!vars, MasterInv, Master!TypeOK, CallInside, PhaseFits, DeviceFits, Master!LineIsReleased, Master!HeldOnlyAfterRefusal,
                  PointsAtNext, MemSoFar, Took, BuffSoFar, Got
    <2>2. CallKept
      BY <1>6 DEF Master!vars, CallKept, Master!Called
    <2>3. QED
      BY <2>1, <2>2
  <1>7. QED
    BY <1>1, <1>2, <1>3, <1>4, <1>5, <1>6 DEF Master!Next

-----------------------------------------------------------------------------
(* The multiplexers *)

LEMMA MuxSizes ==
    ASSUME Mux!I2cMuxAssumption
    PROVE  /\ Buses \subseteq {"bus4", "rem_bus4"}
           /\ Mux!Outcomes \subseteq BOOLEAN
  BY DEF Mux!I2cMuxAssumption, Mux!Outcomes

LEMMA MuxInit ==
    ASSUME Mux!I2cMuxAssumption
    PROVE  Mux!Init => Mux!TypeOK
  <1>1. SUFFICES ASSUME Mux!Init PROVE Mux!TypeOK
    OBVIOUS
  <1>2. taken \in [Buses -> BOOLEAN]
    BY <1>1, MuxSizes DEF Mux!Init
  <1> QED BY <1>1, <1>2, Zenon DEF Mux!Init, Mux!TypeOK

\* The buses of the modules, and the channels on the one that is multiplexed.
LEMMA BusOfModule ==
    ASSUME NEW i \in 0 .. 17
    PROVE  /\ Mux!BusOf[i] \in {"rem_ln0", "rem_ln1", "rem_bus4", "unset"}
           /\ Mux!BusOf[i] = "rem_bus4" => i \in Mux!MuxChannels
  BY DEF Mux!BusOf, Mux!MuxChannels, Mux!SFP_SI5338, Mux!SFP_ONLY

LEMMA ChannelsAre ==
    /\ Mux!SFP_SI5338 \subseteq Mux!MuxChannels
    /\ Mux!MuxChannels \cup Mux!MCP9808 = 0 .. 9
    /\ Mux!MuxChannels \cap Mux!MCP9808 = {}
    /\ Mux!CHANNEL_NONE = -1 /\ Mux!CHANNEL_NONE \notin 0 .. 9
    /\ -1 .. 9 = Mux!MuxChannels \cup Mux!MCP9808 \cup {Mux!CHANNEL_NONE}
  BY DEF Mux!MuxChannels, Mux!MCP9808, Mux!SFP_SI5338, Mux!SFP_ONLY, Mux!CHANNEL_NONE

\* What the last selection of a channel leaves.
LEMMA ChannelSelected ==
    ASSUME Mux!I2cMuxAssumption, Mux!TypeOK, NEW b \in Buses,
           NEW ch \in Mux!MuxChannels \cup Mux!MCP9808,
           Mux!select_channel_on_bus4(b, ch)
    PROVE  /\ current' = ch
           /\ mux' \in [Buses -> Mux!MuxChannels \cup {Mux!CHANNEL_NONE}]
           /\ taken' \in [Buses -> BOOLEAN]
  <1> DEFINE N == Mux!CHANNEL_NONE
             M == Mux!MuxChannels
  <1>1. CASE current = ch
    <2>1. UNCHANGED <<current, mux, taken>>
      BY <1>1, Zenon DEF Mux!select_channel_on_bus4
    <2> QED BY <1>1, <2>1, Zenon DEF Mux!TypeOK
  <1>2. CASE current # ch
    <2>1. PICK ms \in Mux!MuxesOf(b), off \in Mux!Outcomes, on \in Mux!Outcomes :
              mux' = Mux!Passes(ms, ch, off, on) /\ taken' = Mux!LastTaken(ms, ch, off, on)
      BY <1>2, Zenon DEF Mux!select_channel_on_bus4
    <2>2. current' = ch
      BY <1>2, Zenon DEF Mux!select_channel_on_bus4
    <2>3. off \in BOOLEAN /\ on \in BOOLEAN
      BY MuxSizes, Zenon
    <2>4. mux \in [Buses -> M \cup {N}] /\ taken \in [Buses -> BOOLEAN]
      BY Zenon DEF Mux!TypeOK
    <2>5. ASSUME NEW c \in Buses
          PROVE  mux'[c] \in M \cup {N} /\ taken'[c] \in BOOLEAN
      <3>1. mux'[c] = CASE c \notin ms -> mux[c]
                        [] c \in ms /\ ch \in M /\ on -> ch
                        [] c \in ms /\ ~(ch \in M /\ on) /\ off /\ current # N -> N
                        [] OTHER -> mux[c]
        BY <2>1 DEF Mux!Passes
      <3>2. taken'[c] = CASE c \in ms /\ ch \in M -> on
                          [] c \in ms /\ ch \notin M /\ current # N -> off
                          [] OTHER -> taken[c]
        BY <2>1 DEF Mux!LastTaken
      <3>3. mux[c] \in M \cup {N} /\ taken[c] \in BOOLEAN
        BY <2>4
      <3>4. CASE c \in ms /\ ch \in M
        BY <2>3, <3>1, <3>2, <3>3, <3>4
      <3>5. CASE c \in ms /\ ch \notin M
        BY <2>3, <3>1, <3>2, <3>3, <3>5
      <3>6. CASE c \notin ms
        BY <3>1, <3>2, <3>3, <3>6
      <3> QED BY <3>4, <3>5, <3>6
    <2>6. /\ mux' \in [Buses -> M \cup {N}]
          /\ taken' \in [Buses -> BOOLEAN]
      <3>1. mux' = [c \in Buses |-> mux'[c]]
        BY <2>1 DEF Mux!Passes
      <3>2. taken' = [c \in Buses |-> taken'[c]]
        BY <2>1 DEF Mux!LastTaken
      <3> QED BY <2>5, <3>1, <3>2, Zenon
    <2> QED BY <2>2, <2>6
  <1> QED BY <1>1, <1>2

\* A driver selects the channel of its device.
LEMMA MuxAccess ==
    ASSUME Mux!I2cMuxAssumption, Mux!TypeOK, NEW b \in Buses,
           NEW ch \in Mux!MuxChannels \cup Mux!MCP9808,
           Mux!select_i2c_channel_on_bus(b, ch)
    PROVE  Mux!TypeOK'
  <1>1. /\ Mux!select_channel_on_bus4(b, ch)
        /\ access' = [bus |-> b, channel |-> ch, wrote |-> current # ch]
    BY Zenon DEF Mux!select_i2c_channel_on_bus
  <1>2. /\ current' = ch
        /\ mux' \in [Buses -> Mux!MuxChannels \cup {Mux!CHANNEL_NONE}]
        /\ taken' \in [Buses -> BOOLEAN]
    BY <1>1, ChannelSelected
  <1>3. ch \in -1 .. 9 /\ (current # ch) \in BOOLEAN
    BY ChannelsAre, Zenon
  <1>4. access' \in [bus : Buses \cup {"rem_ln0", "rem_ln1", "unset"}, channel : -1 .. 9, wrote : BOOLEAN]
    BY <1>1, <1>3, Zenon
  <1> QED BY <1>2, <1>4, Zenon DEF Mux!TypeOK

LEMMA MuxNext ==
    ASSUME Mux!I2cMuxAssumption, Mux!TypeOK, Mux!Next
    PROVE  Mux!TypeOK'
  <1>1. ASSUME NEW b \in Buses, Mux!AccessDevice(b)
        PROVE  Mux!TypeOK'
    <2>1. PICK ch \in Mux!SFP_SI5338 \cup Mux!MCP9808 : Mux!select_i2c_channel_on_bus(b, ch)
      BY <1>1, Zenon DEF Mux!AccessDevice
    <2>2. ch \in Mux!MuxChannels \cup Mux!MCP9808
      BY ChannelsAre, Zenon
    <2> QED BY <2>1, <2>2, MuxAccess
  <1>2. ASSUME NEW i \in 0 .. 17, Mux!AccessModule(i)
        PROVE  Mux!TypeOK'
    <2>1. CASE Mux!BusOf[i] \in Buses
      <3>1. Mux!BusOf[i] = "rem_bus4"
        BY <2>1, MuxSizes, BusOfModule
      <3>2. Mux!select_i2c_channel_on_bus(Mux!BusOf[i], i)
        BY <1>2, <3>1, Zenon DEF Mux!AccessModule
      <3>3. i \in Mux!MuxChannels \cup Mux!MCP9808
        BY <3>1, BusOfModule, Zenon
      <3> QED BY <2>1, <3>2, <3>3, MuxAccess, Zenon
    <2>2. CASE Mux!BusOf[i] \notin Buses
      <3>1. /\ Mux!BusOf[i] \notin {"bus4", "rem_bus4"}
            /\ access' = [bus |-> Mux!BusOf[i], channel |-> Mux!CHANNEL_NONE, wrote |-> FALSE]
            /\ UNCHANGED <<current, mux, taken>>
        BY <1>2, <2>2, Zenon DEF Mux!AccessModule
      <3>2. /\ Mux!BusOf[i] \in Buses \cup {"rem_ln0", "rem_ln1", "unset"}
            /\ Mux!CHANNEL_NONE \in -1 .. 9
        BY <3>1, BusOfModule, ChannelsAre
      <3>3. access' \in [bus : Buses \cup {"rem_ln0", "rem_ln1", "unset"}, channel : -1 .. 9, wrote : BOOLEAN]
        BY <3>1, <3>2, Zenon
      <3> QED BY <3>1, <3>3, Zenon DEF Mux!TypeOK
    <2> QED BY <2>1, <2>2
  <1> QED BY <1>1, <1>2, Zenon DEF Mux!Next

-----------------------------------------------------------------------------
(* The clock generators *)

Place(c) == IF c = "clients" THEN 1 ELSE IF c = "line" THEN 2 ELSE 3

\* The register was written, or it was refused for good.
PassedBy(c, r) ==
    \/ Generator!Started
    \/ Place(c) < chip
    \/ Place(c) = chip /\ genPc \in {"config", "retry"} /\ r < k

WrittenOrExcused ==
    \A c \in Generator!Chip, r \in Generator!Reg :
        PassedBy(c, r) /\ mem[c][r] = "reset" => <<c, r>> \in excused

GeneratorInv == Generator!TypeOK /\ WrittenOrExcused /\ Generator!LineStepsAgain

LEMMA GeneratorSizes ==
    ASSUME Generator!ClockGenAssumption
    PROVE  /\ Outputs \in Nat \ {0} /\ Served \in Nat \ {0} /\ MaxRefusals \in Nat
           /\ 0 \in Generator!Reg /\ Generator!Last \in Generator!Reg
           /\ Generator!Reg = 0 .. 2 * Outputs - 1 /\ Generator!Last = 2 * Outputs - 1
  BY DEF Generator!ClockGenAssumption, Generator!Reg, Generator!Last

LEMMA OrderIs ==
    ASSUME NEW n \in 1 .. 3
    PROVE  /\ Generator!Order[n] \in Generator!Chip
           /\ \A c \in Generator!Chip : Place(c) \in 1 .. 3 /\ (Place(c) = n <=> c = Generator!Order[n])
           /\ Generator!Order[n] = "attenuator" <=> n = 3
  BY DEF Generator!Order, Generator!Chip, Place

LEMMA GeneratorInit ==
    ASSUME Generator!ClockGenAssumption
    PROVE  Generator!Init => GeneratorInv
  <1>1. SUFFICES ASSUME Generator!Init PROVE GeneratorInv
    OBVIOUS
  <1>2. mem \in [Generator!Chip -> [Generator!Reg -> Generator!Value]]
    BY <1>1 DEF Generator!Init, Generator!Value
  <1>3. Generator!TypeOK
    BY <1>1, <1>2, GeneratorSizes DEF Generator!Init, Generator!TypeOK
  <1>4. ASSUME NEW c \in Generator!Chip, NEW r \in Generator!Reg
        PROVE  ~PassedBy(c, r)
    BY <1>1 DEF Generator!Init, Generator!Chip, PassedBy, Place, Generator!Started
  <1>5. Generator!LineStepsAgain
    BY <1>1 DEF Generator!Init, Generator!LineStepsAgain
  <1> QED BY <1>3, <1>4, <1>5 DEF GeneratorInv, WrittenOrExcused

LEMMA OutcomeIs ==
    ASSUME NEW o \in Generator!Outcome
    PROVE  /\ o.taken \in {0, 1} /\ o.result \in {"OK", "FAIL"}
           /\ o.result = "FAIL" => o.taken = 0
  BY DEF Generator!Outcome, Generator!I2c!Outcomes

\* One register is written, or stays as it is and may be excused.
LEMMA WriteIs ==
    ASSUME Generator!ClockGenAssumption, Generator!TypeOK,
           NEW c \in Generator!Chip, NEW r \in Generator!Reg,
           NEW v \in Generator!Value, v # "reset",
           NEW o \in Generator!Outcome, Generator!Wr(c, r, v, o)
    PROVE  /\ mem' \in [Generator!Chip -> [Generator!Reg -> Generator!Value]]
           /\ excused' \subseteq Generator!Chip \X Generator!Reg
           /\ refusals' \in 0 .. MaxRefusals
           /\ \A d \in Generator!Chip, q \in Generator!Reg :
                 <<d, q>> # <<c, r>> => mem'[d][q] = mem[d][q] /\ (<<d, q>> \in excused => <<d, q>> \in excused')
           /\ mem'[c][r] \in {v, mem[c][r]}
           /\ Generator!Excused(c, r, o) /\ mem'[c][r] # v => <<c, r>> \in excused'
  <1>1. /\ o.taken \in {0, 1}
        /\ mem \in [Generator!Chip -> [Generator!Reg -> Generator!Value]]
        /\ excused \subseteq Generator!Chip \X Generator!Reg
        /\ refusals \in 0 .. MaxRefusals /\ MaxRefusals \in Nat
    BY OutcomeIs, GeneratorSizes DEF Generator!TypeOK
  <1>2. refusals' \in 0 .. MaxRefusals
    <2>1. /\ refusals' = IF o.taken = 1 THEN refusals ELSE refusals + 1
          /\ refusals' <= MaxRefusals
      BY DEF Generator!Wr
    <2>2. refusals \in Nat /\ refusals + 1 \in Nat
      BY <1>1
    <2> QED BY <1>1, <2>1, <2>2
  <1>3. CASE o.taken = 1
    <2>1. mem' = [mem EXCEPT ![c][r] = v] /\ excused' = excused \ {<<c, r>>}
      BY <1>3 DEF Generator!Wr
    <2>2. mem' \in [Generator!Chip -> [Generator!Reg -> Generator!Value]]
      BY <1>1, <2>1
    <2>3. mem'[c][r] = v
      BY <1>1, <2>1
    <2>4. \A d \in Generator!Chip, q \in Generator!Reg :
              <<d, q>> # <<c, r>> => mem'[d][q] = mem[d][q]
      BY <1>1, <2>1
    <2> QED BY <1>1, <1>2, <2>1, <2>2, <2>3, <2>4
  <1>4. CASE o.taken = 0
    <2>1. mem' = mem
      BY <1>4 DEF Generator!Wr
    <2>2. excused' = IF Generator!Excused(c, r, o) THEN excused \cup {<<c, r>>} ELSE excused
      BY <1>4 DEF Generator!Wr
    <2> QED BY <1>1, <1>2, <2>1, <2>2
  <1> QED BY <1>1, <1>3, <1>4

\* Writing a register that was passed by before leaves it written or excused.
LEMMA WrittenAfter ==
    ASSUME Generator!ClockGenAssumption, GeneratorInv,
           NEW c \in Generator!Chip, NEW r \in Generator!Reg,
           NEW v \in Generator!Value, v # "reset",
           NEW o \in Generator!Outcome, Generator!Wr(c, r, v, o), Generator!Excused(c, r, o),
           \A d \in Generator!Chip, q \in Generator!Reg :
               PassedBy(d, q)' => PassedBy(d, q) \/ <<d, q>> = <<c, r>>
    PROVE  WrittenOrExcused'
  <1>1. ASSUME NEW d \in Generator!Chip, NEW q \in Generator!Reg,
               PassedBy(d, q)', mem'[d][q] = "reset"
        PROVE  <<d, q>> \in excused'
    <2>1. CASE <<d, q>> = <<c, r>>
      BY <1>1, <2>1, WriteIs DEF GeneratorInv
    <2>2. CASE <<d, q>> # <<c, r>>
      <3>1. mem'[d][q] = mem[d][q] /\ (<<d, q>> \in excused => <<d, q>> \in excused')
        BY <2>2, WriteIs, Zenon DEF GeneratorInv
      <3>2. PassedBy(d, q)
        BY <1>1, <2>2, Zenon
      <3> QED BY <1>1, <3>1, <3>2, Zenon DEF GeneratorInv, WrittenOrExcused
    <2> QED BY <2>1, <2>2
  <1> QED BY <1>1, Zenon DEF WrittenOrExcused

\* The configuration goes on to the next register, to the next chip, or to its end.
LEMMA ConfigAdvances ==
    ASSUME Generator!ClockGenAssumption, GeneratorInv, genPc \in {"config", "retry"},
           NEW o \in Generator!Outcome,
           Generator!Wr(Generator!Order[chip], k, "configured", o),
           Generator!Excused(Generator!Order[chip], k, o),
           Generator!Advance
    PROVE  GeneratorInv'
  <1>1. /\ chip \in 1 .. 3 /\ k \in Nat /\ k < 2 * Outputs /\ k \in Generator!Reg
        /\ Generator!Order[chip] \in Generator!Chip
        /\ Outputs \in Nat \ {0} /\ Generator!Last = 2 * Outputs - 1
    BY OrderIs, GeneratorSizes DEF GeneratorInv, Generator!TypeOK
  <1>2. /\ k' = IF k = Generator!Last THEN 0 ELSE k + 1
        /\ chip' = IF k = Generator!Last /\ chip < 3 THEN chip + 1 ELSE chip
        /\ genPc' = IF k # Generator!Last THEN "config"
                    ELSE IF chip < 3 THEN "reset" ELSE "disable"
    BY <1>1 DEF Generator!Advance, Generator!LastRegister
  <1>3. "configured" \in Generator!Value /\ "configured" # "reset"
    BY DEF Generator!Value
  <1>4. Generator!TypeOK'
    <2>1. k' \in Nat /\ k' < 2 * Outputs /\ chip' \in 1 .. 3
      BY <1>1, <1>2
    <2>2. genPc' \in {"config", "reset", "disable"}
      BY <1>2
    <2> QED BY <1>1, <1>3, <2>1, <2>2, WriteIs DEF GeneratorInv, Generator!TypeOK
  <1>5. ASSUME NEW d \in Generator!Chip, NEW q \in Generator!Reg, PassedBy(d, q)'
        PROVE  PassedBy(d, q) \/ <<d, q>> = <<Generator!Order[chip], k>>
    <2>1. /\ Place(d) \in 1 .. 3 /\ (Place(d) = chip => d = Generator!Order[chip])
          /\ q \in Nat /\ q <= Generator!Last /\ genPc \notin {"disable", "enable", "adjust"}
      BY <1>1, OrderIs, GeneratorSizes
    <2>2. Place(d) < chip \/ (Place(d) = chip /\ q <= k)
      <3>1. CASE k # Generator!Last
        BY <1>1, <1>2, <1>5, <2>1, <3>1 DEF PassedBy, Generator!Started
      <3>2. CASE k = Generator!Last /\ chip < 3
        BY <1>1, <1>2, <1>5, <2>1, <3>2 DEF PassedBy, Generator!Started
      <3>3. CASE k = Generator!Last /\ ~(chip < 3)
        BY <1>1, <2>1, <3>3
      <3> QED BY <3>1, <3>2, <3>3
    <2>3. q <= k => q < k \/ q = k
      BY <1>1, <2>1
    <2> QED BY <2>1, <2>2, <2>3, Zenon DEF PassedBy
  <1>6. WrittenOrExcused'
    BY <1>1, <1>3, <1>5, WrittenAfter
  <1>7. Generator!LineStepsAgain'
    BY <1>2 DEF Generator!LineStepsAgain
  <1> QED BY <1>4, <1>6, <1>7 DEF GeneratorInv

\* A write of task_10, when all is configured.
LEMMA ServiceWrites ==
    ASSUME Generator!ClockGenAssumption, GeneratorInv, Generator!Started, Generator!Started',
           NEW c \in Generator!Chip, NEW r \in Generator!Reg,
           NEW v \in Generator!Value, v # "reset",
           NEW o \in Generator!Outcome, Generator!Wr(c, r, v, o)
    PROVE  WrittenOrExcused' /\ Generator!Excused(c, r, o)
  <1>1. Generator!Excused(c, r, o)
    BY DEF Generator!Excused, Generator!Started
  <1>2. \A d \in Generator!Chip, q \in Generator!Reg : PassedBy(d, q)
    BY Zenon DEF PassedBy
  <1> QED BY <1>1, <1>2, WrittenAfter, Zenon

LEMMA GeneratorNext ==
    ASSUME Generator!ClockGenAssumption, GeneratorInv, Generator!Next
    PROVE  GeneratorInv'
  <1>1. /\ chip \in 1 .. 3 /\ k \in Nat
        /\ genPc \in {"reset", "config", "retry", "disable", "enable", "adjust"}
        /\ mem \in [Generator!Chip -> [Generator!Reg -> Generator!Value]]
        /\ excused \subseteq Generator!Chip \X Generator!Reg
        /\ refusals \in 0 .. MaxRefusals
    BY DEF GeneratorInv, Generator!TypeOK
  <1>2. "line" \in Generator!Chip /\ "clients" \in Generator!Chip
    BY DEF Generator!Chip
  <1>3. CASE Generator!ipg_si5338_hardreset
    <2>1. /\ genPc = "reset" /\ genPc' = "config" /\ k' = 0 /\ chip' = chip
          /\ excused' = excused
      BY <1>3, Zenon DEF Generator!ipg_si5338_hardreset
    <2>2. refusals' \in 0 .. MaxRefusals
      BY <1>1, <1>3, GeneratorSizes DEF Generator!ipg_si5338_hardreset
    <2>3. \/ mem' = mem
          \/ mem' = [mem EXCEPT ![Generator!Order[chip]] = [r \in Generator!Reg |-> "reset"]]
      BY <1>3, Zenon DEF Generator!ipg_si5338_hardreset
    <2>4. /\ mem' \in [Generator!Chip -> [Generator!Reg -> Generator!Value]]
          /\ \A c \in Generator!Chip : c # Generator!Order[chip] => mem'[c] = mem[c]
      <3>1. [r \in Generator!Reg |-> "reset"] \in [Generator!Reg -> Generator!Value]
        BY DEF Generator!Value
      <3>2. Generator!Order[chip] \in Generator!Chip
        BY <1>1, OrderIs
      <3>3. CASE mem' = mem
        BY <1>1, <3>3
      <3>4. CASE mem' = [mem EXCEPT ![Generator!Order[chip]] = [r \in Generator!Reg |-> "reset"]]
        BY <1>1, <3>1, <3>2, <3>4, OneChanged, Zenon
      <3> QED BY <2>3, <3>3, <3>4
    <2>5. Generator!TypeOK'
      BY <1>1, <2>1, <2>2, <2>4, GeneratorSizes DEF Generator!TypeOK
    <2>6. ASSUME NEW c \in Generator!Chip, NEW r \in Generator!Reg, PassedBy(c, r)'
          PROVE  PassedBy(c, r) /\ c # Generator!Order[chip]
      <3>1. Place(c) < chip
        BY <1>1, <2>1, <2>6, GeneratorSizes DEF PassedBy, Generator!Started
      <3>2. Place(c) # chip
        BY <1>1, <3>1, OrderIs
      <3> QED BY <1>1, <3>1, <3>2, OrderIs DEF PassedBy
    <2>7. WrittenOrExcused'
      BY <2>1, <2>4, <2>6, Zenon DEF GeneratorInv, WrittenOrExcused
    <2>8. Generator!LineStepsAgain'
      BY <2>1 DEF Generator!LineStepsAgain
    <2> QED BY <2>5, <2>7, <2>8 DEF GeneratorInv
  <1>4. CASE Generator!ConfigRegister
    <2>1. PICK o \in Generator!Outcome :
              /\ Generator!Wr(Generator!Order[chip], k, "configured", o)
              /\ IF Generator!Refused(o) /\ Generator!OnceMore(Generator!Order[chip])
                 THEN genPc' = "retry" /\ UNCHANGED <<chip, k>>
                 ELSE Generator!Advance
      BY <1>4, Zenon DEF Generator!ConfigRegister
    <2>2. /\ genPc = "config" /\ k < 2 * Outputs /\ k \in Generator!Reg
          /\ Generator!Order[chip] \in Generator!Chip
      BY <1>1, <1>4, OrderIs, GeneratorSizes DEF Generator!ConfigRegister, GeneratorInv, Generator!TypeOK
    <2>3. "configured" \in Generator!Value /\ "configured" # "reset"
      BY DEF Generator!Value
    <2>4. CASE Generator!Refused(o) /\ Generator!OnceMore(Generator!Order[chip])
      <3>1. genPc' = "retry" /\ chip' = chip /\ k' = k
        BY <2>1, <2>4
      <3>2. Generator!TypeOK'
        <4>1. k' \in Nat /\ k' < 2 * Outputs
          BY <1>1, <2>2, <3>1
        <4> QED BY <1>1, <2>1, <2>2, <2>3, <3>1, <4>1, WriteIs DEF GeneratorInv, Generator!TypeOK
      <3>3. ASSUME NEW d \in Generator!Chip, NEW q \in Generator!Reg,
                   PassedBy(d, q)', mem'[d][q] = "reset"
            PROVE  <<d, q>> \in excused'
        <4>1. PassedBy(d, q) /\ <<d, q>> # <<Generator!Order[chip], k>>
          <5>1. Place(d) \in 1 .. 3 /\ (Place(d) = chip <=> d = Generator!Order[chip])
            BY <1>1, OrderIs
          <5>2. Place(d) < chip \/ (Place(d) = chip /\ q < k)
            BY <3>1, <3>3, Zenon DEF PassedBy, Generator!Started
          <5>3. ~(k < k) /\ ~(chip < chip)
            BY <1>1
          <5> QED BY <2>2, <5>1, <5>2, <5>3, Zenon DEF PassedBy
        <4>2. mem'[d][q] = mem[d][q] /\ (<<d, q>> \in excused => <<d, q>> \in excused')
          BY <2>1, <2>2, <2>3, <4>1, WriteIs, Zenon DEF GeneratorInv
        <4> QED BY <3>3, <4>1, <4>2, Zenon DEF GeneratorInv, WrittenOrExcused
      <3>4. Generator!LineStepsAgain'
        BY <3>1 DEF Generator!LineStepsAgain
      <3>5. WrittenOrExcused'
        BY <3>3, Zenon DEF WrittenOrExcused
      <3> QED BY <3>2, <3>4, <3>5 DEF GeneratorInv
    <2>5. CASE ~(Generator!Refused(o) /\ Generator!OnceMore(Generator!Order[chip]))
      <3>1. Generator!Advance
        BY <2>1, <2>5
      <3>2. k = Generator!Last \/ k < Generator!Last
        BY <2>2, GeneratorSizes
      <3>3. Generator!Excused(Generator!Order[chip], k, o)
        BY <2>5, <3>2, OutcomeIs DEF Generator!Excused, Generator!Refused, Generator!OnceMore
      <3> QED BY <2>1, <2>2, <3>1, <3>3, ConfigAdvances
    <2> QED BY <2>4, <2>5
  <1>5. CASE Generator!RetryRegister
    <2>1. PICK o \in Generator!Outcome : Generator!Wr(Generator!Order[chip], k, "configured", o)
      BY <1>5, Zenon DEF Generator!RetryRegister
    <2>2. genPc = "retry" /\ Generator!Advance
      BY <1>5, Zenon DEF Generator!RetryRegister
    <2>3. Generator!Excused(Generator!Order[chip], k, o)
      BY <2>2 DEF Generator!Excused
    <2> QED BY <2>1, <2>2, <2>3, ConfigAdvances
  <1>6. CASE Generator!Disable
    <2>1. PICK o \in Generator!Outcome : Generator!Wr("line", 0, "stop", o)
      BY <1>6, Zenon DEF Generator!Disable
    <2>2. genPc = "disable" /\ genPc' = "enable" /\ chip' = chip /\ k' = k
      BY <1>6, Zenon DEF Generator!Disable
    <2>3. "stop" \in Generator!Value /\ "stop" # "reset" /\ 0 \in Generator!Reg
      BY GeneratorSizes DEF Generator!Value
    <2>4. k < 2 * Outputs
      BY <2>2 DEF GeneratorInv, Generator!TypeOK
    <2>5. Generator!TypeOK'
      BY <1>1, <1>2, <2>1, <2>2, <2>3, <2>4, WriteIs DEF GeneratorInv, Generator!TypeOK
    <2>6. WrittenOrExcused'
      BY <1>2, <2>1, <2>2, <2>3, ServiceWrites DEF Generator!Started
    <2>7. Generator!LineStepsAgain'
      BY <2>2 DEF Generator!LineStepsAgain
    <2> QED BY <2>5, <2>6, <2>7 DEF GeneratorInv
  <1>7. CASE Generator!Enable
    <2>1. PICK o \in Generator!Outcome : Generator!Wr("line", 0, "run", o)
      BY <1>7, Zenon DEF Generator!Enable, Generator!EnabledOutput
    <2>2. genPc = "enable" /\ genPc' = "adjust" /\ chip' = chip /\ k' = 0
      BY <1>7, Zenon DEF Generator!Enable
    <2>3. "run" \in Generator!Value /\ "run" # "reset" /\ 0 \in Generator!Reg
      BY GeneratorSizes DEF Generator!Value
    <2>4. 0 < Served
      BY GeneratorSizes
    <2>5. Generator!TypeOK'
      BY <1>1, <1>2, <2>1, <2>2, <2>3, <2>4, WriteIs DEF GeneratorInv, Generator!TypeOK
    <2>6. WrittenOrExcused' /\ Generator!Excused("line", 0, o)
      BY <1>2, <2>1, <2>2, <2>3, ServiceWrites DEF Generator!Started
    <2>7. mem'["line"][0] # "run" => <<"line", 0>> \in excused'
      BY <1>2, <2>1, <2>3, <2>6, WriteIs DEF GeneratorInv
    <2>8. Generator!LineStepsAgain'
      BY <2>7 DEF Generator!LineStepsAgain
    <2> QED BY <2>5, <2>6, <2>8 DEF GeneratorInv
  <1>8. CASE Generator!adjust_ppm
    <2>1. /\ genPc = "adjust" /\ chip' = chip /\ k < Served
          /\ k + 1 = Served => genPc' = "disable" /\ k' = 0
          /\ k + 1 # Served => genPc' = "adjust" /\ k' = k + 1
      BY <1>8 DEF Generator!adjust_ppm, GeneratorInv, Generator!TypeOK
    <2>2. /\ genPc' \in {"disable", "adjust"} /\ Generator!Started /\ Generator!Started'
      BY <2>1 DEF Generator!Started
    <2>3. k' \in Nat /\ k' < IF genPc' = "adjust" THEN Served ELSE 2 * Outputs
      <3>1. CASE k + 1 = Served
        BY <2>1, <3>1, GeneratorSizes
      <3>2. CASE k + 1 # Served
        <4>1. k + 1 < Served /\ k + 1 \in Nat
          BY <1>1, <2>1, <3>2, GeneratorSizes
        <4> QED BY <2>1, <3>2, <4>1
      <3> QED BY <3>1, <3>2
    <2>4. CASE \E v \in {"up", "down"} : Generator!ChangeSpeed(v)
      <3>1. PICK v \in {"up", "down"}, r \in Generator!SpeedRegister(k), o \in Generator!Outcome :
                Generator!Wr("clients", r, v, o)
        BY <2>4, Zenon DEF Generator!ChangeSpeed
      <3>2. v \in Generator!Value /\ v # "reset" /\ r \in Generator!Reg
        BY DEF Generator!Value, Generator!SpeedRegister
      <3>3. Generator!TypeOK'
        BY <1>1, <1>2, <2>1, <2>2, <2>3, <3>1, <3>2, WriteIs DEF GeneratorInv, Generator!TypeOK
      <3>4. WrittenOrExcused'
        BY <1>2, <2>2, <3>1, <3>2, ServiceWrites
      <3>5. /\ mem'["line"][0] = mem["line"][0]
            /\ <<"line", 0>> \in excused => <<"line", 0>> \in excused'
        BY <1>2, <3>1, <3>2, WriteIs, GeneratorSizes DEF GeneratorInv
      <3>6. Generator!LineStepsAgain'
        BY <2>1, <3>5, Zenon DEF GeneratorInv, Generator!LineStepsAgain
      <3> QED BY <3>3, <3>4, <3>6 DEF GeneratorInv
    <2>5. CASE UNCHANGED <<mem, excused, refusals>>
      <3>1. Generator!TypeOK'
        BY <1>1, <2>1, <2>2, <2>3, <2>5 DEF Generator!TypeOK
      <3>2. WrittenOrExcused'
        <4>1. \A d \in Generator!Chip, q \in Generator!Reg : PassedBy(d, q)
          BY <2>2, Zenon DEF PassedBy
        <4> QED BY <2>5, <4>1, Zenon DEF GeneratorInv, WrittenOrExcused
      <3>3. Generator!LineStepsAgain'
        BY <2>1, <2>5, Zenon DEF GeneratorInv, Generator!LineStepsAgain
      <3> QED BY <3>1, <3>2, <3>3 DEF GeneratorInv
    <2> QED BY <1>8, <2>4, <2>5, Zenon DEF Generator!adjust_ppm
  <1> QED BY <1>3, <1>4, <1>5, <1>6, <1>7, <1>8, Zenon DEF Generator!Next

LEMMA GeneratorAsSaid ==
    ASSUME GeneratorInv
    PROVE  Generator!NoneForgotten /\ Generator!LineStepsAgain
  BY Zenon DEF GeneratorInv, WrittenOrExcused, PassedBy, Generator!NoneForgotten

-----------------------------------------------------------------------------
(* The clocks of the clients *)

\* The copy kept for a client has the clock of its rate; client 3 writes over that
\* of client 2.
CopyFits ==
    \A c \in Clocked :
        Clocks!Right(c) /\ c # 2 => cfg[Clocks!At(c)[1]][Clocks!At(c)[2]] = Clocks!ClockOf(clkRate[c])

ClocksInv == Clocks!TypeOK /\ CopyFits /\ Clocks!ClockFollowsRate

LEMMA AtIs ==
    ASSUME NEW c \in 0 .. 15
    PROVE  /\ Clocks!At(c)[1] \in 0 .. 3 /\ Clocks!At(c)[2] \in 0 .. 3
           /\ Clocks!At(c) = <<Clocks!At(c)[1], Clocks!At(c)[2]>>
           /\ c = 4 * Clocks!At(c)[1] + Clocks!At(c)[2]
           /\ c < 4 => Clocks!At(c)[1] = 0 /\ Clocks!At(c)[2] = c
  <1>1. c \div 4 \in 0 .. 3 /\ c % 4 \in 0 .. 3 /\ c = 4 * (c \div 4) + (c % 4)
    OBVIOUS
  <1>2. c < 4 => c \div 4 = 0 /\ c % 4 = c
    BY <1>1
  <1> QED BY <1>1, <1>2 DEF Clocks!At

LEMMA ClientsAre ==
    ASSUME Clocks!ClientsAssumption, NEW c \in Clocked
    PROVE  c \in 0 .. 15
  BY DEF Clocks!ClientsAssumption

LEMMA ClocksInit ==
    ASSUME Clocks!ClientsAssumption
    PROVE  Clocks!Init => ClocksInv
  <1>1. SUFFICES ASSUME Clocks!Init PROVE ClocksInv
    OBVIOUS
  <1>2. \A c \in Clocked : ~Clocks!Right(c)
    BY <1>1 DEF Clocks!Init, Clocks!Right
  <1>3. \A d \in 0 .. 3 : Clocks!InitialClock(d) \in Clocks!Clock \cup {"167"}
    BY DEF Clocks!InitialClock, Clocks!Clock
  <1>4. Clocks!TypeOK
    <2>1. clkRate \in [Clocked -> Clocks!Rate \cup {"unset"}]
      BY <1>1 DEF Clocks!Init
    <2>2. cfg \in [Clocks!Devices -> [Clocks!Ports -> Clocks!Clock \cup {"167"}]]
      BY <1>1, <1>3 DEF Clocks!Init, Clocks!Devices
    <2>3. out \in [Clocks!Devices -> [Clocks!Ports -> Clocks!Clock \cup {"167", "reset"}]]
      BY <1>1, <1>3 DEF Clocks!Init, Clocks!Devices
    <2> QED BY <1>1, <2>1, <2>2, <2>3 DEF Clocks!Init, Clocks!TypeOK
  <1> QED BY <1>2, <1>4, Zenon DEF ClocksInv, CopyFits, Clocks!ClockFollowsRate

\* The copy that a change of the rate writes: that of the client, with the clock of
\* the rate, wherever the switch is right.
LEMMA SwitchIs ==
    ASSUME NEW c \in 0 .. 15, NEW r \in Clocks!Rate, Clocks!Switched(c, r)
    PROVE  LET w == Clocks!Switch(c, r) IN
           /\ w.at[1] \in 0 .. 3 /\ w.at[2] \in 0 .. 3 /\ w.clock \in Clocks!Clock
           /\ \/ w.at = Clocks!At(c)
              \/ w.at = <<0, 2>> /\ c = 3 /\ r = "OTU1"
           /\ <<c, r>> \notin {<<1, "OTU1">>, <<3, "OTU1">>, <<7, "OTU1">>, <<12, "OTU1">>} =>
                 w.at = Clocks!At(c) /\ w.clock = Clocks!ClockOf(r)
  <1> DEFINE a == Clocks!At(c)
  <1>1. a[1] \in 0 .. 3 /\ a[2] \in 0 .. 3
    BY AtIs
  <1> HIDE DEF a
  <1>2. \A x \in Clocks!Clock : \A y : Clocks!Copy(y, x).at = y /\ Clocks!Copy(y, x).clock = x
    BY DEF Clocks!Copy
  <1>3. Clocks!Clock = {"125", "155.52", "166.62", "106.25"}
    BY DEF Clocks!Clock
  <1>4. CASE r = "OTU1"
    <2>1. Clocks!Switch(c, r) = Clocks!switch_to_otu1(c) /\ Clocks!ClockOf(r) = "166.62" /\ c # 1
      BY <1>4 DEF Clocks!Switch, Clocks!ClockOf, Clocks!Switched
    <2>2. CASE c = 3
      <3>1. Clocks!Switch(c, r) = Clocks!Copy(<<0, 2>>, "166.62")
        BY <2>1, <2>2 DEF Clocks!switch_to_otu1
      <3> QED BY <1>2, <1>3, <1>4, <2>2, <3>1
    <2>3. CASE c \in {7, 12}
      <3>1. Clocks!Switch(c, r) = Clocks!Copy(a, "125")
        BY <2>1, <2>3 DEF Clocks!switch_to_otu1, a
      <3>2. <<c, r>> \in {<<7, "OTU1">>, <<12, "OTU1">>}
        BY <1>4, <2>3
      <3> QED BY <1>1, <1>2, <1>3, <3>1, <3>2 DEF a
    <2>4. CASE c \notin {3, 7, 12}
      <3>1. Clocks!Switch(c, r) = Clocks!Copy(a, "166.62")
        BY <2>1, <2>4 DEF Clocks!switch_to_otu1, a
      <3> QED BY <1>1, <1>2, <1>3, <2>1, <3>1 DEF a
    <2> QED BY <2>2, <2>3, <2>4
  <1>5. CASE r # "OTU1"
    <2>1. PICK x \in Clocks!Clock : Clocks!Switch(c, r) = Clocks!Copy(a, x) /\ x = Clocks!ClockOf(r)
      BY <1>5 DEF Clocks!Rate, Clocks!Clock, Clocks!ClockOf, Clocks!Switch, Clocks!switch_to_sonet,
         Clocks!switch_to_ge, Clocks!switch_to_fc1, Clocks!switch_to_fc2, a
    <2>2. Clocks!Switch(c, r).at = a /\ Clocks!Switch(c, r).clock = x
      BY <2>1 DEF Clocks!Copy
    <2> QED BY <1>1, <2>1, <2>2 DEF a
  <1> QED BY <1>4, <1>5

\* A change of the rate: the copy, and the port on the first four attenuators.
LEMMA RateIs ==
    ASSUME Clocks!ClientsAssumption, Clocks!TypeOK, NEW c \in Clocked, NEW r \in Clocks!Rate,
           Clocks!set_if_port_rate(c, r), Clocks!Switched(c, r)
    PROVE  LET w == Clocks!Switch(c, r) IN
           /\ cfg' \in [Clocks!Devices -> [Clocks!Ports -> Clocks!Clock \cup {"167"}]]
           /\ out' \in [Clocks!Devices -> [Clocks!Ports -> Clocks!Clock \cup {"167", "reset"}]]
           /\ \A d \in 0 .. 3, p \in 0 .. 3 :
                 /\ cfg'[d][p] = IF w.at[1] = d /\ w.at[2] = p THEN w.clock ELSE cfg[d][p]
                 /\ out'[d][p] = IF p = c THEN cfg'[d][p] ELSE out[d][p]
  <1> DEFINE w == Clocks!Switch(c, r)
             a == w.at[1]
             b == w.at[2]
             x == w.clock
             K == Clocks!Clock \cup {"167"}
             O == Clocks!Clock \cup {"167", "reset"}
  <1>1. a \in 0 .. 3 /\ b \in 0 .. 3 /\ x \in Clocks!Clock /\ c \in 0 .. 15
    BY SwitchIs, ClientsAre
  <1>2. cfg \in [0 .. 3 -> [0 .. 3 -> K]] /\ out \in [0 .. 3 -> [0 .. 3 -> O]]
    BY Zenon DEF Clocks!TypeOK, Clocks!Devices, Clocks!Ports
  <1>3. cfg' = [cfg EXCEPT ![a][b] = x] /\ out' = Clocks!ConfigAll(c, cfg')
    BY Zenon DEF Clocks!set_if_port_rate
  <1> HIDE DEF a, b, x, w
  <1>4. cfg' \in [0 .. 3 -> [0 .. 3 -> K]]
    BY <1>1, <1>2, <1>3
  <1>5. \A d \in 0 .. 3, p \in 0 .. 3 :
            cfg'[d][p] = IF a = d /\ b = p THEN x ELSE cfg[d][p]
    BY <1>1, <1>2, <1>3
  <1>6. ASSUME NEW m \in [0 .. 3 -> [0 .. 3 -> K]], NEW d \in 0 .. 3
        PROVE  /\ Clocks!ConfigAll(c, m)[d] \in [0 .. 3 -> O]
               /\ \A p \in 0 .. 3 :
                     Clocks!ConfigAll(c, m)[d][p] = IF p = c THEN m[d][p] ELSE out[d][p]
    <2>1. Clocks!ConfigAll(c, m)[d] = IF c \in 0 .. 3 THEN [out EXCEPT ![d][c] = m[d][c]][d] ELSE out[d]
      <3>1. 0 + c = c
        BY <1>1
      <3>2. Clocks!ConfigAll(c, m) =
                [y \in 0 .. 3 |-> IF 0 + c \in 0 .. 3 THEN [out EXCEPT ![y][0 + c] = m[y][0 + c]][y]
                                 ELSE out[y]]
        BY Zenon DEF Clocks!ConfigAll, Clocks!PORT_A, Clocks!Ports, Clocks!Devices,
           Clocks!ipg_si5375_config
      <3>3. Clocks!ConfigAll(c, m) =
                [y \in 0 .. 3 |-> IF c \in 0 .. 3 THEN [out EXCEPT ![y][c] = m[y][c]][y] ELSE out[y]]
        BY <3>1, <3>2, Zenon
      <3> QED BY <1>6, <3>3, Zenon
    <2>2. CASE c \in 0 .. 3
      <3>1. Clocks!ConfigAll(c, m)[d] = [out[d] EXCEPT ![c] = m[d][c]]
        BY <1>2, <2>1, <2>2
      <3>2. m[d][c] \in O
        BY <1>6, <2>2
      <3> QED BY <1>2, <2>2, <3>1, <3>2
    <2>3. CASE c \notin 0 .. 3
      BY <1>2, <2>1, <2>3
    <2> QED BY <2>2, <2>3
  <1>7. out' \in [0 .. 3 -> [0 .. 3 -> O]]
    <2>1. out' = [d \in 0 .. 3 |-> out'[d]]
      BY <1>3, Zenon DEF Clocks!ConfigAll, Clocks!Devices
    <2> QED BY <1>3, <1>4, <1>6, <2>1, Zenon
  <1>8. ASSUME NEW d \in 0 .. 3, NEW p \in 0 .. 3
        PROVE  out'[d][p] = IF p = c THEN cfg'[d][p] ELSE out[d][p]
    <2>1. out'[d] = Clocks!ConfigAll(c, cfg')[d]
      BY <1>3, Zenon
    <2>2. Clocks!ConfigAll(c, cfg')[d][p] = IF p = c THEN cfg'[d][p] ELSE out[d][p]
      BY <1>4, <1>6
    <2> QED BY <2>1, <2>2, Zenon
  <1> QED BY <1>4, <1>5, <1>7, <1>8, Zenon DEF Clocks!Devices, Clocks!Ports, a, b, x, w

LEMMA RateRight ==
    ASSUME Clocks!ClientsAssumption, Clocks!TypeOK, NEW c \in Clocked, NEW r \in Clocks!Rate,
           Clocks!set_if_port_rate(c, r)
    PROVE  /\ clkRate' \in [Clocked -> Clocks!Rate \cup {"unset"}] /\ clkRate'[c] = r
           /\ \A d \in Clocked : d # c =>
                 clkRate'[d] = clkRate[d] /\ (Clocks!Right(d)' <=> Clocks!Right(d))
           /\ Clocks!Right(c)' => /\ Clocks!Switched(c, r)
                                  /\ <<c, r>> \notin {<<1, "OTU1">>, <<3, "OTU1">>,
                                                      <<7, "OTU1">>, <<12, "OTU1">>}
  <1>1. clkRate' = [clkRate EXCEPT ![c] = r]
    BY Zenon DEF Clocks!set_if_port_rate
  <1>2. /\ clkRate' \in [Clocked -> Clocks!Rate \cup {"unset"}] /\ clkRate'[c] = r
        /\ \A d \in Clocked : d # c => clkRate'[d] = clkRate[d]
    BY <1>1, OneChanged, Zenon DEF Clocks!TypeOK
  <1>3. ASSUME NEW d \in Clocked, d # c
        PROVE  Clocks!Right(d)' <=> Clocks!Right(d)
    <2>1. clkRate'[d] = clkRate[d]
      BY <1>2, <1>3, Zenon
    <2> QED BY <2>1, Zenon DEF Clocks!Right
  <1>4. Clocks!Right(c)' => <<c, r>> \notin {<<1, "OTU1">>, <<3, "OTU1">>, <<7, "OTU1">>, <<12, "OTU1">>}
    BY <1>2, Zenon DEF Clocks!Right
  <1>5. Clocks!Right(c)' => Clocks!Switched(c, r)
    BY <1>4 DEF Clocks!Switched
  <1> QED BY <1>2, <1>3, <1>4, <1>5, Zenon

\* The copy and the port of a client whose own rate is changed.
LEMMA OwnRate ==
    ASSUME Clocks!ClientsAssumption, Clocks!TypeOK, NEW c \in Clocked, NEW r \in Clocks!Rate,
           Clocks!set_if_port_rate(c, r), Clocks!Right(c)'
    PROVE  /\ Clocks!Switched(c, r) /\ clkRate'[c] = r
           /\ cfg'[Clocks!At(c)[1]][Clocks!At(c)[2]] = Clocks!ClockOf(r)
           /\ c < 4 => out'[Clocks!At(c)[1]][Clocks!At(c)[2]] = Clocks!ClockOf(r)
  <1> DEFINE w == Clocks!Switch(c, r)
             a == Clocks!At(c)[1]
             b == Clocks!At(c)[2]
  <1>1. c \in 0 .. 15 /\ a \in 0 .. 3 /\ b \in 0 .. 3 /\ (c < 4 => b = c)
    BY ClientsAre, AtIs
  <1>2. /\ Clocks!Switched(c, r) /\ clkRate'[c] = r
        /\ <<c, r>> \notin {<<1, "OTU1">>, <<3, "OTU1">>, <<7, "OTU1">>, <<12, "OTU1">>}
    BY RateRight, Zenon
  <1>3. w.at[1] = a /\ w.at[2] = b /\ w.clock = Clocks!ClockOf(r)
    BY <1>1, <1>2, SwitchIs, Zenon
  <1>4. \A d \in 0 .. 3, p \in 0 .. 3 :
            /\ cfg'[d][p] = IF w.at[1] = d /\ w.at[2] = p THEN w.clock ELSE cfg[d][p]
            /\ out'[d][p] = IF p = c THEN cfg'[d][p] ELSE out[d][p]
    BY <1>2, RateIs
  <1> HIDE DEF w, a, b
  <1>5. cfg'[a][b] = Clocks!ClockOf(r) /\ (b = c => out'[a][b] = cfg'[a][b])
    BY <1>1, <1>3, <1>4, Zenon
  <1>6. c < 4 => out'[a][b] = Clocks!ClockOf(r)
    BY <1>1, <1>5, Zenon
  <1> QED BY <1>2, <1>5, <1>6, Zenon DEF a, b

\* Two clients have two copies, and that of client 2 alone is written for another.
LEMMA OtherCopy ==
    ASSUME Clocks!ClientsAssumption, Clocks!TypeOK, NEW c \in Clocked, NEW r \in Clocks!Rate,
           Clocks!set_if_port_rate(c, r), NEW d \in Clocked, d # c, d # 2
    PROVE  cfg'[Clocks!At(d)[1]][Clocks!At(d)[2]] = cfg[Clocks!At(d)[1]][Clocks!At(d)[2]]
  <1>1. CASE Clocks!Switched(c, r)
    <2> DEFINE w == Clocks!Switch(c, r)
               a == Clocks!At(d)[1]
               b == Clocks!At(d)[2]
    <2>1. c \in 0 .. 15 /\ d \in 0 .. 15 /\ a \in 0 .. 3 /\ b \in 0 .. 3 /\ d = 4 * a + b
      BY ClientsAre, AtIs
    <2>2. ~(w.at[1] = a /\ w.at[2] = b)
      <3>1. c = 4 * Clocks!At(c)[1] + Clocks!At(c)[2]
        BY <2>1, AtIs
      <3>2. w.at = Clocks!At(c) \/ w.at = <<0, 2>>
        BY <1>1, <2>1, SwitchIs, Zenon
      <3> HIDE DEF w, a, b
      <3>3. CASE w.at = Clocks!At(c)
        BY <2>1, <3>1, <3>3
      <3>4. CASE w.at = <<0, 2>>
        BY <2>1, <3>4
      <3> QED BY <3>2, <3>3, <3>4
    <2>3. \A e \in 0 .. 3, p \in 0 .. 3 :
              cfg'[e][p] = IF w.at[1] = e /\ w.at[2] = p THEN w.clock ELSE cfg[e][p]
      BY <1>1, RateIs
    <2> HIDE DEF w, a, b
    <2>4. cfg'[a][b] = cfg[a][b]
      BY <2>1, <2>2, <2>3, Zenon
    <2> QED BY <2>4, Zenon DEF a, b
  <1>2. CASE ~Clocks!Switched(c, r)
    BY <1>2, Zenon DEF Clocks!set_if_port_rate
  <1> QED BY <1>1, <1>2

\* A change of the rate keeps the invariant, and every clock of a client it writes fits.
LEMMA RateKeeps ==
    ASSUME Clocks!ClientsAssumption, ClocksInv, NEW c \in Clocked, NEW r \in Clocks!Rate,
           Clocks!set_if_port_rate(c, r)
    PROVE  /\ ClocksInv'
           /\ Clocks!OthersFollow
  <1>1. Clocks!TypeOK /\ CopyFits /\ Clocks!ClockFollowsRate
    BY DEF ClocksInv
  <1>2. Clocks!TypeOK'
    <2>1. clkRate' \in [Clocked -> Clocks!Rate \cup {"unset"}]
      BY <1>1, RateRight, Zenon
    <2>2. /\ cfg' \in [Clocks!Devices -> [Clocks!Ports -> Clocks!Clock \cup {"167"}]]
          /\ out' \in [Clocks!Devices -> [Clocks!Ports -> Clocks!Clock \cup {"167", "reset"}]]
      <3>1. CASE Clocks!Switched(c, r)
        BY <1>1, <3>1, RateIs, Zenon
      <3>2. CASE ~Clocks!Switched(c, r)
        BY <1>1, <3>2, Zenon DEF Clocks!set_if_port_rate, Clocks!TypeOK
      <3> QED BY <3>1, <3>2
    <2>3. last' \in [by : {"rate"}, client : Clocked]
      <3>1. last' = [by |-> "rate", client |-> c]
        BY Zenon DEF Clocks!set_if_port_rate
      <3> QED BY <3>1
    <2> QED BY <2>1, <2>2, <2>3, Zenon DEF Clocks!TypeOK
  <1>3. \A d \in Clocked : d # c =>
            clkRate'[d] = clkRate[d] /\ (Clocks!Right(d)' <=> Clocks!Right(d))
    BY <1>1, RateRight, Zenon
  <1>4. CopyFits'
    <2>1. ASSUME NEW d \in Clocked, Clocks!Right(d)', d # 2
          PROVE  cfg'[Clocks!At(d)[1]][Clocks!At(d)[2]] = Clocks!ClockOf(clkRate'[d])
      <3>1. CASE d = c
        <4>1. Clocks!Right(c)'
          BY <2>1, <3>1, Zenon
        <4> QED BY <1>1, <3>1, <4>1, OwnRate, Zenon
      <3>2. CASE d # c
        <4>1. Clocks!Right(d) /\ clkRate'[d] = clkRate[d]
          BY <1>3, <2>1, <3>2, Zenon
        <4>2. cfg[Clocks!At(d)[1]][Clocks!At(d)[2]] = Clocks!ClockOf(clkRate[d])
          BY <1>1, <2>1, <4>1, Zenon DEF CopyFits
        <4>3. cfg'[Clocks!At(d)[1]][Clocks!At(d)[2]] = cfg[Clocks!At(d)[1]][Clocks!At(d)[2]]
          BY <1>1, <2>1, <3>2, OtherCopy, Zenon
        <4> QED BY <4>1, <4>2, <4>3, Zenon
      <3> QED BY <3>1, <3>2
    <2> QED BY <2>1, Zenon DEF CopyFits
  <1>5. ASSUME NEW d \in Clocked, d < 4, d # c
        PROVE  out'[Clocks!At(d)[1]][Clocks!At(d)[2]] = out[Clocks!At(d)[1]][Clocks!At(d)[2]]
    <2>1. CASE Clocks!Switched(c, r)
      <3>1. \A e \in 0 .. 3, p \in 0 .. 3 : out'[e][p] = IF p = c THEN cfg'[e][p] ELSE out[e][p]
        BY <1>1, <2>1, RateIs
      <3>2. Clocks!At(d)[1] \in 0 .. 3 /\ Clocks!At(d)[2] \in 0 .. 3 /\ Clocks!At(d)[2] = d
        BY <1>5, ClientsAre, AtIs
      <3> QED BY <1>5, <3>1, <3>2, Zenon
    <2>2. CASE ~Clocks!Switched(c, r)
      BY <2>2, Zenon DEF Clocks!set_if_port_rate
    <2> QED BY <2>1, <2>2
  <1>6. Clocks!ClockFollowsRate'
    <2>1. ASSUME NEW d \in Clocked, d < 4, Clocks!Right(d)'
          PROVE  out'[Clocks!At(d)[1]][Clocks!At(d)[2]] = Clocks!ClockOf(clkRate'[d])
      <3>1. CASE d = c
        <4>1. Clocks!Right(c)' /\ c < 4
          BY <2>1, <3>1, Zenon
        <4> QED BY <1>1, <3>1, <4>1, OwnRate, Zenon
      <3>2. CASE d # c
        <4>1. Clocks!Right(d) /\ clkRate'[d] = clkRate[d]
          BY <1>3, <2>1, <3>2, Zenon
        <4>2. out[Clocks!At(d)[1]][Clocks!At(d)[2]] = Clocks!ClockOf(clkRate[d])
          BY <1>1, <2>1, <4>1, Zenon DEF Clocks!ClockFollowsRate
        <4> QED BY <1>5, <2>1, <3>2, <4>1, <4>2, Zenon
      <3> QED BY <3>1, <3>2
    <2> QED BY <2>1, Zenon DEF Clocks!ClockFollowsRate
  <1>7. ASSUME NEW d \in Clocked, Clocks!Right(d), clkRate'[d] = clkRate[d]
        PROVE  out'[Clocks!At(d)[1]][Clocks!At(d)[2]]
                  \in {out[Clocks!At(d)[1]][Clocks!At(d)[2]], Clocks!ClockOf(clkRate[d])}
    <2>1. Clocks!Right(d)'
      BY <1>7, Zenon DEF Clocks!Right
    <2>2. d \in 0 .. 15 /\ Clocks!At(d)[1] \in 0 .. 3 /\ Clocks!At(d)[2] \in 0 .. 3
      BY ClientsAre, AtIs
    <2>3. cfg'[Clocks!At(d)[1]][Clocks!At(d)[2]] = Clocks!ClockOf(clkRate[d]) \/ (d = 2 /\ d # c)
      <3>1. CASE d = c
        <4>1. Clocks!Right(c)'
          BY <2>1, <3>1, Zenon
        <4> QED BY <1>1, <1>7, <3>1, <4>1, OwnRate, Zenon
      <3>2. CASE d # c /\ d # 2
        BY <1>4, <1>7, <2>1, <3>2, Zenon DEF CopyFits
      <3> QED BY <3>1, <3>2
    <2>4. CASE d = 2 /\ d # c
      BY <1>5, <2>4
    <2>5. CASE cfg'[Clocks!At(d)[1]][Clocks!At(d)[2]] = Clocks!ClockOf(clkRate[d])
      <3>1. CASE Clocks!Switched(c, r)
        <4>1. \A e \in 0 .. 3, p \in 0 .. 3 : out'[e][p] = IF p = c THEN cfg'[e][p] ELSE out[e][p]
          BY <1>1, <3>1, RateIs
        <4> QED BY <2>2, <2>5, <4>1, Zenon
      <3>2. CASE ~Clocks!Switched(c, r)
        BY <3>2, Zenon DEF Clocks!set_if_port_rate
      <3> QED BY <3>1, <3>2
    <2> QED BY <2>3, <2>4, <2>5
  <1> QED BY <1>2, <1>4, <1>6, <1>7, Zenon DEF ClocksInv, Clocks!OthersFollow

\* A port that a user has written: one that is on the diagonal, from its copy.
LEMMA UserKeeps ==
    ASSUME Clocks!ClientsAssumption, ClocksInv, NEW index \in 6 .. 29,
           Clocks!handle_user_i2c_config(index)
    PROVE  /\ ClocksInv'
           /\ Clocks!OthersFollow
  <1> DEFINE K == Clocks!Clock \cup {"167"}
             O == Clocks!Clock \cup {"167", "reset"}
             e == index - 6
  <1>1. Clocks!TypeOK /\ CopyFits /\ Clocks!ClockFollowsRate
    BY DEF ClocksInv
  <1>2. cfg \in [0 .. 3 -> [0 .. 3 -> K]] /\ out \in [0 .. 3 -> [0 .. 3 -> O]]
    BY <1>1, Zenon DEF Clocks!TypeOK, Clocks!Devices, Clocks!Ports
  <1>3. /\ clkRate' = clkRate /\ cfg' = cfg
        /\ \/ e \in 0 .. 3 /\ out' = [out EXCEPT ![e][e] = cfg[e][e]]
           \/ out' = out
        /\ \/ last' = [by |-> "user", result |-> "OK"]
           \/ last' = [by |-> "user", result |-> "FAIL"]
    BY Zenon DEF Clocks!handle_user_i2c_config, Clocks!ipg_si5375_config, Clocks!Ports
  <1> HIDE DEF e
  <1>4. /\ out' \in [0 .. 3 -> [0 .. 3 -> O]]
        /\ \A d \in 0 .. 3, p \in 0 .. 3 :
              out'[d][p] = out[d][p] \/ (d = p /\ out'[d][p] = cfg[d][p])
    <2>1. CASE out' = out
      BY <1>2, <2>1
    <2>2. CASE e \in 0 .. 3 /\ out' = [out EXCEPT ![e][e] = cfg[e][e]]
      <3>1. cfg[e][e] \in O
        BY <1>2, <2>2
      <3>2. out' \in [0 .. 3 -> [0 .. 3 -> O]]
        BY <1>2, <2>2, <3>1
      <3>3. \A d \in 0 .. 3, p \in 0 .. 3 :
                out'[d][p] = IF d = e /\ p = e THEN cfg[e][e] ELSE out[d][p]
        BY <1>2, <2>2
      <3> QED BY <3>2, <3>3
    <2> QED BY <1>3, <2>1, <2>2
  <1>5. Clocks!TypeOK'
    <2>1. last' \in [by : {"user"}, result : {"OK", "FAIL"}]
      BY <1>3
    <2> QED BY <1>1, <1>3, <1>4, <2>1, Zenon DEF Clocks!TypeOK, Clocks!Devices, Clocks!Ports
  <1>6. \A d \in Clocked : Clocks!Right(d)' <=> Clocks!Right(d)
    BY <1>3, Zenon DEF Clocks!Right
  <1>7. CopyFits'
    BY <1>1, <1>3, <1>6, Zenon DEF CopyFits
  <1>8. ASSUME NEW d \in Clocked, Clocks!Right(d)
        PROVE  \/ out'[Clocks!At(d)[1]][Clocks!At(d)[2]] = out[Clocks!At(d)[1]][Clocks!At(d)[2]]
               \/ out'[Clocks!At(d)[1]][Clocks!At(d)[2]] = Clocks!ClockOf(clkRate[d])
    <2> DEFINE a == Clocks!At(d)[1]
               b == Clocks!At(d)[2]
    <2>1. a \in 0 .. 3 /\ b \in 0 .. 3 /\ (d = 2 => a # b)
      <3>1. d \in 0 .. 15
        BY ClientsAre
      <3> QED BY <3>1, AtIs
    <2>2. d # 2 => cfg[a][b] = Clocks!ClockOf(clkRate[d])
      BY <1>1, <1>8, Zenon DEF CopyFits
    <2> HIDE DEF a, b
    <2>3. out'[a][b] = out[a][b] \/ out'[a][b] = Clocks!ClockOf(clkRate[d])
      BY <1>4, <2>1, <2>2, Zenon
    <2> QED BY <2>3, Zenon DEF a, b
  <1>9. Clocks!ClockFollowsRate'
    <2>1. ASSUME NEW d \in Clocked, d < 4, Clocks!Right(d)
          PROVE  out'[Clocks!At(d)[1]][Clocks!At(d)[2]] = Clocks!ClockOf(clkRate[d])
      BY <1>1, <1>8, <2>1, Zenon DEF Clocks!ClockFollowsRate
    <2> QED BY <1>3, <1>6, <2>1, Zenon DEF Clocks!ClockFollowsRate
  <1>10. Clocks!OthersFollow
    BY <1>8, Zenon DEF Clocks!OthersFollow
  <1> QED BY <1>5, <1>7, <1>9, <1>10, Zenon DEF ClocksInv

LEMMA ClocksNext ==
    ASSUME Clocks!ClientsAssumption, ClocksInv, Clocks!Next
    PROVE  /\ ClocksInv'
           /\ Clocks!OthersFollow
  <1>1. CASE \E c \in Clocked, r \in Clocks!Rate : Clocks!set_if_port_rate(c, r)
    <2>1. PICK c \in Clocked, r \in Clocks!Rate : Clocks!set_if_port_rate(c, r)
      BY <1>1, Zenon
    <2> QED BY <2>1, RateKeeps, Zenon
  <1>2. CASE \E index \in 6 .. 29 : Clocks!handle_user_i2c_config(index)
    <2>1. PICK index \in 6 .. 29 : Clocks!handle_user_i2c_config(index)
      BY <1>2, Zenon
    <2> QED BY <2>1, UserKeeps, Zenon
  <1> QED BY <1>1, <1>2, Zenon DEF Clocks!Next

-----------------------------------------------------------------------------
(* The registers of the interfaces *)

\* A use of a register that serves: of a client, its own.
Serves(t) ==
    /\ t.of \in Mapped /\ t.field \in Map!Fields
    /\ t.of \in Map!Clients /\ t.field[1] # "gemac" /\ t.op # "recover" =>
          t.at = Map!Register(Map!Fpga(t.of), t.of, t.field[1])

\* The clients mapped so far have their table, whatever the lines have.
ClientsMapped == \A i \in Map!Clients : i < next \/ phase # "map" => mmap[i] = Map!client_port_mmap(i)

MapInv ==
    /\ Map!TypeOK
    /\ phase = "map" => next <= 17
    /\ ClientsMapped
    /\ \A t \in touched : Serves(t)
    /\ Map!ServedWhenPrepared

\* Fields that serve the interfaces: those of clients in their own FPGA.
Fit(is, fs) ==
    /\ fs \subseteq Map!Fields
    /\ \A i \in is : i \in Map!Clients =>
          \A f \in fs : f[1] = "gemac" \/ (f[1] # "otu2_brick" /\ f[2] = Map!Fpga(i))

LEMMA MappedAre ==
    ASSUME Map!RegisterMapAssumption, NEW i \in Mapped
    PROVE  /\ i \in 0 .. 17
           /\ i \in Map!Clients <=> i < 16
           /\ i \in Map!Lines <=> i \in {16, 17}
           /\ Map!Fpga(i) \in {1, 2}
  BY DEF Map!RegisterMapAssumption, Map!Clients, Map!Lines, Map!IsLine, Map!LN_INDEX_START, Map!Fpga

\* The table of a client holds its own registers, but for its MAC.
LEMMA TableIs ==
    ASSUME NEW i, NEW f \in Map!Fields, f[1] # "gemac", f[1] # "otu2_brick"
    PROVE  Map!client_port_mmap(i)[f] = Map!Register(f[2], i, f[1])
  <1>1. f # <<"gemac", 1>> /\ f # <<"gemac", 2>>
    OBVIOUS
  <1> QED BY <1>1, Zenon DEF Map!client_port_mmap

LEMMA UseServes ==
    ASSUME NEW op, NEW is, NEW fs, Fit(is, fs) \/ (op = "recover" /\ fs \subseteq Map!Fields),
           \A i \in Map!Clients : mmap[i] = Map!client_port_mmap(i)
    PROVE  \A t \in Map!Use(op, is, fs) : Serves(t)
  <1>1. ASSUME NEW i \in is \cap Mapped, NEW f \in fs
        PROVE  Serves([op |-> op, of |-> i, field |-> f, at |-> mmap[i][f]])
    <2>1. f \in Map!Fields
      BY DEF Fit
    <2>2. ASSUME i \in Map!Clients, f[1] # "gemac", op # "recover"
          PROVE  mmap[i][f] = Map!Register(Map!Fpga(i), i, f[1])
      <3>1. f[1] # "otu2_brick" /\ f[2] = Map!Fpga(i)
        BY <2>2, Zenon DEF Fit
      <3>2. mmap[i] = Map!client_port_mmap(i)
        BY <2>2, Zenon
      <3> QED BY <2>1, <2>2, <3>1, <3>2, TableIs, Zenon
    <2> QED BY <2>1, <2>2 DEF Serves
  <1>2. ASSUME NEW t \in Map!Use(op, is, fs)
        PROVE  \E i \in is \cap Mapped, f \in fs :
                  t = [op |-> op, of |-> i, field |-> f, at |-> mmap[i][f]]
    BY DEF Map!Use
  <1> QED BY <1>1, <1>2, Zenon

LEMMA OwnFits ==
    ASSUME Map!RegisterMapAssumption, NEW i \in Mapped,
           NEW blocks \in SUBSET (Map!Blocks \ {"otu2_brick"})
    PROVE  Fit({i}, Map!Own(i, blocks))
  <1>1. Map!Fpga(i) \in {1, 2}
    BY MappedAre
  <1> QED BY <1>1 DEF Fit, Map!Own, Map!Fields

\* The lines are held through their own pointers, and no client is touched.
LEMMA LockServes ==
    ASSUME Map!RegisterMapAssumption, NEW op,
           \A i \in Map!Clients : mmap[i] = Map!client_port_mmap(i)
    PROVE  \A t \in Map!LockLines(op) : Serves(t)
  <1>1. Fit({16}, {<<"otu2_brick", 1>>}) /\ Fit({17}, {<<"otu2_brick", 2>>})
    BY DEF Fit, Map!Fields, Map!Blocks, Map!Clients, Map!IsLine, Map!LN_INDEX_START
  <1> QED BY <1>1, UseServes, Zenon DEF Map!LockLines

LEMMA StatsFit ==
    ASSUME Map!RegisterMapAssumption, Map!TypeOK, NEW i \in Mapped
    PROVE  Fit({i}, Map!StatsOf(i))
  <1>1. CASE i \in Map!Clients
    <2>1. ~Map!IsLine(i) /\ mapRate[i] \in {"STM1", "STM16", "OTU1", "GE", "FC1"}
      <3>1. mapRate[i] \in Rates
        BY <1>1, SMT DEF Map!TypeOK
      <3>2. mapRate[i] \in {"STM1", "STM16", "OTU1", "GE", "FC1"}
        BY <3>1, Zenon DEF Map!RegisterMapAssumption
      <3> QED BY <1>1, <3>2, Zenon DEF Map!Clients
    <2>2. PICK blocks \in SUBSET (Map!Blocks \ {"otu2_brick"}) :
              Map!StatsOf(i) = Map!Own(i, blocks) \/ Map!StatsOf(i) = {}
      <3>1. /\ {"ge", "gemac"} \in SUBSET (Map!Blocks \ {"otu2_brick"})
            /\ {"otu1"} \in SUBSET (Map!Blocks \ {"otu2_brick"})
            /\ {"stm_16"} \in SUBSET (Map!Blocks \ {"otu2_brick"})
            /\ {"stm_14"} \in SUBSET (Map!Blocks \ {"otu2_brick"})
        BY DEF Map!Blocks
      <3>2. \/ Map!StatsOf(i) = Map!Own(i, {"ge", "gemac"}) \/ Map!StatsOf(i) = Map!Own(i, {"otu1"})
            \/ Map!StatsOf(i) = Map!Own(i, {"stm_16"}) \/ Map!StatsOf(i) = Map!Own(i, {"stm_14"})
            \/ Map!StatsOf(i) = {}
        BY <2>1 DEF Map!StatsOf
      <3> QED BY <3>1, <3>2, Zenon
    <2>3. Fit({i}, {})
      BY Zenon DEF Fit
    <2> QED BY <2>2, <2>3, OwnFits, Zenon
  <1>2. CASE i \notin Map!Clients
    <2>1. i \in {16, 17} /\ Map!IsLine(i)
      BY <1>2, MappedAre DEF Map!Clients
    <2>2. Map!StatsOf(i) = {<<"otu2_brick", i - 15>>, <<"otu2_brick", 1>>}
      BY <2>1 DEF Map!StatsOf
    <2>3. i - 15 \in {1, 2}
      BY <2>1
    <2> QED BY <1>2, <2>2, <2>3 DEF Fit, Map!Fields, Map!Blocks
  <1> QED BY <1>1, <1>2

LEMMA MapInit ==
    ASSUME Map!RegisterMapAssumption
    PROVE  Map!Init => MapInv
  <1>1. SUFFICES ASSUME Map!Init PROVE MapInv
    OBVIOUS
  <1>2. mmap \in [Mapped -> [Map!Fields -> {Map!Unset}]] /\ mmap = [i \in Mapped |-> Map!NoTable]
    BY <1>1, Zenon DEF Map!Init, Map!NoTable
  <1>3. Map!TypeOK
    <2>1. mapRate \in [Map!Clients -> Rates]
      BY <1>1, Zenon DEF Map!Init, Map!RegisterMapAssumption
    <2>2. txDisable \in [Map!Lines -> {0, 1}]
      BY <1>1, Zenon DEF Map!Init
    <2> QED BY <1>1, <1>2, <2>1, <2>2 DEF Map!Init, Map!TypeOK
  <1>4. \A i \in Map!Clients : ~(i < next)
    BY <1>1, MappedAre DEF Map!Init, Map!Clients
  <1> QED BY <1>1, <1>3, <1>4 DEF Map!Init, MapInv, ClientsMapped, Map!ServedWhenPrepared

\* Mapping the next interface.
LEMMA MapsNext ==
    ASSUME Map!RegisterMapAssumption, MapInv, Map!init_interface_data
    PROVE  MapInv'
  <1>1. Map!TypeOK /\ next <= 17 /\ ClientsMapped /\ phase = "map" /\ next \in 0 .. 18
    BY DEF MapInv, Map!init_interface_data, Map!TypeOK
  <1>2. /\ next' = next + 1
        /\ phase' = IF next = 17 THEN "disable" ELSE "map"
        /\ initialised' = initialised /\ txDisable' = txDisable /\ mapRate' = mapRate
        /\ flagged' = flagged /\ touched' = touched
    BY Zenon DEF Map!init_interface_data
  <1> DEFINE E == {Map!Unset} \cup {Map!Register(n, i, b) : n \in {1, 2}, i \in Mapped, b \in Map!Blocks}
             R == Map!client_port_mmap(next)
             L == Map!line_port_mmap(next)
             table == IF Map!IsLine(next) THEN L ELSE R
  <1>3. mmap \in [Mapped -> [Map!Fields -> E]]
    BY <1>1, SMT DEF Map!TypeOK
  <1>4. ASSUME next \in Mapped
        PROVE  R \in [Map!Fields -> E] /\ L \in [Map!Fields -> E]
    <2>1. \A b \in Map!Blocks, n \in {1, 2} : Map!Register(n, next, b) \in E
      BY <1>4
    <2>2. Map!Unset \in E
      OBVIOUS
    <2>3. "gemac" \in Map!Blocks /\ "otu2_brick" \in Map!Blocks
      BY DEF Map!Blocks
    <2>4. \A f \in Map!Fields : f[1] \in Map!Blocks /\ f[2] \in {1, 2}
      BY DEF Map!Fields
    <2> HIDE DEF E
    <2>5. R \in [Map!Fields -> E]
      <3>1. \A f \in Map!Fields : R[f] \in E
        BY <2>1, <2>2, <2>3, <2>4 DEF Map!client_port_mmap
      <3> QED BY <3>1, Zenon DEF Map!client_port_mmap
    <2>6. L \in [Map!Fields -> E]
      <3>1. Map!NoTable \in [Map!Fields -> E]
        BY <2>2, Zenon DEF Map!NoTable
      <3>2. Map!Register(1, next, "otu2_brick") \in E /\ Map!Register(2, next, "otu2_brick") \in E
        BY <2>1, <2>3
      <3> HIDE DEF L
      <3>3. PICK x \in E : [Map!NoTable EXCEPT ![<<"otu2_brick", 1>>] = x] \in [Map!Fields -> E]
                           /\ L = [[Map!NoTable EXCEPT ![<<"otu2_brick", 1>>] = x] EXCEPT ![<<"otu2_brick", 2>>] =
                IF next - 2 = 17 THEN Map!Register(2, next, "otu2_brick") ELSE @]
        <4> DEFINE x == IF next - 2 = 16 THEN Map!Register(1, next, "otu2_brick")
                        ELSE Map!NoTable[<<"otu2_brick", 1>>]
        <4>1. x \in E
          BY <2>3, <3>1, <3>2 DEF Map!Fields
        <4>2. L = [[Map!NoTable EXCEPT ![<<"otu2_brick", 1>>] = x] EXCEPT ![<<"otu2_brick", 2>>] =
                IF next - 2 = 17 THEN Map!Register(2, next, "otu2_brick") ELSE @]
          BY Zenon DEF L, Map!line_port_mmap, Map!LN_INDEX_START, Map!LN_INDEX_END, Map!LN_INDEX_OFFSET
        <4>3. [Map!NoTable EXCEPT ![<<"otu2_brick", 1>>] = x] \in [Map!Fields -> E]
          BY <3>1, <4>1
        <4> HIDE DEF x
        <4> QED BY <4>1, <4>2, <4>3, Zenon
      <3> DEFINE T == [Map!NoTable EXCEPT ![<<"otu2_brick", 1>>] = x]
      <3>4. T \in [Map!Fields -> E] /\ <<"otu2_brick", 2>> \in Map!Fields
        BY <2>3, <3>3, Zenon DEF Map!Fields
      <3>5. L = [T EXCEPT ![<<"otu2_brick", 2>>] =
                    IF next - 2 = 17 THEN Map!Register(2, next, "otu2_brick") ELSE T[<<"otu2_brick", 2>>]]
        BY <3>3, Zenon
      <3> HIDE DEF T
      <3> QED BY <3>2, <3>4, <3>5
    <2> QED BY <2>5, <2>6
  <1> HIDE DEF E, R, L
  <1>5. mmap' = IF next \in Mapped THEN [mmap EXCEPT ![next] = table] ELSE mmap
    BY Zenon DEF Map!init_interface_data, R, L
  <1>6. table \in [Map!Fields -> E] \/ next \notin Mapped
    BY <1>4
  <1>7. ~Map!IsLine(next) => table = Map!client_port_mmap(next)
    BY Zenon DEF R
  <1> HIDE DEF table
  <1>8. mmap' \in [Mapped -> [Map!Fields -> E]]
    BY <1>3, <1>5, <1>6, Zenon
  <1>9. Map!TypeOK'
    <2>1. next' \in 0 .. 18
      BY <1>1, <1>2
    <2>2. phase' \in {"map", "disable", "boot", "run"}
      BY <1>2
    <2> QED BY <1>1, <1>2, <1>8, <2>1, <2>2, SMT DEF Map!TypeOK, E
  <1>10. ClientsMapped'
    <2>1. ASSUME NEW i \in Map!Clients
          PROVE  mmap'[i] = Map!client_port_mmap(i) \/ ~(i < next' \/ phase' # "map")
      <3>1. i \in Mapped /\ i \in 0 .. 15 /\ ~Map!IsLine(i)
        BY MappedAre DEF Map!Clients
      <3>2. CASE i = next
        BY <1>3, <1>5, <1>7, <3>1, <3>2, Zenon
      <3>3. CASE i # next /\ (i < next' \/ phase' # "map")
        <4>1. i < next
          BY <1>1, <1>2, <3>1, <3>3
        <4>2. mmap[i] = Map!client_port_mmap(i)
          BY <1>1, <4>1, Zenon DEF ClientsMapped
        <4> QED BY <1>3, <1>5, <3>1, <3>3, <4>2, Zenon
      <3> QED BY <3>2, <3>3
    <2> QED BY <2>1, Zenon DEF ClientsMapped
  <1>11. phase' = "map" => next' <= 17
    BY <1>1, <1>2
  <1>12. \A t \in touched' : Serves(t)
    BY <1>2, Zenon DEF MapInv
  <1>13. phase' # "run"
    BY <1>2
  <1> QED BY <1>9, <1>10, <1>11, <1>12, <1>13, Zenon DEF MapInv, Serves, Map!ServedWhenPrepared

\* A step after the mapping leaves the tables as they are: what it uses is judged by
\* them.
LEMMA TablesKept ==
    ASSUME MapInv, phase # "map", mmap' = mmap, next' = next, phase' \in {"boot", "run"},
           initialised' \in SUBSET Map!Clients, txDisable' \in [Map!Lines -> {0, 1}],
           mapRate' \in [Map!Clients -> Rates], flagged' \in SUBSET Map!Clients,
           \A t \in touched' : Serves(t), phase' = "run" => initialised' = Map!Clients
    PROVE  MapInv'
  <1>1. \A t \in touched' : t.of \in Mapped /\ t.field \in Map!Fields
    BY Zenon DEF Serves
  <1>2. Map!TypeOK
    BY DEF MapInv
  <1>3. Map!TypeOK'
    BY <1>1, <1>2, SMT DEF Map!TypeOK
  <1>4. ClientsMapped'
    BY Zenon DEF MapInv, ClientsMapped
  <1>5. phase' # "map"
    OBVIOUS
  <1> QED BY <1>3, <1>4, <1>5, Zenon DEF MapInv, Serves, Map!ServedWhenPrepared

\* Switching the lines on or off: both loops end before the last one.
LEMMA TransmittersAre ==
    ASSUME Map!TypeOK, NEW x \in {0, 1}
    PROVE  [l \in Map!Lines |-> IF l \in Map!LinesInLoop THEN x ELSE txDisable[l]]
              \in [Map!Lines -> {0, 1}]
  <1>1. txDisable \in [Map!Lines -> {0, 1}]
    BY SMT DEF Map!TypeOK
  <1> QED BY <1>1, Zenon

LEMMA RunningKeeps ==
    ASSUME MapInv, Map!Running, mapRate' \in [Map!Clients -> Rates],
           flagged' \in SUBSET Map!Clients, \A t \in touched' : Serves(t)
    PROVE  MapInv'
  <1>1. /\ phase = "run" /\ phase' = "run" /\ mmap' = mmap /\ next' = next
        /\ initialised' = initialised /\ txDisable' = txDisable
    BY Zenon DEF Map!Running
  <1>2. initialised = Map!Clients /\ txDisable \in [Map!Lines -> {0, 1}]
    BY <1>1, SMT DEF MapInv, Map!ServedWhenPrepared, Map!TypeOK
  <1> QED BY <1>1, <1>2, TablesKept, Zenon

LEMMA MapNext ==
    ASSUME Map!RegisterMapAssumption, MapInv, Map!Next
    PROVE  MapInv'
  <1>1. Map!TypeOK /\ ClientsMapped
    BY DEF MapInv
  <1>2. /\ initialised \in SUBSET Map!Clients /\ flagged \in SUBSET Map!Clients
        /\ mapRate \in [Map!Clients -> Rates] /\ txDisable \in [Map!Lines -> {0, 1}]
    BY <1>1, SMT DEF Map!TypeOK
  <1>3. phase # "map" => \A i \in Map!Clients : mmap[i] = Map!client_port_mmap(i)
    BY <1>1, Zenon DEF ClientsMapped
  <1>4. \A i \in Map!Clients : i \in Mapped
    BY DEF Map!Clients
  <1>5. CASE Map!init_interface_data
    BY <1>5, MapsNext
  <1>6. CASE Map!disable_all_line_transceivers_tx
    <2>1. /\ phase = "disable" /\ phase' = "boot" /\ touched' = Map!LockLines("boot")
          /\ txDisable' = [l \in Map!Lines |-> IF l \in Map!LinesInLoop THEN 1 ELSE txDisable[l]]
          /\ mmap' = mmap /\ next' = next /\ initialised' = initialised /\ mapRate' = mapRate
          /\ flagged' = flagged
      BY <1>6, Zenon DEF Map!disable_all_line_transceivers_tx
    <2>2. txDisable' \in [Map!Lines -> {0, 1}]
      <3>1. 1 \in {0, 1}
        OBVIOUS
      <3> QED BY <1>1, <2>1, <3>1, TransmittersAre, Zenon
    <2>3. \A t \in touched' : Serves(t)
      BY <1>3, <2>1, LockServes, Zenon
    <2>4. phase # "map" /\ phase' \in {"boot", "run"} /\ phase' # "run"
      BY <2>1
    <2> QED BY <1>2, <2>1, <2>2, <2>3, <2>4, TablesKept, Zenon
  <1>7. ASSUME NEW c \in Map!Clients, Map!BootClient(c) PROVE MapInv'
    <2> DEFINE fs == Map!Own(c, {"stm_14", "stm_16", "gepcs", "gemac", "ge"}) \cup {<<"gemac", 1>>}
    <2>1. /\ phase = "boot" /\ c \notin initialised
          /\ phase' = (IF Map!Clients \ initialised = {c} THEN "run" ELSE "boot")
          /\ touched' = Map!Use("boot", {c}, fs) \cup Map!LockLines("boot")
          /\ initialised' = initialised \cup {c}
          /\ txDisable' = [l \in Map!Lines |-> IF l \in Map!LinesInLoop THEN 0 ELSE txDisable[l]]
          /\ mmap' = mmap /\ next' = next /\ mapRate' = mapRate /\ flagged' = flagged
      BY <1>7, Zenon DEF Map!BootClient
    <2>2. txDisable' \in [Map!Lines -> {0, 1}]
      <3>1. 0 \in {0, 1}
        OBVIOUS
      <3> QED BY <1>1, <2>1, <3>1, TransmittersAre, Zenon
    <2>3. Fit({c}, fs)
      <3>1. {"stm_14", "stm_16", "gepcs", "gemac", "ge"} \in SUBSET (Map!Blocks \ {"otu2_brick"})
        BY DEF Map!Blocks
      <3>2. Fit({c}, Map!Own(c, {"stm_14", "stm_16", "gepcs", "gemac", "ge"}))
        BY <1>4, <3>1, OwnFits, Zenon
      <3> QED BY <3>2 DEF Fit, Map!Fields, Map!Blocks
    <2> HIDE DEF fs
    <2>4. \A t \in touched' : Serves(t)
      <3>1. \A t \in Map!Use("boot", {c}, fs) : Serves(t)
        BY <1>3, <2>1, <2>3, UseServes
      <3>2. \A t \in Map!LockLines("boot") : Serves(t)
        BY <1>3, <2>1, LockServes
      <3> QED BY <2>1, <3>1, <3>2, Zenon
    <2>5. /\ phase # "map" /\ phase' \in {"boot", "run"} /\ initialised' \in SUBSET Map!Clients
          /\ phase' = "run" => initialised' = Map!Clients
      BY <1>2, <2>1
    <2> QED BY <1>2, <2>1, <2>2, <2>4, <2>5, TablesKept, Zenon
  <1>8. Map!Running => phase # "map" /\ phase = "run"
    BY Zenon DEF Map!Running
  <1>9. ASSUME NEW i \in Mapped, Map!update_if_dynamic_data(i) PROVE MapInv'
    <2> DEFINE fs == (IF Map!IsLine(i) THEN {} ELSE Map!Own(i, {"odtu"})) \cup Map!StatsOf(i)
    <2>1. /\ Map!Running /\ mapRate' = mapRate /\ flagged' = flagged
          /\ touched' = Map!Use("read", {i}, fs)
      BY <1>9, Zenon DEF Map!update_if_dynamic_data
    <2>2. Fit({i}, fs)
      <3>1. {"odtu"} \in SUBSET (Map!Blocks \ {"otu2_brick"})
        BY DEF Map!Blocks
      <3>2. Fit({i}, Map!Own(i, {"odtu"})) /\ Fit({i}, Map!StatsOf(i))
        BY <1>1, <3>1, OwnFits, StatsFit
      <3> QED BY <3>2 DEF Fit
    <2> HIDE DEF fs
    <2>3. \A t \in touched' : Serves(t)
      BY <1>3, <1>8, <2>1, <2>2, UseServes
    <2> QED BY <1>2, <2>1, <2>3, RunningKeeps, Zenon
  <1>10. ASSUME NEW i \in Mapped, Map!RecoverFromLof(i) PROVE MapInv'
    <2>1. /\ Map!Running /\ mapRate' = mapRate /\ flagged' = flagged
          /\ \/ touched' = Map!LockLines("recover")
             \/ touched' = Map!Use("recover", {i}, {<<"odtu", 1>>})
      BY <1>10, Zenon DEF Map!RecoverFromLof
    <2>2. {<<"odtu", 1>>} \subseteq Map!Fields
      BY DEF Map!Fields, Map!Blocks
    <2>3. \A t \in Map!Use("recover", {i}, {<<"odtu", 1>>}) : Serves(t)
      BY <1>3, <1>8, <2>1, <2>2, UseServes
    <2>4. \A t \in Map!LockLines("recover") : Serves(t)
      BY <1>3, <1>8, <2>1, LockServes
    <2>5. \A t \in touched' : Serves(t)
      BY <2>1, <2>3, <2>4, Zenon
    <2> QED BY <1>2, <2>1, <2>5, RunningKeeps, Zenon
  <1>11. ASSUME NEW i \in Mapped, Map!Running PROVE \A t \in Map!reconfigure_ge_port(i) : Serves(t)
    <2>1. {"gepcs", "gemac", "ge"} \in SUBSET (Map!Blocks \ {"otu2_brick"})
      BY DEF Map!Blocks
    <2>2. Fit({i}, Map!Own(i, {"gepcs", "gemac", "ge"}))
      BY <2>1, OwnFits
    <2>3. \A t \in Map!Use("reconfigure", {i}, Map!Own(i, {"gepcs", "gemac", "ge"})) : Serves(t)
      BY <1>3, <1>8, <1>11, <2>2, UseServes
    <2> QED BY <2>3, Zenon DEF Map!reconfigure_ge_port
  <1>12. ASSUME NEW c \in Map!Clients, NEW r \in Rates, Map!set_if_port_rate(c, r) PROVE MapInv'
    <2>1. /\ Map!Running /\ mapRate' = [mapRate EXCEPT ![c] = r] /\ flagged' = flagged \cup {c}
          /\ touched' = Map!Use("rate", {c}, Map!Own(c, {"odtu"}))
                           \cup (IF r = "GE" THEN Map!reconfigure_ge_port(c) ELSE {})
      BY <1>12, Zenon DEF Map!set_if_port_rate
    <2>2. {"odtu"} \in SUBSET (Map!Blocks \ {"otu2_brick"})
      BY DEF Map!Blocks
    <2>3. \A t \in Map!Use("rate", {c}, Map!Own(c, {"odtu"})) : Serves(t)
      <3>1. Fit({c}, Map!Own(c, {"odtu"}))
        BY <1>4, <2>2, OwnFits
      <3> QED BY <1>3, <1>8, <2>1, <3>1, UseServes
    <2>4. \A t \in Map!reconfigure_ge_port(c) : Serves(t)
      BY <1>4, <1>11, <2>1, Zenon
    <2>5. \A t \in touched' : Serves(t)
      BY <2>1, <2>3, <2>4
    <2>6. mapRate' \in [Map!Clients -> Rates]
      BY <1>2, <2>1, OneChanged, Zenon
    <2>7. flagged' \in SUBSET Map!Clients
      BY <1>2, <2>1
    <2> QED BY <2>1, <2>5, <2>6, <2>7, RunningKeeps, Zenon
  <1>13. CASE Map!ResetFramers
    <2>1. /\ Map!Running /\ flagged' = {} /\ mapRate' = mapRate
          /\ touched' = UNION {Map!Use("reset", {i}, Map!Own(i, {"stm_14"})) : i \in flagged}
      BY <1>13, Zenon DEF Map!ResetFramers
    <2>2. {"stm_14"} \in SUBSET (Map!Blocks \ {"otu2_brick"})
      BY DEF Map!Blocks
    <2>3. ASSUME NEW i \in flagged PROVE \A t \in Map!Use("reset", {i}, Map!Own(i, {"stm_14"})) : Serves(t)
      <3>1. Fit({i}, Map!Own(i, {"stm_14"}))
        BY <1>2, <1>4, <2>2, OwnFits
      <3> QED BY <1>3, <1>8, <2>1, <3>1, UseServes
    <2>4. \A t \in touched' : Serves(t)
      BY <2>1, <2>3, Zenon
    <2>5. flagged' \in SUBSET Map!Clients
      BY <2>1
    <2> QED BY <1>2, <2>1, <2>4, <2>5, RunningKeeps, Zenon
  <1>14. ASSUME NEW c \in Map!Clients, Map!ModuleReady(c) PROVE MapInv'
    <2>1. Map!Running /\ mapRate' = mapRate /\ flagged' = flagged /\ touched' = Map!reconfigure_ge_port(c)
      BY <1>14, Zenon DEF Map!ModuleReady
    <2>2. \A t \in touched' : Serves(t)
      BY <1>4, <1>11, <2>1, Zenon
    <2> QED BY <1>2, <2>1, <2>2, RunningKeeps, Zenon
  <1>15. ASSUME NEW i \in Mapped, Map!callback_on_transceiver_plug_change(i) PROVE MapInv'
    <2> DEFINE fs == {<<"gemac", IF i < 9 THEN 1 ELSE 2>>}
    <2>1. Map!Running /\ mapRate' = mapRate /\ flagged' = flagged /\ touched' = Map!Use("unplug", {i}, fs)
      BY <1>15, Zenon DEF Map!callback_on_transceiver_plug_change
    <2>2. Fit({i}, fs)
      BY DEF Fit, Map!Fields, Map!Blocks
    <2> HIDE DEF fs
    <2>3. \A t \in touched' : Serves(t)
      BY <1>3, <1>8, <2>1, <2>2, UseServes
    <2> QED BY <1>2, <2>1, <2>3, RunningKeeps, Zenon
  <1>16. ASSUME NEW c \in Map!Clients, Map!ClearCounters(c) PROVE MapInv'
    <2>1. /\ Map!Running /\ mapRate' = mapRate /\ flagged' = flagged
          /\ touched' = Map!Use("clear", {c}, Map!Own(c, {"gemac"}))
      BY <1>16, Zenon DEF Map!ClearCounters
    <2>2. {"gemac"} \in SUBSET (Map!Blocks \ {"otu2_brick"})
      BY DEF Map!Blocks
    <2>3. Fit({c}, Map!Own(c, {"gemac"}))
      BY <1>4, <2>2, OwnFits
    <2>4. \A t \in touched' : Serves(t)
      BY <1>3, <1>8, <2>1, <2>3, UseServes
    <2> QED BY <1>2, <2>1, <2>4, RunningKeeps, Zenon
  <1> QED BY <1>5, <1>6, <1>7, <1>9, <1>10, <1>12, <1>13, <1>14, <1>15, <1>16, Zenon DEF Map!Next

LEMMA MapAsSaid ==
    ASSUME MapInv
    PROVE  Map!ClientUsesItsOwn /\ Map!ServedWhenPrepared
  BY DEF MapInv, Serves, Map!ClientUsesItsOwn, Map!Uses

-----------------------------------------------------------------------------
(* A component that does not move *)

LEMMA AlarmsStay ==
    ASSUME AlarmsInv, UNCHANGED alarmsVars
    PROVE  AlarmsInv'
  <1>1. /\ present' = present /\ live' = live /\ odu' = odu /\ level' = level /\ state' = state
        /\ prot' = prot /\ monitor' = monitor /\ alarms' = alarms /\ odux_alarms' = odux_alarms
        /\ read' = read /\ temperature' = temperature /\ alarm1' = alarm1 /\ alarm2' = alarm2
        /\ selected_if' = selected_if /\ led' = led /\ known' = known /\ quiet' = quiet
        /\ changes' = changes
    BY Zenon DEF alarmsVars
  <1>2. Alarms!TypeOK'
    BY <1>1, Zenon DEF AlarmsInv, Alarms!TypeOK
  <1>3. Alarms!LedFollows' /\ LinesApart'
    BY <1>1, Zenon DEF AlarmsInv, Alarms!LedFollows, LinesApart
  <1>4. ReadSince'
    BY <1>1, Zenon DEF AlarmsInv, ReadSince, Fresh, Since, Shows, Alarms!DefectsOf
  <1>5. SummedUp'
    BY <1>1, Zenon DEF AlarmsInv, SummedUp, Alarms!Warned, Alarms!Critical
  <1> QED BY <1>2, <1>3, <1>4, <1>5 DEF AlarmsInv

LEMMA MapStays ==
    ASSUME MapInv, UNCHANGED registersVars
    PROVE  MapInv'
  <1>1. /\ mmap' = mmap /\ next' = next /\ phase' = phase /\ initialised' = initialised
        /\ txDisable' = txDisable /\ mapRate' = mapRate /\ flagged' = flagged
        /\ touched' = touched
    BY Zenon DEF registersVars
  <1> QED BY <1>1, SMT DEF MapInv, Map!TypeOK, ClientsMapped, Serves, Map!ServedWhenPrepared

LEMMA MuxStays ==
    ASSUME Mux!TypeOK, UNCHANGED muxVars
    PROVE  Mux!TypeOK'
  <1>1. current' = current /\ mux' = mux /\ taken' = taken /\ access' = access
    BY Zenon DEF muxVars
  <1> QED BY <1>1, Zenon DEF Mux!TypeOK

LEMMA GeneratorStays ==
    ASSUME GeneratorInv, UNCHANGED generatorVars
    PROVE  GeneratorInv'
  <1>1. /\ genPc' = genPc /\ chip' = chip /\ k' = k /\ mem' = mem /\ excused' = excused
        /\ refusals' = refusals
    BY Zenon DEF generatorVars
  <1> QED BY <1>1, Zenon DEF GeneratorInv, Generator!TypeOK, WrittenOrExcused, PassedBy,
          Generator!Started, Generator!LineStepsAgain

LEMMA ClocksStay ==
    ASSUME ClocksInv, UNCHANGED clocksVars
    PROVE  ClocksInv'
  <1>1. clkRate' = clkRate /\ cfg' = cfg /\ out' = out /\ last' = last
    BY Zenon DEF clocksVars
  <1> QED BY <1>1, Zenon DEF ClocksInv, Clocks!TypeOK, CopyFits, Clocks!ClockFollowsRate, Clocks!Right

-----------------------------------------------------------------------------
(* The board *)

BoardInv ==
    /\ part \in Parts
    /\ AlarmsInv /\ MapInv /\ MasterInv /\ Mux!TypeOK /\ GeneratorInv /\ ClocksInv

LEMMA BoardInit == Init => BoardInv
  <1>1. /\ Alarms!CardAlarmsAssumption /\ Map!RegisterMapAssumption /\ Master!I2cMasterAssumption
        /\ Mux!I2cMuxAssumption /\ Generator!ClockGenAssumption /\ Clocks!ClientsAssumption
    BY BoardAssumption, Zenon DEF BoardAssumption
  <1>2. Init => part \in Parts /\ Alarms!Init /\ Map!Init /\ Master!Init /\ Mux!Init
                /\ Generator!Init /\ Clocks!Init
    BY Zenon DEF Init
  <1> QED BY <1>1, <1>2, AlarmsInit, MapInit, MasterInit, MuxInit, GeneratorInit, ClocksInit,
             Zenon DEF BoardInv

\* What a step does to each component: its own, or nothing.
LEMMA PartMoves ==
    ASSUME [Next]_vars
    PROVE  /\ part' = part
           /\ Alarms!Next \/ UNCHANGED alarmsVars
           /\ Map!Next \/ UNCHANGED registersVars
           /\ Master!Next \/ UNCHANGED i2cVars
           /\ Mux!Next \/ UNCHANGED muxVars
           /\ Generator!Next \/ UNCHANGED generatorVars
           /\ Clocks!Next \/ UNCHANGED clocksVars
  <1>1. CASE Next
    <2>1. /\ \/ part = "alarms" /\ Alarms!Next
             \/ part = "registers" /\ Map!Next
             \/ part = "i2c" /\ Master!Next
             \/ part = "mux" /\ Mux!Next
             \/ part = "generator" /\ Generator!Next
             \/ part = "clocks" /\ Clocks!Next
          /\ part' = part
          /\ part # "alarms" => UNCHANGED alarmsVars
          /\ part # "registers" => UNCHANGED registersVars
          /\ part # "i2c" => UNCHANGED i2cVars
          /\ part # "mux" => UNCHANGED muxVars
          /\ part # "generator" => UNCHANGED generatorVars
          /\ part # "clocks" => UNCHANGED clocksVars
      BY <1>1, Zenon DEF Next, OnlyPartMoves
    <2> QED BY <2>1
  <1>2. CASE UNCHANGED vars
    BY <1>2, Zenon DEF vars
  <1> QED BY <1>1, <1>2

LEMMA BoardNext ==
    ASSUME BoardInv, [Next]_vars
    PROVE  /\ BoardInv'
           /\ CallKept
           /\ [Clocks!OthersFollow]_(Clocks!vars)
  <1>1. /\ Alarms!CardAlarmsAssumption /\ Map!RegisterMapAssumption /\ Master!I2cMasterAssumption
        /\ Mux!I2cMuxAssumption /\ Generator!ClockGenAssumption /\ Clocks!ClientsAssumption
    BY BoardAssumption, Zenon DEF BoardAssumption
  <1>2. part' \in Parts
    BY PartMoves, Zenon DEF BoardInv
  <1>3. AlarmsInv'
    BY <1>1, PartMoves, AlarmsNext, AlarmsStay, Zenon DEF BoardInv
  <1>4. MapInv'
    BY <1>1, PartMoves, MapNext, MapStays, Zenon DEF BoardInv
  <1>5. MasterInv' /\ CallKept
    <2>1. [Master!Next]_(Master!vars)
      BY PartMoves, Zenon DEF i2cVars, Master!vars
    <2> QED BY <1>1, <2>1, MasterNext, Zenon DEF BoardInv
  <1>6. Mux!TypeOK'
    BY <1>1, PartMoves, MuxNext, MuxStays, Zenon DEF BoardInv
  <1>7. GeneratorInv'
    BY <1>1, PartMoves, GeneratorNext, GeneratorStays, Zenon DEF BoardInv
  <1>8. CASE Clocks!Next
    BY <1>1, <1>2, <1>3, <1>4, <1>5, <1>6, <1>7, <1>8, ClocksNext, Zenon DEF BoardInv
  <1>9. CASE UNCHANGED clocksVars
    <2>1. UNCHANGED Clocks!vars
      BY <1>9, Zenon DEF clocksVars, Clocks!vars
    <2>2. ClocksInv'
      BY <1>9, ClocksStay, Zenon DEF BoardInv
    <2> QED BY <1>2, <1>3, <1>4, <1>5, <1>6, <1>7, <2>1, <2>2, Zenon DEF BoardInv
  <1> QED BY <1>8, <1>9, PartMoves, Zenon

LEMMA BoardHolds == Spec => []BoardInv
  <1>1. Init => BoardInv
    BY BoardInit
  <1>2. BoardInv /\ [Next]_vars => BoardInv'
    BY BoardNext
  <1> QED BY <1>1, <1>2, PTL DEF Spec

-----------------------------------------------------------------------------
(* The theorems *)

\* Every component keeps its state in range: a step of the board stays within the
\* interfaces, the ports and the registers that there are (update_if_dynamic_data,
\* sls_avalon_i2c_write, select_channel_on_bus4, ipg_si5338_config, ipg_si5375_config).
THEOREM TypeCorrect == Spec => []TypeOK
  <1>1. BoardInv => TypeOK
    <2>1. SUFFICES ASSUME BoardInv PROVE TypeOK
      OBVIOUS
    <2>2. part \in Parts /\ Alarms!TypeOK /\ Map!TypeOK /\ Master!TypeOK /\ Mux!TypeOK /\ Generator!TypeOK /\ Clocks!TypeOK
      BY <2>1, Zenon DEF BoardInv, AlarmsInv, MapInv, MasterInv, GeneratorInv, ClocksInv
    <2> HIDE DEF MapInv, MasterInv, GeneratorInv, ClocksInv, AlarmsInv
    <2> QED BY <2>2 DEF Parts, TypeOK
  <1> QED BY <1>1, BoardHolds, PTL

\* Whatever comes and goes while the interfaces are read one at a time, each alarm that
\* stays is told of and each one that has gone is taken back, and the LEDs show what
\* was told (task_55, update_card_alarms, send_alarms_to_control_unit).
THEOREM AlarmsTrue == Spec => []AlarmsAreTrue
  <1>1. BoardInv => AlarmsAreTrue
    <2>1. SUFFICES ASSUME BoardInv PROVE AlarmsAreTrue
      OBVIOUS
    <2>2. AlarmsInv /\ Alarms!LedFollows /\ Alarms!CardAlarmsAssumption
      BY <2>1, BoardAssumption, Zenon DEF BoardInv, AlarmsInv, BoardAssumption
    <2> QED BY <2>2, AlarmsAreAsSaid, Zenon DEF AlarmsAreTrue
  <1> QED BY <1>1, BoardHolds, PTL

\* Each device is the one meant, whatever was refused before: a client's own registers
\* in its own FPGA, a bus that is free after a call, every register of a clock
\* generator, the clock of the client's rate (client_port_mmap, sls_avalon_i2c_m.c,
\* ipg_si5338_config, set_if_port_rate).
THEOREM DevicesReached == Spec => []DevicesAreReached
  <1>1. BoardInv => DevicesAreReached
    <2>1. SUFFICES ASSUME BoardInv PROVE DevicesAreReached
      OBVIOUS
    <2>2. /\ part \in Parts
          /\ Map!ClientUsesItsOwn /\ Map!ServedWhenPrepared
          /\ Master!LineIsReleased /\ Master!HeldOnlyAfterRefusal
          /\ Generator!NoneForgotten /\ Generator!LineStepsAgain
          /\ Clocks!ClockFollowsRate
      <3>1. part \in Parts /\ MapInv /\ MasterInv /\ GeneratorInv /\ ClocksInv
        BY <2>1, Zenon DEF BoardInv
      <3>2. Map!ClientUsesItsOwn /\ Map!ServedWhenPrepared
        BY <3>1, MapAsSaid, Zenon
      <3>3. Master!LineIsReleased /\ Master!HeldOnlyAfterRefusal
        BY <3>1, Zenon DEF MasterInv
      <3>4. Generator!NoneForgotten /\ Generator!LineStepsAgain
        BY <3>1, GeneratorAsSaid, Zenon
      <3>5. Clocks!ClockFollowsRate
        BY <3>1, Zenon DEF ClocksInv
      <3> QED BY <3>1, <3>2, <3>3, <3>4, <3>5, Zenon
    <2> QED BY <2>2 DEF Parts, DevicesAreReached
  <1> QED BY <1>1, BoardHolds, PTL

\* No call of the I2C driver leaves its device driving the line, and the bus is held
\* between calls only after a refused block or word read (the returns at lines 329,
\* 338, 348 and 430 to 450 of sls_avalon_i2c_m.c): with any number of buses, and with
\* devices that stretch the clock, too.
THEOREM LineReleased == Spec => [](Master!LineIsReleased /\ Master!HeldOnlyAfterRefusal)
  <1>1. BoardInv => Master!LineIsReleased /\ Master!HeldOnlyAfterRefusal
    BY Zenon DEF BoardInv, MasterInv
  <1> QED BY <1>1, BoardHolds, PTL

\* The driver implements the promise its callers rely on, with devices that stretch
\* the clock, too (a read that returns OK delivers the registers asked for; a write
\* stores all of its bytes, a part of them with FAIL, or none; only a call that did
\* not wait for one of its own bytes may do anything else), and the change of one
\* client's rate gives no other client a clock that is not that of its own rate
\* (sls_avalon_i2c_write, sls_avalon_i2c_read, checKTip, set_if_port_rate).
THEOREM PromisesKept == Spec => StepsKeepPromises
  <1>1. Init => Master!Abstract!Init
    <2>1. Init => Master!Init
      BY Zenon DEF Init
    <2>2. Master!I2cMasterAssumption
      BY BoardAssumption, Zenon DEF BoardAssumption
    <2>3. Master!Init => Master!Abstract!Init
      BY <2>2 DEF Master!Init, Master!Abstract!Init, Master!Called, Master!Abstract!Calls, Master!Register,
         Master!I2cMasterAssumption
    <2> QED BY <2>1, <2>3
  <1>2. BoardInv /\ [Next]_vars =>
            [\/ Master!Abstract!Ask \/ Master!Abstract!Write \/ Master!Abstract!ReadOk
             \/ Master!Abstract!ReadFail \/ Master!Abstract!Late]_
                <<Master!Called, IF i2cPc = "idle" THEN dev.mem ELSE before, result,
                  IF i2cPc = "idle" THEN buff ELSE <<>>, i2cPc = "idle" /\ late>>
    BY BoardNext, Zenon DEF CallKept
  <1>3. BoardInv /\ [Next]_vars =>
            [Clocks!OthersFollow]_(Clocks!vars)
    BY BoardNext
  <1>4. Spec => Master!CallsAreAtomic
    BY <1>1, <1>2, BoardHolds, PTL DEF Spec, Master!CallsAreAtomic, Master!Abstract!Spec
  <1>5. Spec => Clocks!OthersKeepTheirClock
    BY <1>3, BoardHolds, PTL DEF Spec, Clocks!OthersKeepTheirClock
  <1> QED BY <1>4, <1>5 DEF StepsKeepPromises
=============================================================================
