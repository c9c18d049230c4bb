--------------------------- MODULE KursLinkProofs ---------------------------
(***************************************************************************)
(* Proofs about the link to the control unit, for every size of packets    *)
(* and buffers, any number of faults and every value a damaged byte may    *)
(* take.                                                                   *)
(*                                                                         *)
(* First what a byte does to the receiver, a record; then the invariant:   *)
(* the buffers (BuffersInv), the alarm (ServingInv) and how far an         *)
(* undisturbed packet has come (LineInv); then its uses: the answer to an  *)
(* undisturbed request, the refinement of BoundedFifo and, with a       *)
(* budget of bytes per fault (RunInv), the bound of the counter.           *)
(***************************************************************************)
EXTENDS KursLink, SequenceTheorems, TLAPS

\* Each result is under KursLinkAssumption, which the runs check of their constants.
USE DEF KursLinkAssumption

-----------------------------------------------------------------------------
(* The receiver: what its operators do to the fields of the record.        *)

Mems == [1 .. 2 -> [1 .. Cap -> Byte \cup {Zero}]]

\* ProcessorOK with the sets of the fields as parameters: the provers update a
\* record better when they do not see what is in it.
Of(R, C, F, B, S) ==
    [receive : R, cntr : C, request_ready : F, buff : B, buff_copy : B, mem : S]

States == {"eop", "sop", "payload"}
Receivers == Of(States, 0 .. Cap + 1, BOOLEAN, 1 .. 2, Mems)

LEMMA FieldsIs ==
    ASSUME NEW p \in Receivers
    PROVE  /\ p.receive \in States /\ p.cntr \in 0 .. Cap + 1
           /\ p.request_ready \in BOOLEAN
           /\ p.buff \in 1 .. 2 /\ p.buff_copy \in 1 .. 2
           /\ p.mem \in Mems
  BY Zenon DEF Receivers, Of

LEMMA ReceiverIsOK == \A p \in Receivers : ProcessorOK(p, Byte)
  BY FieldsIs, Zenon DEF ProcessorOK, States, Mems

\* What the alarm sees of a receiver.
Kept(q, p) ==
    /\ q.buff = p.buff /\ q.buff_copy = p.buff_copy
    /\ q.request_ready <=> p.request_ready

\* Where a byte is stored: behind the others, if there is room.
StoredIn(q, p, c) ==
    /\ \A i \in 1 .. Cap :
          q.mem[p.buff][i] = IF i = p.cntr + 1 THEN c ELSE p.mem[p.buff][i]
    /\ q.mem[3 - p.buff] = p.mem[3 - p.buff]

\* this->buff[this->_cntr++] = c.
LEMMA StoreStep ==
    ASSUME KursLinkAssumption, NEW p \in Receivers, NEW c \in Byte
    PROVE  LET q == Store(p, c) IN
           /\ q \in Receivers /\ StoredIn(q, p, c) /\ Kept(q, p)
           /\ q.receive = p.receive
           /\ q.cntr = IF p.cntr < Cap THEN p.cntr + 1 ELSE Cap + 1
<1>p. /\ p.buff \in 1 .. 2 /\ p.cntr \in 0 .. Cap + 1 /\ p.mem \in Mems
  BY FieldsIs
<1>1. CASE p.cntr < Cap
  <2> DEFINE m == [p.mem EXCEPT ![p.buff][p.cntr + 1] = c]
  <2>1. PICK n : n = p.cntr + 1
    OBVIOUS
  <2>2. n \in 0 .. Cap + 1 /\ n \in 1 .. Cap
    BY <1>p, <1>1, <2>1
  <2>3. /\ m \in Mems
        /\ \A i \in 1 .. Cap : m[p.buff][i] = IF i = p.cntr + 1 THEN c ELSE p.mem[p.buff][i]
        /\ m[3 - p.buff] = p.mem[3 - p.buff]
    <3> DEFINE row == [p.mem[p.buff] EXCEPT ![n] = c]
    <3>1. p.mem[p.buff] \in [1 .. Cap -> Byte \cup {Zero}]
      BY <1>p DEF Mems
    <3>2. /\ row \in [1 .. Cap -> Byte \cup {Zero}]
          /\ \A i \in 1 .. Cap : row[i] = IF i = n THEN c ELSE p.mem[p.buff][i]
      BY <3>1
    <3>3. m = [p.mem EXCEPT ![p.buff] = row]
      BY <2>1, Zenon
    <3> HIDE DEF row
    <3>4. m \in Mems /\ m[p.buff] = row
      BY <1>p, <3>2, <3>3 DEF Mems
    <3>5. m[3 - p.buff] = p.mem[3 - p.buff]
      BY <1>p, <3>3 DEF Mems
    <3> QED BY <2>1, <3>2, <3>4, <3>5
  <2>4. Store(p, c) = [p EXCEPT !.mem = m, !.cntr = n]
    BY <1>1, <2>1 DEF Receivers, Of, Store
  <2> HIDE DEF m
  <2>5. LET q == Store(p, c) IN
        /\ q \in Receivers /\ q.mem = m /\ Kept(q, p)
        /\ q.cntr = n /\ q.receive = p.receive
    <3>1. \E R, C, F, B : n \in C /\ Receivers = Of(R, C, F, B, Mems)
      BY <2>2, Zenon DEF Receivers
    <3>2. PICK R, C, F, B : n \in C /\ Receivers = Of(R, C, F, B, Mems)
      BY <3>1, Zenon
    <3> QED BY <2>3, <2>4, <3>2, Zenon DEF Of, Kept
  <2>6. StoredIn(Store(p, c), p, c)
    BY <2>3, <2>5 DEF StoredIn
  <2> QED BY <1>1, <2>1, <2>5, <2>6
<1>2. CASE ~(p.cntr < Cap)
  <2>1. PICK n : n = Cap + 1
    OBVIOUS
  <2>2. n \in 0 .. Cap + 1
    BY <2>1
  <2>3. Store(p, c) = [p EXCEPT !.cntr = n]
    BY <1>2, <2>1, Zenon DEF Store
  <2>4. LET q == Store(p, c) IN
        /\ q \in Receivers /\ q.mem = p.mem /\ Kept(q, p)
        /\ q.cntr = n /\ q.receive = p.receive
    <3>1. \E R, C, F, B : n \in C /\ Receivers = Of(R, C, F, B, Mems)
      BY <2>2, Zenon DEF Receivers
    <3>2. PICK R, C, F, B : n \in C /\ Receivers = Of(R, C, F, B, Mems)
      BY <3>1, Zenon
    <3> QED BY <2>3, <3>2, Zenon DEF Of, Kept
  <2>5. \A i \in 1 .. Cap : i # p.cntr + 1
    BY <1>p, <1>2
  <2>6. StoredIn(Store(p, c), p, c)
    BY <2>4, <2>5, Zenon DEF StoredIn
  <2> QED BY <1>2, <2>1, <2>4, <2>6, Zenon
<1> QED BY <1>1, <1>2, Zenon

\* What a byte may do: it passes by, it is stored and more are to come, or it
\* completes a packet.
Passed(q, p) ==
    /\ q \in Receivers /\ q.mem = p.mem /\ Kept(q, p)

Fed(q, p, c) ==
    /\ q \in Receivers /\ StoredIn(q, p, c) /\ Kept(q, p)
    /\ q.receive = "payload"
    /\ q.cntr = IF p.cntr < Cap THEN p.cntr + 1 ELSE Cap + 1

HandedOver(q, p, c) ==
    /\ q \in Receivers /\ q.receive = "sop" /\ q.cntr = 0 /\ q.request_ready
    /\ q.buff_copy = p.buff /\ q.buff = 3 - p.buff
    /\ \A i \in 1 .. Cap :
          q.mem[p.buff][i] = IF i = p.cntr + 1 THEN c ELSE p.mem[p.buff][i]
    /\ q.mem[3 - p.buff] = Blank

Arrival(q, p, c) ==
    \/ /\ p.receive = "eop" /\ Passed(q, p) /\ q.cntr = p.cntr
       /\ q.receive = IF c.val = "eop" THEN "sop" ELSE "eop"
    \/ /\ p.receive = "sop" /\ c.val # "sop" /\ Passed(q, p)
       /\ q.cntr = 0 /\ q.receive = "eop"
    \/ p.receive = "sop" /\ c.val = "sop" /\ Fed(q, p, c)
    \/ p.receive = "payload" /\ c.val # "eop" /\ Fed(q, p, c)
    \/ p.receive = "payload" /\ c.val = "eop" /\ HandedOver(q, p, c)

\* A complete request goes to the alarm, the other buffer is cleared.
LEMMA HandOverStep ==
    ASSUME KursLinkAssumption, NEW p \in Receivers, NEW c \in Byte
    PROVE  HandedOver(HandOver(Store(p, c)), p, c)
<1> DEFINE s == Store(p, c)
<1>1. /\ s \in Receivers /\ StoredIn(s, p, c) /\ Kept(s, p)
  BY StoreStep, Zenon
<1> HIDE DEF s
<1> DEFINE m == [s.mem EXCEPT ![3 - s.buff] = Blank]
<1>2. PICK b : b = 3 - s.buff
  OBVIOUS
<1>3. s.buff \in 1 .. 2 /\ s.mem \in Mems
  BY <1>1, FieldsIs
<1>4. b \in 1 .. 2 /\ b # s.buff
  BY <1>2, <1>3
<1>5. m \in Mems
  BY <1>2, <1>3, <1>4 DEF Mems, Blank
<1>6. m[b] = Blank /\ m[s.buff] = s.mem[s.buff]
  BY <1>2, <1>3, <1>4 DEF Mems
<1>7. HandOver(s) =
         [s EXCEPT !.receive = "sop", !.cntr = 0, !.request_ready = TRUE,
                   !.buff_copy = s.buff, !.buff = b, !.mem = m]
  BY <1>1, <1>2 DEF HandOver, Receivers, Of
<1> HIDE DEF m
<1>8. \E R, C, F, B :
         /\ "sop" \in R /\ 0 \in C /\ TRUE \in F /\ b \in B /\ s.buff \in B
         /\ Receivers = Of(R, C, F, B, Mems)
  <2>1. "sop" \in States /\ 0 \in 0 .. Cap + 1 /\ TRUE \in BOOLEAN
    BY DEF States
  <2> QED BY <1>3, <1>4, <2>1, Zenon DEF Receivers
<1>9. LET q == HandOver(s) IN
      /\ q \in Receivers /\ q.mem = m /\ q.receive = "sop" /\ q.cntr = 0
      /\ q.request_ready /\ q.buff_copy = s.buff /\ q.buff = b
  <2>1. PICK R, C, F, B :
           /\ "sop" \in R /\ 0 \in C /\ TRUE \in F /\ b \in B /\ s.buff \in B
           /\ Receivers = Of(R, C, F, B, Mems)
    BY <1>8, Zenon
  <2> QED BY <1>1, <1>5, <1>7, <2>1, Zenon DEF Of
<1>10. s.buff = p.buff
  BY <1>1, Zenon DEF Kept
<1>11. b = 3 - p.buff
  BY <1>2, <1>10
<1>12. HandOver(s).mem[p.buff] = s.mem[p.buff] /\ HandOver(s).mem[3 - p.buff] = Blank
  BY <1>6, <1>9, <1>10, <1>11, Zenon
<1>13. \A i \in 1 .. Cap :
          HandOver(s).mem[p.buff][i] = IF i = p.cntr + 1 THEN c ELSE p.mem[p.buff][i]
  BY <1>1, <1>12, Zenon DEF StoredIn
<1>14. HandedOver(HandOver(s), p, c)
  BY <1>9, <1>10, <1>11, <1>12, <1>13, Zenon DEF HandedOver
<1> QED BY <1>14 DEF s

\* The three states of kurs_receive.
LEMMA ReceiveStep ==
    ASSUME KursLinkAssumption, NEW p \in Receivers, NEW c \in Byte
    PROVE  Arrival(kurs_receive(p, c), p, c)
<1>0. "eop" # "sop" /\ "eop" # "payload" /\ "sop" # "payload"
  OBVIOUS
<1>s. "eop" \in States /\ "sop" \in States /\ "payload" \in States /\ 0 \in 0 .. Cap + 1
  BY DEF States
<1>1. CASE p.receive = "eop"
  <2>1. kurs_receive(p, c) = IF c.val = "eop" THEN [p EXCEPT !.receive = "sop"] ELSE p
    BY <1>1, Zenon DEF kurs_receive, listen_eop
  <2>2. CASE c.val = "eop"
    <3>1. kurs_receive(p, c) = [p EXCEPT !.receive = "sop"]
      BY <2>1, <2>2, Zenon
    <3>2. LET q == kurs_receive(p, c) IN
             Passed(q, p) /\ q.cntr = p.cntr /\ q.receive = "sop"
      BY <1>s, <3>1, Zenon DEF Receivers, Of, Passed, Kept
    <3> QED BY <1>1, <2>2, <3>2, Zenon DEF Arrival
  <2>3. CASE c.val # "eop"
    BY <1>1, <2>1, <2>3, Zenon DEF Arrival, Passed, Kept
  <2> QED BY <2>2, <2>3, Zenon
<1>2. CASE p.receive = "sop"
  <2>1. kurs_receive(p, c) = listen_sop(p, c)
    BY <1>0, <1>2, Zenon DEF kurs_receive
  <2>2. CASE c.val = "sop"
    <3> DEFINE s == Store(p, c)
    <3>1. kurs_receive(p, c) = [s EXCEPT !.receive = "payload"]
      BY <2>1, <2>2, Zenon DEF listen_sop
    <3>2. /\ s \in Receivers /\ StoredIn(s, p, c) /\ Kept(s, p)
          /\ s.cntr = IF p.cntr < Cap THEN p.cntr + 1 ELSE Cap + 1
      BY StoreStep, Zenon
    <3> HIDE DEF s
    <3>3. LET q == kurs_receive(p, c) IN
          /\ q \in Receivers /\ q.mem = s.mem /\ Kept(q, s)
          /\ q.receive = "payload" /\ q.cntr = s.cntr
      BY <1>s, <3>1, <3>2, Zenon DEF Receivers, Of, Kept
    <3>4. Fed(kurs_receive(p, c), p, c)
      BY <3>2, <3>3, Zenon DEF Fed, StoredIn, Kept
    <3> QED BY <1>2, <2>2, <3>4, Zenon DEF Arrival
  <2>3. CASE c.val # "sop"
    <3>1. kurs_receive(p, c) = [p EXCEPT !.receive = "eop", !.cntr = 0]
      BY <2>1, <2>3, Zenon DEF listen_sop
    <3>2. \E R, C, F, B : "eop" \in R /\ 0 \in C /\ Receivers = Of(R, C, F, B, Mems)
      BY <1>s, Zenon DEF Receivers
    <3>3. LET q == kurs_receive(p, c) IN Passed(q, p) /\ q.cntr = 0 /\ q.receive = "eop"
      <4>1. PICK R, C, F, B : "eop" \in R /\ 0 \in C /\ Receivers = Of(R, C, F, B, Mems)
        BY <3>2, Zenon
      <4> QED BY <3>1, <4>1, Zenon DEF Of, Passed, Kept
    <3> QED BY <1>2, <2>3, <3>3, Zenon DEF Arrival
  <2> QED BY <2>2, <2>3, Zenon
<1>3. CASE p.receive = "payload"
  <2>1. kurs_receive(p, c) = IF c.val = "eop" THEN HandOver(Store(p, c)) ELSE Store(p, c)
    BY <1>0, <1>3, Zenon DEF kurs_receive, listen_payload
  <2>2. CASE c.val = "eop"
    BY <1>3, <2>1, <2>2, HandOverStep, Zenon DEF Arrival
  <2>3. CASE c.val # "eop"
    <3>1. Fed(kurs_receive(p, c), p, c)
      BY <1>3, <2>1, <2>3, StoreStep, Zenon DEF Fed
    <3> QED BY <1>3, <2>3, <3>1, Zenon DEF Arrival
  <2> QED BY <2>2, <2>3, Zenon
<1>4. p.receive \in States
  BY FieldsIs
<1>5. p.receive = "eop" \/ p.receive = "sop" \/ p.receive = "payload"
  BY <1>4 DEF States
<1> QED BY <1>1, <1>2, <1>3, <1>5, Zenon

-----------------------------------------------------------------------------
(* The invariant.                                                          *)

\* What is left of the packet numbered n.
LineIs(n) ==
    /\ line \in Seq(Byte) /\ Len(line) <= Length
    /\ \A i \in 1 .. Len(line) : line[i] = Packet(n)[(Length - Len(line)) + i]

\* The types but for the line.
FieldsOK ==
    /\ processor \in Receivers
    /\ rx \in {<<>>} \cup {<<c>> : c \in Byte}
    /\ serving \in BOOLEAN /\ slow \in BOOLEAN /\ made \in BOOLEAN
    /\ number \in 0 .. Packets
    /\ answer \in {"none", "open", "right", "wrong"}
    /\ acted \in 0 .. Packets
    /\ intact \in BOOLEAN /\ disturbed \in BOOLEAN
    /\ faults \in 0 .. MaxFaults

\* An end of packet is the last byte of a buffer, and takes the receiver to the
\* other one; the one handed over is left alone until the alarm has served it.
BuffersInv ==
    /\ \A i \in 1 .. Cap : processor.mem[processor.buff][i].val # "eop"
    /\ processor.request_ready => processor.buff # processor.buff_copy
    /\ processor.receive # "payload" => processor.cntr = 0

ServingInv ==
    /\ serving => processor.request_ready
    /\ slow => serving /\ disturbed
    /\ made => serving /\ (disturbed \/ ~intact)

\* Bytes of the packet the receiver has seen, if none was lost.
Got == (Length - Len(line)) - Len(rx)

\* The packet numbered n began with nothing in the unit and comes undisturbed:
\* at its end the receiver has found its feet.
InOrder(n) ==
    /\ rx # <<>> => Len(line) < Length /\ rx[1] = Packet(n)[Length - Len(line)]
    /\ Got < Length => ~serving /\ ~processor.request_ready
    /\ 1 <= Got /\ Got < Length => processor.receive # "sop"
    /\ Got = Length => processor.receive = "sop"

\* And if the one before it came so as well, it is received from its first
\* byte on, served and answered.
Followed(n) ==
    /\ Got = 0 => processor.receive = "sop"
    /\ n = 0 => /\ answer = "none" /\ ~processor.request_ready
                /\ 1 <= Got /\ Got < Length => processor.receive = "eop"
    /\ n # 0 /\ Got < Length => answer = "open"
    /\ n # 0 /\ 1 <= Got /\ Got < Length =>
           /\ processor.receive = "payload" /\ processor.cntr = Got
           /\ \A i \in 1 .. Got : processor.mem[processor.buff][i] = Packet(n)[i]
    /\ n # 0 /\ Got = Length =>
           \/ /\ processor.request_ready /\ answer = "open"
              /\ Whole(processor.mem[processor.buff_copy]) = n
           \/ ~processor.request_ready /\ answer = "right"

LineInv ==
    \E n \in 0 .. Packets :
        /\ LineIs(n)
        /\ ~disturbed => /\ n # 0 => n = number
                         /\ InOrder(n)
                         /\ intact => Followed(n)

IInv == FieldsOK /\ BuffersInv /\ ServingInv /\ LineInv

-----------------------------------------------------------------------------
(* Packets and the line.                                                   *)

LEMMA PacketBytes ==
    ASSUME KursLinkAssumption, NEW n \in 0 .. Packets, NEW i \in 1 .. Length
    PROVE  LET b == Packet(n)[i] IN
           /\ b \in Byte /\ b.pkt = n /\ b.idx = i
           /\ b.val = "eop" <=> i = Length
           /\ i = 1 => b.val = IF n = 0 THEN "other" ELSE "sop"
           /\ b.val = "sop" => n # 0
<1> DEFINE v == CASE i = 1 -> IF n = 0 THEN "other" ELSE "sop"
                  [] i = Length -> "eop"
                  [] i = 2 /\ n \in Free -> "free"
                  [] OTHER -> "data"
<1>1. Packet(n)[i] = [val |-> v, pkt |-> n, idx |-> i]
  BY Zenon DEF Packet
<1>2. 1 # Length /\ 1 # 2 /\ 2 # Length
  OBVIOUS
<1>3. /\ i = 1 => v = IF n = 0 THEN "other" ELSE "sop"
      /\ i = Length => v = "eop"
      /\ i # 1 /\ i # Length => v \in {"free", "data"}
  <2>1. CASE i = 1 BY <1>2, <2>1, Zenon
  <2>2. CASE i = Length BY <1>2, <2>2, Zenon
  <2>3. CASE i = 2 /\ n \in Free BY <1>2, <2>3, Zenon
  <2>4. CASE i # 1 /\ i # Length /\ ~(i = 2 /\ n \in Free) BY <2>4, Zenon
  <2> QED BY <2>1, <2>2, <2>3, <2>4, Zenon
<1> HIDE DEF v
<1>4. v \in Values /\ (v = "eop" <=> i = Length) /\ (v = "sop" => n # 0)
  BY <1>2, <1>3 DEF Values
<1>5. LET b == Packet(n)[i] IN b \in Byte /\ b.val = v /\ b.pkt = n /\ b.idx = i
  BY <1>1, <1>4 DEF Byte
<1> QED BY <1>3, <1>4, <1>5, Zenon

LEMMA PacketLine ==
    ASSUME KursLinkAssumption, NEW n \in 0 .. Packets
    PROVE  Packet(n) \in Seq(Byte) /\ Len(Packet(n)) = Length
<1>1. DOMAIN Packet(n) = 1 .. Length
  BY Zenon DEF Packet
<1>2. Packet(n) = [i \in 1 .. Length |-> Packet(n)[i]]
  BY <1>1 DEF Packet
<1>3. \A i \in 1 .. Length : Packet(n)[i] \in Byte
  BY PacketBytes
<1>4. Packet(n) \in [1 .. Length -> Byte]
  BY <1>2, <1>3, Zenon
<1> QED BY <1>4, SeqDef, LenProperties

\* A new packet fills the line.
LEMMA LineStarts ==
    ASSUME KursLinkAssumption, NEW n \in 0 .. Packets, line' = Packet(n)
    PROVE  LineIs(n)' /\ Len(line') = Length
  BY PacketLine DEF LineIs

\* The line moves by one byte.
LEMMA LineMoves ==
    ASSUME KursLinkAssumption, NEW n \in 0 .. Packets, LineIs(n),
           line # <<>>, line' = Tail(line)
    PROVE  /\ LineIs(n)'
           /\ Len(line) \in 1 .. Length /\ Len(line') = Len(line) - 1
           /\ Head(line) \in Byte
           /\ Head(line) = Packet(n)[(Length - Len(line)) + 1]
<1>1. line \in Seq(Byte) /\ Len(line) \in Nat /\ Len(line) <= Length
  BY LenProperties DEF LineIs
<1>2. /\ line' \in Seq(Byte) /\ Len(line') = Len(line) - 1 /\ Len(line) > 0
      /\ \A i \in 1 .. Len(line') : line'[i] = line[i + 1]
      /\ Head(line) = line[1] /\ Head(line) \in Byte
  BY <1>1, HeadTailProperties, EmptySeq
<1>3. ASSUME NEW i \in 1 .. Len(line')
      PROVE  line'[i] = Packet(n)[(Length - Len(line')) + i]
  <2>1. i + 1 \in 1 .. Len(line)
    BY <1>1, <1>2
  <2>2. line[i + 1] = Packet(n)[(Length - Len(line)) + (i + 1)]
    BY <2>1 DEF LineIs
  <2>3. (Length - Len(line)) + (i + 1) = (Length - Len(line')) + i
    BY <1>1, <1>2
  <2> QED BY <1>2, <2>2, <2>3
<1>4. line[1] = Packet(n)[(Length - Len(line)) + 1]
  BY <1>1, <1>2 DEF LineIs
<1> QED BY <1>1, <1>2, <1>3, <1>4 DEF LineIs

\* The last byte of the line is the end of its packet.
LEMMA EndOfRest ==
    ASSUME KursLinkAssumption, NEW n \in 0 .. Packets, NEW s \in Seq(Byte), Len(s) <= Length,
           \A i \in 1 .. Len(s) : s[i] = Packet(n)[(Length - Len(s)) + i]
    PROVE  EndOf(s) = IF s = <<>> \/ n = 0 THEN <<>> ELSE <<n>>
<1>1. CASE s = <<>>
  BY <1>1 DEF EndOf
<1>2. CASE s # <<>>
  <2>1. Len(s) \in Nat \ {0}
    BY <1>2, EmptySeq
  <2>2. s[Len(s)] = Packet(n)[(Length - Len(s)) + Len(s)]
    BY <2>1
  <2>3. s[Len(s)] = Packet(n)[Length]
    BY <2>1, <2>2
  <2>4. Length \in 1 .. Length
    OBVIOUS
  <2>5. s[Len(s)].val = "eop" /\ s[Len(s)].pkt = n
    BY <2>3, <2>4, PacketBytes
  <2> QED BY <1>2, <2>5, Zenon DEF EndOf
<1> QED BY <1>1, <1>2

\* What the register of the UART ends.
LEMMA EndOfByte ==
    ASSUME NEW c
    PROVE  EndOf(<<c>>) = IF c.val = "eop" /\ c.pkt # 0 THEN <<c.pkt>> ELSE <<>>
<1>1. <<c>> # <<>> /\ Len(<<c>>) = 1 /\ <<c>>[1] = c
  OBVIOUS
<1> QED BY <1>1, Zenon DEF EndOf

Rows == [1 .. Cap -> Byte \cup {Zero}]

LEMMA RowIs ==
    ASSUME KursLinkAssumption, NEW p \in Receivers
    PROVE  p.mem[p.buff] \in Rows /\ p.mem[p.buff_copy] \in Rows /\ p.mem[3 - p.buff] \in Rows
<1>1. p.buff \in 1 .. 2 /\ p.buff_copy \in 1 .. 2 /\ p.mem \in [1 .. 2 -> Rows]
  BY FieldsIs DEF Mems, Rows
<1>2. 3 - p.buff \in 1 .. 2
  BY <1>1
<1> QED BY <1>1, <1>2

\* A whole request ends with the end of a packet of its number.
LEMMA WholeEnds ==
    ASSUME KursLinkAssumption, NEW b \in Rows
    PROVE  /\ Whole(b) \in 0 .. Packets
           /\ Whole(b) # 0 => \E len \in 1 .. Cap : b[len].val = "eop" /\ b[len].pkt = Whole(b)
<1>1. b[1] \in Byte \cup {Zero}
  BY DEF Rows
<1>2. b[1].pkt \in 0 .. Packets
  BY <1>1 DEF Byte, Zero
<1>3. Whole(b) = 0 \/ (Whole(b) = b[1].pkt /\ \E len \in 2 .. Cap : b[len].val = "eop" /\ b[len].pkt = b[1].pkt)
  BY Zenon DEF Whole
<1> QED BY <1>2, <1>3

\* The packet numbered n, from its address to its end, is a whole request.
LEMMA WholePacket ==
    ASSUME KursLinkAssumption, NEW b, NEW n \in 0 .. Packets,
           \A i \in 1 .. Length : b[i] = Packet(n)[i]
    PROVE  Whole(b) = n
<1>1. /\ 1 \in 1 .. Length /\ Length \in 2 .. Cap /\ Length \in 1 .. Length
      /\ \A i \in 1 .. Length - 1 : i \in 1 .. Length /\ i # Length
  OBVIOUS
<1>2. ASSUME NEW i \in 1 .. Length
      PROVE  b[i].pkt = n /\ b[i].idx = i /\ (b[i].val = "eop" <=> i = Length)
  <2>1. PICK c : c = Packet(n)[i]
    OBVIOUS
  <2>2. c.pkt = n /\ c.idx = i /\ (c.val = "eop" <=> i = Length)
    BY <2>1, PacketBytes
  <2> QED BY <2>1, <2>2
<1>3. /\ b[1].idx = 1 /\ b[1].pkt = n /\ b[Length].val = "eop" /\ b[Length].pkt = n
      /\ \A i \in 1 .. Length - 1 : b[i].val # "eop"
  BY <1>1, <1>2, Zenon
<1> QED BY <1>1, <1>2, <1>3, Zenon DEF Whole

-----------------------------------------------------------------------------
(* The steps.                                                              *)

\* A byte comes in: the one that leaves the line, or damaged.
LEMMA DamagedByte ==
    ASSUME KursLinkAssumption, NEW c \in Byte, NEW v \in Noise
    PROVE  LET d == [c EXCEPT !.val = v, !.pkt = 0] IN
           d \in Byte /\ d.pkt = 0
<1>1. \E V, K, I : v \in V /\ 0 \in K /\ Byte = [val : V, pkt : K, idx : I]
  <2>1. v \in Values /\ 0 \in 0 .. Packets
    OBVIOUS
  <2> QED BY <2>1, Zenon DEF Byte
<1>2. PICK V, K, I : v \in V /\ 0 \in K /\ Byte = [val : V, pkt : K, idx : I]
  BY <1>1, Zenon
<1> QED BY <1>2, Zenon

LEMMA HeadIs ==
    ASSUME KursLinkAssumption, LineInv, line # <<>>
    PROVE  Head(line) \in Byte
<1>1. PICK n \in 0 .. Packets : LineIs(n)
  BY DEF LineInv
<1> QED BY <1>1, HeadTailProperties DEF LineIs

\* The byte the receiver is fed with.
LEMMA ByteReceived ==
    ASSUME KursLinkAssumption, FieldsOK, Receive
    PROVE  \E c \in Byte :
               /\ rx = <<c>> /\ rx' = <<>> /\ rx[1] = c
               /\ processor' \in Receivers /\ Arrival(processor', processor, c)
<1>1. PICK c \in Byte : rx = <<c>>
  BY DEF FieldsOK, Receive
<1>2. rx[1] = c
  BY <1>1
<1>3. processor' = kurs_receive(processor, c) /\ rx' = <<>> /\ processor \in Receivers
  BY <1>2, Zenon DEF Receive, FieldsOK
<1>4. Arrival(processor', processor, c)
  BY <1>3, ReceiveStep, Zenon
<1>5. processor' \in Receivers
  BY <1>4, Zenon DEF Arrival, Passed, Fed, HandedOver
<1> QED BY <1>1, <1>2, <1>3, <1>4, <1>5, Zenon

\* The flag is the last thing kurs_service clears.
LEMMA ReplyClears ==
    ASSUME FieldsOK, Reply
    PROVE  /\ processor' \in Receivers
           /\ processor'.mem = processor.mem /\ processor'.buff = processor.buff
           /\ processor'.buff_copy = processor.buff_copy
           /\ processor'.receive = processor.receive
           /\ processor'.cntr = processor.cntr /\ ~processor'.request_ready
<1>1. processor' = [processor EXCEPT !.request_ready = FALSE] /\ processor \in Receivers
  BY Zenon DEF Reply, FieldsOK
<1>2. FALSE \in BOOLEAN
  OBVIOUS
<1>3. LET q == [processor EXCEPT !.request_ready = FALSE] IN
      /\ q \in Receivers
      /\ q.mem = processor.mem /\ q.buff = processor.buff
      /\ q.buff_copy = processor.buff_copy
      /\ q.receive = processor.receive
      /\ q.cntr = processor.cntr /\ ~q.request_ready
  BY <1>1, <1>2, Zenon DEF Receivers, Of
<1> QED BY <1>1, <1>3, Zenon

LEMMA FieldsStep ==
    ASSUME KursLinkAssumption, FieldsOK, LineInv, [Next]_vars
    PROVE  FieldsOK'
<1>1. CASE Poll
  BY <1>1 DEF Poll, Start, FieldsOK, unit
<1>2. CASE PollOther
  BY <1>2 DEF PollOther, Start, FieldsOK, unit
<1>3. CASE GiveUp
  BY <1>3 DEF GiveUp, FieldsOK, unit, history
<1>4. CASE Deliver
  <2>1. Head(line) \in Byte
    BY <1>4, HeadIs DEF Deliver, Arrive
  <2> QED BY <1>4, <2>1 DEF Deliver, Arrive, FieldsOK, control
<1>5. CASE Damage
  <2>1. Head(line) \in Byte
    BY <1>5, HeadIs DEF Damage, Arrive
  <2>2. PICK v \in Noise : Arrive([Head(line) EXCEPT !.val = v, !.pkt = 0])
    BY <1>5 DEF Damage
  <2>3. PICK d \in Byte : Arrive(d)
    BY <2>1, <2>2, DamagedByte, Zenon
  <2> QED BY <1>5, <2>3 DEF Damage, Arrive, FieldsOK, control
<1>6. CASE LoseByte
  BY <1>6 DEF LoseByte, FieldsOK, unit, control
<1>7. CASE Receive
  <2>1. processor' \in Receivers /\ rx' = <<>>
    BY <1>7, ByteReceived
  <2> QED BY <1>7, <2>1 DEF Receive, FieldsOK, control, history
<1>8. CASE Serve
  <2>1. Whole(processor.mem[processor.buff_copy]) \in 0 .. Packets
    BY RowIs, WholeEnds DEF FieldsOK
  <2>2. acted' \in 0 .. Packets
    <3>1. acted' = IF Whole(processor.mem[processor.buff_copy]) = 0 THEN acted
                   ELSE Whole(processor.mem[processor.buff_copy])
      BY <1>8, Zenon DEF Serve
    <3> QED BY <2>1, <3>1 DEF FieldsOK
  <2>6. made' \in BOOLEAN
    <3>1. made' = FALSE \/ made' = (/\ Whole(processor.mem[processor.buff_copy]) = 0
                                   /\ processor.mem[processor.buff_copy][2].val = "free")
      BY <1>8, Zenon DEF Serve
    <3> QED BY <3>1
  <2>3. \/ slow' = FALSE /\ UNCHANGED <<disturbed, faults>>
        \/ faults < MaxFaults /\ slow' = TRUE /\ disturbed' = TRUE /\ faults' = faults + 1
    BY <1>8, Zenon DEF Serve
  <2>4. disturbed' \in BOOLEAN /\ slow' \in BOOLEAN
    BY <2>3, Zenon DEF FieldsOK
  <2>5. faults' \in 0 .. MaxFaults
    BY <2>3 DEF FieldsOK
  <2> QED BY <1>8, <2>2, <2>4, <2>5, <2>6, Zenon DEF Serve, FieldsOK, control
<1>9. CASE Reply
  <2>1. processor' \in Receivers
    BY <1>9, ReplyClears, Zenon
  <2>2. answer' \in {answer, "right", "wrong"}
    BY <1>9 DEF Reply
  <2>3. answer' \in {"none", "open", "right", "wrong"}
    BY <2>2 DEF FieldsOK
  <2>4. made' \in BOOLEAN
    BY <1>9 DEF Reply
  <2> QED BY <1>9, <2>1, <2>3, <2>4, Zenon DEF Reply, FieldsOK, history
<1>10. CASE UNCHANGED vars
  BY <1>10, Zenon DEF vars, unit, control, history, FieldsOK
<1> QED BY <1>1, <1>2, <1>3, <1>4, <1>5, <1>6, <1>7, <1>8, <1>9, <1>10 DEF Next

\* What becomes of the buffers, and the flag with them.
LEMMA BuffersStep ==
    ASSUME KursLinkAssumption, FieldsOK, BuffersInv, [Next]_vars
    PROVE  BuffersInv'
<1>1. CASE UNCHANGED processor
  BY <1>1, Zenon DEF BuffersInv
<1>2. CASE Receive
  <2>1. PICK c \in Byte : Arrival(processor', processor, c)
    BY <1>2, ByteReceived, Zenon
  <2>2. PICK p, q : p = processor /\ q = processor'
    OBVIOUS
  <2>3. /\ Arrival(q, p, c) /\ p.buff \in 1 .. 2 /\ p.cntr \in 0 .. Cap + 1
        /\ \A i \in 1 .. Cap : p.mem[p.buff][i].val # "eop"
        /\ p.request_ready => p.buff # p.buff_copy
        /\ p.receive # "payload" => p.cntr = 0
    BY <2>1, <2>2, FieldsIs, Zenon DEF FieldsOK, BuffersInv
  <2>4. /\ \A i \in 1 .. Cap : q.mem[q.buff][i].val # "eop"
        /\ q.request_ready => q.buff # q.buff_copy
        /\ q.receive # "payload" => q.cntr = 0
    <3>0. "sop" # "eop" /\ "sop" # "payload" /\ "eop" # "payload"
      OBVIOUS
    <3>1. CASE Passed(q, p) /\ (q.cntr = 0 \/ (q.cntr = p.cntr /\ p.receive = "eop"))
      BY <2>3, <3>0, <3>1, Zenon DEF Passed, Kept
    <3>2. CASE Fed(q, p, c) /\ c.val # "eop"
      <4>1. \A i \in 1 .. Cap : q.mem[p.buff][i].val # "eop"
        BY <2>3, <3>2, Zenon DEF Fed, StoredIn
      <4> QED BY <2>3, <3>2, <4>1, Zenon DEF Fed, Kept
    <3>3. CASE HandedOver(q, p, c)
      <4>1. 3 - p.buff # p.buff
        BY <2>3
      <4>2. \A i \in 1 .. Cap : Blank[i].val # "eop"
        BY DEF Blank, Zero
      <4> QED BY <3>3, <4>1, <4>2, Zenon DEF HandedOver
    <3> QED BY <2>3, <3>0, <3>1, <3>2, <3>3, Zenon DEF Arrival
  <2> QED BY <2>2, <2>4, Zenon DEF BuffersInv
<1>3. CASE Reply
  BY <1>3, ReplyClears, Zenon DEF BuffersInv
<1>4. UNCHANGED processor \/ Receive \/ Reply
  BY Zenon DEF Next, Poll, PollOther, Start, GiveUp, Deliver, Damage, Arrive, LoseByte,
               Serve, vars, unit
<1> QED BY <1>1, <1>2, <1>3, <1>4, Zenon

-----------------------------------------------------------------------------
(* How far a packet has come.                                              *)

\* The lengths, as numbers.
LEMMA GotIs ==
    ASSUME KursLinkAssumption, FieldsOK, NEW n \in 0 .. Packets, LineIs(n)
    PROVE  /\ Len(line) \in 0 .. Length /\ (line = <<>> <=> Len(line) = 0)
           /\ Len(rx) \in 0 .. 1 /\ (rx = <<>> <=> Len(rx) = 0)
           /\ Got \in -1 .. Length
<1>1. line \in Seq(Byte) /\ Len(line) <= Length
  BY DEF LineIs
<1>2. Len(line) \in 0 .. Length /\ (line = <<>> <=> Len(line) = 0)
  BY <1>1, EmptySeq, LenProperties
<1>3. Len(rx) \in 0 .. 1 /\ (rx = <<>> <=> Len(rx) = 0)
  <2>1. CASE rx = <<>>
    BY <2>1
  <2>2. CASE \E c \in Byte : rx = <<c>>
    BY <2>2
  <2> QED BY <2>1, <2>2 DEF FieldsOK
<1>4. PICK l, r : l = Len(line) /\ r = Len(rx)
  OBVIOUS
<1>5. l \in 0 .. Length /\ r \in 0 .. 1
  BY <1>2, <1>3, <1>4, Zenon
<1>6. (Length - l) - r \in -1 .. Length
  BY <1>5
<1>7. Got \in -1 .. Length
  BY <1>4, <1>6, Zenon DEF Got
<1> QED BY <1>2, <1>3, <1>7, Zenon

\* The alarm holds the interrupts back until it has cleared the flag.
LEMMA ServingStep ==
    ASSUME KursLinkAssumption, FieldsOK, ServingInv, LineInv, [Next]_vars
    PROVE  ServingInv'
<1>1. CASE Serve
  <2>1. serving' /\ processor'.request_ready /\ (slow' => disturbed')
    BY <1>1, Zenon DEF Serve
  <2>2. ASSUME made', ~disturbed', intact'
        PROVE  FALSE
    <3>a. made' = FALSE \/ made' = (/\ Whole(processor.mem[processor.buff_copy]) = 0
                                   /\ processor.mem[processor.buff_copy][2].val = "free")
      BY <1>1, Zenon DEF Serve
    <3>b. intact' = intact /\ (disturbed' = disturbed \/ disturbed' = TRUE)
      BY <1>1, Zenon DEF Serve
    <3>c. Whole(processor.mem[processor.buff_copy]) = 0
      BY <2>2, <3>a
    <3>d. ~disturbed /\ intact
      BY <2>2, <3>b
    <3>1. /\ Whole(processor.mem[processor.buff_copy]) = 0
          /\ ~disturbed /\ intact /\ processor.request_ready
      BY <1>1, <3>c, <3>d, Zenon DEF Serve
    <3>2. PICK n \in 0 .. Packets : LineIs(n) /\ InOrder(n) /\ Followed(n)
      BY <3>1, Zenon DEF LineInv
    <3>3. ~(Got < Length)
      BY <3>1, <3>2, Zenon DEF InOrder
    <3>4. Got = Length
      BY <3>2, <3>3, GotIs
    <3>5. n # 0 /\ Whole(processor.mem[processor.buff_copy]) = n
      BY <3>1, <3>2, <3>4, Zenon DEF Followed
    <3> QED BY <3>1, <3>5
  <2> QED BY <2>1, <2>2, Zenon DEF ServingInv
<1>2. CASE Reply
  BY <1>2, Zenon DEF Reply, ServingInv
<1>3. CASE Receive
  BY <1>3, Zenon DEF Receive, ServingInv
<1>4. CASE UNCHANGED unit /\ disturbed' = (serving \/ processor.request_ready)
  BY <1>4, Zenon DEF unit, ServingInv
<1>5. CASE UNCHANGED <<processor, serving, slow, made, intact>> /\ (disturbed => disturbed')
  BY <1>5, Zenon DEF ServingInv
<1>6. CASE Poll \/ PollOther
  BY <1>4, <1>6, Zenon DEF Poll, PollOther, Start
<1>7. CASE Deliver
  BY <1>5, <1>7, Zenon DEF Deliver, Arrive
<1>8. CASE Damage
  BY <1>5, <1>8, Zenon DEF Damage, Arrive
<1>9. CASE LoseByte
  BY <1>5, <1>9, Zenon DEF LoseByte, unit
<1>10. CASE GiveUp
  BY <1>5, <1>10, Zenon DEF GiveUp, unit, history
<1>11. CASE UNCHANGED vars
  BY <1>5, <1>11, Zenon DEF vars, unit, history
<1> QED BY <1>1, <1>2, <1>3, <1>6, <1>7, <1>8, <1>9, <1>10, <1>11, Zenon DEF Next

\* The control unit, or another unit, begins a packet.
LEMMA LineStart ==
    ASSUME KursLinkAssumption, FieldsOK, LineInv, NEW n \in 0 .. Packets, Start(n),
           n # 0 => n = number' /\ answer' = "open", n = 0 => answer' = "none"
    PROVE  LineInv'
<1>1. LineIs(n)' /\ Len(line') = Length
  BY LineStarts DEF Start
<1>2. PICK m \in 0 .. Packets :
         /\ LineIs(m)
         /\ ~disturbed => InOrder(m)
  BY Zenon DEF LineInv
<1>3. ASSUME ~disturbed'
      PROVE  /\ ~serving' /\ ~processor'.request_ready /\ rx' = <<>> /\ Got' = 0
             /\ intact' => processor'.receive = "sop"
  <2>1. ~serving /\ ~processor.request_ready /\ rx = <<>> /\ line = <<>>
    BY <1>3, Zenon DEF Start
  <2>2. UNCHANGED <<processor, rx, serving>> /\ intact' = ~disturbed
    BY Zenon DEF Start, unit
  <2>3. Got' = 0
    <3>1. rx' = <<>>
      BY <2>1, <2>2, Zenon
    <3>2. Len(rx') = 0
      BY <3>1
    <3>3. (Length - Length) - 0 = 0
      OBVIOUS
    <3> QED BY <1>1, <3>2, <3>3, Zenon DEF Got
  <2>4. Got = Length
    BY <2>1 DEF Got
  <2>5. intact' => processor.receive = "sop"
    BY <1>2, <2>2, <2>4, Zenon DEF InOrder
  <2> QED BY <2>1, <2>2, <2>3, <2>5, Zenon
<1>4. ~disturbed' => InOrder(n)'
  <2>1. ~(1 <= 0) /\ 0 # Length
    OBVIOUS
  <2> QED BY <1>3, <2>1, Zenon DEF InOrder
<1>5. ~disturbed' /\ intact' => Followed(n)'
  <2>1. ~(1 <= 0) /\ 0 # Length
    OBVIOUS
  <2> QED BY <1>3, <2>1, Zenon DEF Followed
<1> QED BY <1>1, <1>4, <1>5, Zenon DEF LineInv

LEMMA LinePoll ==
    ASSUME KursLinkAssumption, FieldsOK, LineInv, Poll \/ PollOther
    PROVE  LineInv'
<1>1. CASE Poll
  <2>1. PICK n : n = (number % Packets) + 1
    OBVIOUS
  <2>2. n \in 0 .. Packets /\ n # 0
    BY <2>1 DEF FieldsOK
  <2>3. Start(n) /\ number' = n /\ answer' = "open"
    BY <1>1, <2>1 DEF Poll
  <2> QED BY <2>2, <2>3, LineStart
<1>2. CASE PollOther
  <2>1. 0 \in 0 .. Packets /\ Start(0) /\ answer' = "none"
    BY <1>2 DEF PollOther
  <2> QED BY <2>1, LineStart
<1> QED BY <1>1, <1>2

\* Nothing of an undisturbed request is given up.
LEMMA LineGiveUp ==
    ASSUME KursLinkAssumption, FieldsOK, ServingInv, LineInv, GiveUp
    PROVE  LineInv'
<1>1. PICK n \in 0 .. Packets :
         /\ LineIs(n)
         /\ ~disturbed => /\ n # 0 => n = number
                          /\ InOrder(n)
                          /\ intact => Followed(n)
  BY Zenon DEF LineInv
<1>2. UNCHANGED <<processor, rx, serving, line, number, intact, disturbed>> /\ answer' = "none"
  BY Zenon DEF GiveUp, unit, history
<1>3. LineIs(n)' /\ (InOrder(n) => InOrder(n)')
  BY <1>1, <1>2, Zenon DEF LineIs, InOrder, Got
<1>4. ASSUME ~disturbed, intact
      PROVE  Followed(n)'
  <2>1. ~processor.request_ready /\ rx = <<>> /\ line = <<>> /\ answer = "open"
    BY <1>4, Zenon DEF GiveUp, Waits, ServingInv
  <2>2. Got = Length /\ Length # 0 /\ ~(Length < Length)
    BY <2>1 DEF Got
  <2>3. "open" # "right" /\ "open" # "none"
    OBVIOUS
  <2>4. n = 0
    BY <1>1, <1>4, <2>1, <2>2, <2>3, Zenon DEF Followed
  <2>5. Got' = Got
    BY <1>2, Zenon DEF Got
  <2> QED BY <1>2, <2>1, <2>2, <2>4, <2>5, Zenon DEF Followed
<1> QED BY <1>1, <1>2, <1>3, <1>4, Zenon DEF LineInv

\* A byte that is damaged, lost or overrun disturbs its packet.
LEMMA LineArrive ==
    ASSUME KursLinkAssumption, FieldsOK, LineInv, Deliver \/ Damage \/ LoseByte
    PROVE  LineInv'
<1>1. PICK n \in 0 .. Packets :
         /\ LineIs(n)
         /\ ~disturbed => /\ n # 0 => n = number
                          /\ InOrder(n)
                          /\ intact => Followed(n)
  BY Zenon DEF LineInv
<1>2. line # <<>> /\ line' = Tail(line)
  BY Zenon DEF Deliver, Damage, Arrive, LoseByte
<1>3. /\ LineIs(n)' /\ Len(line) \in 1 .. Length /\ Len(line') = Len(line) - 1
      /\ Head(line) = Packet(n)[(Length - Len(line)) + 1]
  BY <1>1, <1>2, LineMoves
<1>4. CASE disturbed'
  BY <1>3, <1>4, Zenon DEF LineInv
<1>5. CASE ~disturbed'
  <2>0. Deliver
    BY <1>5, Zenon DEF Damage, LoseByte
  <2>1. /\ UNCHANGED <<processor, serving, intact, number, answer>>
        /\ rx' = <<Head(line)>> /\ rx = <<>> /\ ~disturbed
    BY <1>5, <2>0, Zenon DEF Deliver, Arrive, control
  <2>2. Len(rx) = 0 /\ Len(rx') = 1 /\ rx'[1] = Head(line) /\ Len(line') < Length
        /\ (Length - Len(line)) + 1 = Length - Len(line') /\ Got' = Got
    BY <1>3, <2>1 DEF Got
  <2>3. InOrder(n)'
    BY <1>1, <1>3, <2>1, <2>2, Zenon DEF InOrder
  <2>4. intact => Followed(n)'
    BY <1>1, <2>1, <2>2, Zenon DEF Followed
  <2> QED BY <1>1, <1>3, <2>1, <2>3, <2>4, Zenon DEF LineInv
<1> QED BY <1>4, <1>5

\* The alarm takes what is complete.
LEMMA LineServe ==
    ASSUME KursLinkAssumption, FieldsOK, LineInv, Serve
    PROVE  LineInv'
<1>1. PICK n \in 0 .. Packets :
         /\ LineIs(n)
         /\ ~disturbed => /\ n # 0 => n = number
                          /\ InOrder(n)
                          /\ intact => Followed(n)
  BY Zenon DEF LineInv
<1>2. /\ UNCHANGED <<processor, rx, line, number, answer, intact>>
      /\ processor.request_ready
      /\ UNCHANGED disturbed \/ disturbed'
  BY Zenon DEF Serve, control
<1>3. Got' = Got /\ LineIs(n)'
  BY <1>1, <1>2, Zenon DEF Got, LineIs
<1>4. ASSUME ~disturbed'
      PROVE  (n # 0 => n = number') /\ InOrder(n)' /\ (intact' => Followed(n)')
  <2>0. ~disturbed
    BY <1>2, <1>4 DEF FieldsOK
  <2>1. ~(Got < Length)
    BY <1>1, <1>2, <2>0, Zenon DEF InOrder
  <2>2. InOrder(n)'
    BY <1>1, <1>2, <1>3, <2>0, <2>1, Zenon DEF InOrder
  <2>3. intact' => Followed(n)'
    BY <1>1, <1>2, <1>3, <2>0, <2>1, Zenon DEF Followed
  <2>4. n # 0 => n = number'
    BY <1>1, <1>2, <2>0, Zenon
  <2> QED BY <2>2, <2>3, <2>4
<1> QED BY <1>1, <1>3, <1>4, Zenon DEF LineInv

\* The answer to an undisturbed request is the right one.
LEMMA LineReply ==
    ASSUME KursLinkAssumption, FieldsOK, ServingInv, LineInv, Reply
    PROVE  LineInv'
<1>1. PICK n \in 0 .. Packets :
         /\ LineIs(n)
         /\ ~disturbed => /\ n # 0 => n = number
                          /\ InOrder(n)
                          /\ intact => Followed(n)
  BY Zenon DEF LineInv
<1>2. /\ UNCHANGED <<rx, line, number, intact, disturbed>>
      /\ serving /\ processor.request_ready /\ ~serving'
      /\ ~processor'.request_ready /\ processor'.receive = processor.receive
  BY ReplyClears, Zenon DEF Reply, history, ServingInv
<1>3. Got' = Got /\ LineIs(n)'
  BY <1>1, <1>2, Zenon DEF Got, LineIs
<1>4. ASSUME ~disturbed
      PROVE  Got = Length /\ InOrder(n)'
  <2>1. Got = Length
    BY <1>1, <1>2, <1>4, GotIs DEF InOrder
  <2>2. ~(Length < Length)
    OBVIOUS
  <2> QED BY <1>1, <1>2, <1>3, <1>4, <2>1, <2>2, Zenon DEF InOrder
<1>5. ASSUME ~disturbed, intact
      PROVE  Followed(n)'
  <2>1. Got = Length /\ ~(Length < Length) /\ Length # 0
    BY <1>4, <1>5
  <2>2. line = <<>>
    BY <1>1, <2>1, GotIs DEF Got
  <2>3. CASE n = 0
    BY <1>1, <1>2, <1>5, <2>3, Zenon DEF Followed
  <2>4. CASE n # 0
    <3>1. n = number /\ answer = "open" /\ Whole(processor.mem[processor.buff_copy]) = n
      BY <1>1, <1>2, <1>5, <2>1, <2>4, Zenon DEF Followed
    <3>2. answer' = "right"
      BY <2>2, <3>1, Zenon DEF Reply, Waits
    <3> QED BY <1>2, <1>3, <2>1, <2>4, <3>2, Zenon DEF Followed
  <2> QED BY <2>3, <2>4
<1> QED BY <1>1, <1>2, <1>3, <1>4, <1>5, Zenon DEF LineInv

\* The receiver takes a byte of an undisturbed packet: the middle of it, ...
LEMMA MiddleByte ==
    ASSUME KursLinkAssumption, NEW p \in Receivers, NEW q, NEW c \in Byte, Arrival(q, p, c),
           c.val # "eop"
    PROVE  /\ q.receive # "sop" /\ (q.request_ready <=> p.request_ready)
           /\ p.receive = "eop" => q.receive = "eop"
           /\ p.receive = "sop" /\ c.val # "sop" => q.receive = "eop"
           /\ p.receive = "sop" /\ c.val = "sop" => Fed(q, p, c)
           /\ p.receive = "payload" => Fed(q, p, c)
<1>1. "eop" # "sop" /\ "payload" # "sop" /\ "payload" # "eop"
  OBVIOUS
<1>2. q.request_ready <=> p.request_ready
  BY Zenon DEF Arrival, Passed, Fed, Kept
<1>3. q.receive # "sop"
  BY <1>1, Zenon DEF Arrival, Fed
<1>4. p.receive = "payload" => Fed(q, p, c)
  BY <1>1, Zenon DEF Arrival
<1>5. p.receive = "sop" /\ c.val = "sop" => Fed(q, p, c)
  BY <1>1, Zenon DEF Arrival
<1>6. p.receive = "eop" => q.receive = "eop"
  BY <1>1, Zenon DEF Arrival
<1>7. p.receive = "sop" /\ c.val # "sop" => q.receive = "eop"
  BY <1>1, Zenon DEF Arrival
<1> QED BY <1>2, <1>3, <1>4, <1>5, <1>6, <1>7

\* ... or the last one.
LEMMA LastByte ==
    ASSUME KursLinkAssumption, NEW p \in Receivers, NEW q, NEW c \in Byte, Arrival(q, p, c),
           c.val = "eop", p.receive # "sop"
    PROVE  /\ q.receive = "sop"
           /\ p.receive = "payload" => HandedOver(q, p, c)
           /\ p.receive = "eop" => (q.request_ready <=> p.request_ready)
<1>1. "eop" # "sop" /\ "payload" # "eop"
  OBVIOUS
<1> QED BY <1>1, Zenon DEF Arrival, HandedOver, Passed, Kept

\* The bytes in a buffer and the one stored behind them.
LEMMA Prefix ==
    ASSUME KursLinkAssumption, NEW n \in 0 .. Packets, NEW g \in 0 .. Length - 1,
           NEW b, NEW d, NEW c, c = Packet(n)[g + 1],
           \A i \in 1 .. g : b[i] = Packet(n)[i],
           \A i \in 1 .. Cap : d[i] = IF i = g + 1 THEN c ELSE b[i]
    PROVE  \A i \in 1 .. g + 1 : d[i] = Packet(n)[i]
<1>1. ASSUME NEW i \in 1 .. g + 1
      PROVE  d[i] = Packet(n)[i]
  <2>1. i \in 1 .. Cap
    OBVIOUS
  <2>2. CASE i = g + 1
    BY <2>1, <2>2
  <2>3. CASE i # g + 1
    <3>1. i \in 1 .. g
      BY <2>3
    <3> QED BY <2>1, <2>3, <3>1
  <2> QED BY <2>2, <2>3
<1> QED BY <1>1

LEMMA LineReceive ==
    ASSUME KursLinkAssumption, FieldsOK, BuffersInv, LineInv, Receive
    PROVE  LineInv'
<1>1. PICK n \in 0 .. Packets :
         /\ LineIs(n)
         /\ ~disturbed => /\ n # 0 => n = number
                          /\ InOrder(n)
                          /\ intact => Followed(n)
  BY Zenon DEF LineInv
<1>2. PICK c \in Byte :
         /\ rx = <<c>> /\ rx' = <<>> /\ rx[1] = c
         /\ Arrival(processor', processor, c)
  BY ByteReceived, Zenon
<1>3. UNCHANGED <<serving, line, number, answer, intact, disturbed>> /\ ~serving
  BY Zenon DEF Receive, control, history
<1>4. LineIs(n)'
  BY <1>1, <1>3, Zenon DEF LineIs
<1>5. PICK g : g = Got
  OBVIOUS
<1>6. PICK p, q : p = processor /\ q = processor'
  OBVIOUS
<1>7. /\ p \in Receivers /\ Arrival(q, p, c) /\ p.buff \in 1 .. 2 /\ p.cntr \in 0 .. Cap + 1
      /\ p.receive # "payload" => p.cntr = 0
  BY <1>2, <1>6, FieldsIs, Zenon DEF FieldsOK, BuffersInv
<1>8. ASSUME ~disturbed
      PROVE  InOrder(n)' /\ (intact => Followed(n)')
  <2>1. Len(line) < Length /\ c = Packet(n)[Length - Len(line)]
    BY <1>1, <1>2, <1>8 DEF InOrder
  <2>2. /\ g \in 0 .. Length - 1 /\ c = Packet(n)[g + 1] /\ g + 1 \in 1 .. Length
        /\ Got' = g + 1
    <3>1. Len(rx) = 1 /\ Len(rx') = 0 /\ Len(line) \in 0 .. Length
      BY <1>1, <1>2, GotIs
    <3>2. g = (Length - Len(line)) - 1 /\ Got' = Length - Len(line)
      BY <1>3, <1>5, <3>1 DEF Got
    <3>3. g \in 0 .. Length - 1 /\ g + 1 = Length - Len(line)
      BY <2>1, <3>1, <3>2
    <3> QED BY <2>1, <3>2, <3>3
  <2>3. /\ c.val = "eop" <=> g + 1 = Length
        /\ g = 0 => c.val = IF n = 0 THEN "other" ELSE "sop"
    BY <2>2, PacketBytes
  <2>4. /\ ~p.request_ready
        /\ 1 <= g => p.receive # "sop"
    BY <1>1, <1>5, <1>6, <1>8, <2>2 DEF InOrder
  <2>5. CASE g + 1 # Length
    <3>1. c.val # "eop" /\ g + 1 < Length /\ 1 <= g + 1 /\ g + 1 # 0 /\ g < Length
      BY <2>2, <2>3, <2>5
    <3>2. q.receive # "sop" /\ ~q.request_ready
      BY <1>7, <2>4, <3>1, MiddleByte, Zenon
    <3>3. InOrder(n)'
      BY <1>2, <1>3, <1>6, <2>2, <2>5, <3>2, Zenon DEF InOrder
    <3>4. ASSUME intact
          PROVE  Followed(n)'
      <4>1. CASE n = 0
        <5>1. answer = "none" /\ (g = 0 => p.receive = "sop") /\ (1 <= g => p.receive = "eop")
          BY <1>1, <1>5, <1>6, <1>8, <3>1, <3>4, <4>1 DEF Followed
        <5>2. q.receive = "eop"
          <6>1. CASE g = 0
            <7>1. c.val # "sop"
              BY <2>3, <4>1, <6>1
            <7> QED BY <1>7, <3>1, <5>1, <6>1, <7>1, MiddleByte, Zenon
          <6>2. CASE g # 0
            <7>1. 1 <= g
              BY <2>2, <6>2
            <7> QED BY <1>7, <3>1, <5>1, <7>1, MiddleByte, Zenon
          <6> QED BY <6>1, <6>2
        <5> QED BY <1>3, <1>6, <2>2, <3>1, <3>2, <4>1, <5>1, <5>2, Zenon DEF Followed
      <4>2. CASE n # 0
        <5>1. /\ answer = "open"
              /\ g = 0 => p.receive = "sop"
              /\ 1 <= g => /\ p.receive = "payload" /\ p.cntr = g
                           /\ \A i \in 1 .. g : p.mem[p.buff][i] = Packet(n)[i]
          BY <1>1, <1>5, <1>6, <1>8, <3>1, <3>4, <4>2, Zenon DEF Followed
        <5>2. /\ Fed(q, p, c) /\ p.cntr = g
              /\ \A i \in 1 .. g : p.mem[p.buff][i] = Packet(n)[i]
          <6>1. CASE g = 0
            <7>1. c.val = "sop" /\ p.receive = "sop" /\ "sop" # "payload"
              BY <2>3, <4>2, <5>1, <6>1
            <7>2. Fed(q, p, c) /\ p.cntr = g
              BY <1>7, <3>1, <6>1, <7>1, MiddleByte, Zenon
            <7>3. \A i \in 1 .. g : FALSE
              BY <6>1
            <7> QED BY <7>2, <7>3, Zenon
          <6>2. CASE g # 0
            <7>1. 1 <= g
              BY <2>2, <6>2
            <7> QED BY <1>7, <3>1, <5>1, <7>1, MiddleByte, Zenon
          <6> QED BY <6>1, <6>2
        <5>3. q.receive = "payload" /\ q.cntr = g + 1 /\ q.buff = p.buff
          <6>1. q.receive = "payload" /\ q.buff = p.buff
                /\ q.cntr = IF p.cntr < Cap THEN p.cntr + 1 ELSE Cap + 1
            BY <5>2, Zenon DEF Fed, Kept
          <6> QED BY <2>2, <5>2, <6>1
        <5>4. \A i \in 1 .. Cap :
                 q.mem[p.buff][i] = IF i = g + 1 THEN c ELSE p.mem[p.buff][i]
          BY <5>2, Zenon DEF Fed, StoredIn
        <5>5. \A i \in 1 .. g + 1 : q.mem[q.buff][i] = Packet(n)[i]
          <6>1. PICK b, d : b = p.mem[p.buff] /\ d = q.mem[p.buff]
            OBVIOUS
          <6>2. \A i \in 1 .. g : b[i] = Packet(n)[i]
            BY <5>2, <6>1, Zenon
          <6>3. \A i \in 1 .. Cap : d[i] = IF i = g + 1 THEN c ELSE b[i]
            BY <5>4, <6>1, Zenon
          <6>4. \A i \in 1 .. g + 1 : d[i] = Packet(n)[i]
            BY <2>2, <6>2, <6>3, Prefix
          <6>5. q.mem[q.buff] = d
            BY <5>3, <6>1, Zenon
          <6> QED BY <6>4, <6>5, Zenon
        <5> QED BY <1>3, <1>6, <2>2, <2>5, <3>1, <4>2, <5>1, <5>3, <5>5, Zenon DEF Followed
      <4> QED BY <4>1, <4>2
    <3> QED BY <3>3, <3>4
  <2>6. CASE g + 1 = Length
    <3>1. c.val = "eop" /\ 1 <= g /\ g < Length /\ ~(Length < Length) /\ Length # 0
      BY <2>2, <2>3, <2>6
    <3>2. q.receive = "sop" /\ (p.receive = "payload" => HandedOver(q, p, c))
      BY <1>7, <2>4, <3>1, LastByte, Zenon
    <3>3. InOrder(n)'
      BY <1>2, <1>3, <1>6, <2>2, <2>6, <3>1, <3>2, Zenon DEF InOrder
    <3>4. ASSUME intact
          PROVE  Followed(n)'
      <4>1. CASE n = 0
        <5>1. answer = "none" /\ p.receive = "eop"
          BY <1>1, <1>5, <1>6, <1>8, <3>1, <3>4, <4>1, Zenon DEF Followed
        <5>2. ~q.request_ready
          BY <1>7, <2>4, <3>1, <5>1, LastByte, Zenon
        <5> QED BY <1>3, <1>6, <2>2, <2>6, <3>1, <4>1, <5>1, <5>2, Zenon DEF Followed
      <4>2. CASE n # 0
        <5>1. /\ answer = "open" /\ p.receive = "payload" /\ p.cntr = g
              /\ \A i \in 1 .. g : p.mem[p.buff][i] = Packet(n)[i]
          BY <1>1, <1>5, <1>6, <1>8, <3>1, <3>4, <4>2, Zenon DEF Followed
        <5>2. HandedOver(q, p, c)
          BY <3>2, <5>1
        <5>3. /\ \A i \in 1 .. Cap :
                    q.mem[p.buff][i] = IF i = g + 1 THEN c ELSE p.mem[p.buff][i]
              /\ q.buff_copy = p.buff /\ q.request_ready
          BY <5>1, <5>2, Zenon DEF HandedOver
        <5>4. Whole(q.mem[q.buff_copy]) = n
          <6>1. PICK b, d : b = p.mem[p.buff] /\ d = q.mem[p.buff]
            OBVIOUS
          <6>2. \A i \in 1 .. g : b[i] = Packet(n)[i]
            BY <5>1, <6>1, Zenon
          <6>3. \A i \in 1 .. Cap : d[i] = IF i = g + 1 THEN c ELSE b[i]
            BY <5>3, <6>1, Zenon
          <6>4. \A i \in 1 .. g + 1 : d[i] = Packet(n)[i]
            BY <2>2, <6>2, <6>3, Prefix
          <6>5. Whole(d) = n
            BY <2>6, <6>4, WholePacket, Zenon
          <6> QED BY <5>3, <6>1, <6>5, Zenon
        <5> QED BY <1>3, <1>6, <2>2, <2>6, <3>1, <4>2, <5>1, <5>3, <5>4, Zenon DEF Followed
      <4> QED BY <4>1, <4>2
    <3> QED BY <3>3, <3>4
  <2> QED BY <2>5, <2>6
<1> QED BY <1>1, <1>3, <1>4, <1>8, Zenon DEF LineInv

LEMMA LineStep ==
    ASSUME KursLinkAssumption, FieldsOK, BuffersInv, ServingInv, LineInv, [Next]_vars
    PROVE  LineInv'
<1>1. CASE UNCHANGED vars
  BY <1>1, ZenonT(60)
     DEF vars, unit, control, history, LineInv, LineIs, InOrder, Followed, Got
<1> QED
  BY <1>1, LinePoll, LineGiveUp, LineArrive, LineReceive, LineServe, LineReply, Zenon DEF Next


-----------------------------------------------------------------------------
(* The invariant holds, and with it the types and the first use.           *)

LEMMA IInvInit ==
    ASSUME KursLinkAssumption, Init
    PROVE  IInv
<1>1. processor \in Receivers
  <2>1. Processor.mem \in Mems
    BY DEF Processor, Mems, Blank
  <2>2. /\ "eop" \in States /\ 0 \in 0 .. Cap + 1 /\ FALSE \in BOOLEAN /\ 1 \in 1 .. 2
        /\ [b \in 1 .. 2 |-> Blank] \in Mems
    BY <2>1 DEF Processor, States
  <2>3. Processor \in Receivers
    BY <2>2, Zenon DEF Processor, Receivers, Of
  <2> QED BY <2>3 DEF Init
<1>2. FieldsOK
  <2>1. rx \in {<<>>} \cup {<<c>> : c \in Byte}
    BY Zenon DEF Init
  <2>2. /\ 0 \in 0 .. Packets /\ 0 \in 0 .. MaxFaults /\ FALSE \in BOOLEAN /\ TRUE \in BOOLEAN
        /\ "none" \in {"none", "open", "right", "wrong"}
    OBVIOUS
  <2> QED BY <1>1, <2>1, <2>2, Zenon DEF FieldsOK, Init
<1>3. BuffersInv
  BY DEF BuffersInv, Init, Processor, Blank, Zero
<1>4. ServingInv
  BY DEF ServingInv, Init
<1>5. LineInv
  <2>1. 0 \in 0 .. Packets /\ line \in Seq(Byte) /\ Len(line) = 0
    BY EmptySeq DEF Init
  <2>2. LineIs(0)
    BY <2>1 DEF LineIs
  <2> QED BY <2>1, <2>2, Zenon DEF LineInv, Init
<1> QED BY <1>2, <1>3, <1>4, <1>5 DEF IInv

LEMMA IInvStep ==
    ASSUME KursLinkAssumption, IInv, [Next]_vars
    PROVE  IInv'
  BY FieldsStep, BuffersStep, ServingStep, LineStep, Zenon DEF IInv

LEMMA IInvHolds ==
    ASSUME KursLinkAssumption
    PROVE  Spec => []IInv
<1>1. Init => IInv
  BY IInvInit
<1>2. IInv /\ [Next]_vars => IInv'
  BY IInvStep
<1> QED BY <1>1, <1>2, PTL DEF Spec

\* What is on the line is the rest of a packet.
LEMMA LineTypes ==
    ASSUME KursLinkAssumption, NEW n \in 0 .. Packets, LineIs(n), line # <<>>
    PROVE  \E k \in 1 .. Length : line = SubSeq(Packet(n), k, Length)
<1>1. line \in Seq(Byte) /\ Len(line) \in 1 .. Length
  BY EmptySeq DEF LineIs
<1>2. PICK k : k = (Length - Len(line)) + 1
  OBVIOUS
<1>3. k \in 1 .. Length /\ (Length - k) + 1 = Len(line) /\ k <= Length
  BY <1>1, <1>2
<1> DEFINE s == SubSeq(Packet(n), k, Length)
<1>4. \A i \in k .. Length : Packet(n)[i] \in Byte
  BY <1>3, PacketBytes
<1>5. /\ s \in Seq(Byte) /\ Len(s) = Len(line)
      /\ \A i \in 1 .. Len(line) : s[i] = Packet(n)[(k + i) - 1]
  BY <1>3, <1>4, SubSeqProperties
<1>6. ASSUME NEW i \in 1 .. Len(line)
      PROVE  line[i] = s[i]
  <2>1. (k + i) - 1 = (Length - Len(line)) + i
    BY <1>1, <1>2
  <2>2. s[i] = Packet(n)[(Length - Len(line)) + i]
    BY <1>5, <2>1, Zenon
  <2> QED BY <2>2, Zenon DEF LineIs
<1> HIDE DEF s
<1>7. line = s
  BY <1>1, <1>5, <1>6, SeqEqual
<1> QED BY <1>3, <1>7 DEF s

\* The variables keep their types (the receiver of kurs_processor.c and the
\* line that feeds it).
THEOREM TypeCorrect ==
    ASSUME KursLinkAssumption
    PROVE  Spec => []TypeOK
<1>1. ASSUME IInv
      PROVE  TypeOK
  <2>1. ProcessorOK(processor, Byte)
    BY <1>1, ReceiverIsOK, Zenon DEF IInv, FieldsOK
  <2>2. PICK n \in 0 .. Packets : LineIs(n)
    BY <1>1, Zenon DEF IInv, LineInv
  <2>3. \/ line = <<>>
        \/ \E m \in 0 .. Packets, k \in 1 .. Length : line = SubSeq(Packet(m), k, Length)
    BY <2>2, LineTypes, Zenon
  <2> QED BY <1>1, <2>1, <2>3, Zenon DEF IInv, FieldsOK, TypeOK
<1>2. IInv => TypeOK
  BY <1>1
<1> QED BY <1>2, IInvHolds, PTL

\* One packet that comes through whole is all the receiver needs: the request
\* after it is not given up on and its answer is the right one (listen_eop,
\* listen_sop and listen_payload of kurs_processor.c).
THEOREM NextAnswered ==
    ASSUME KursLinkAssumption
    PROVE  Spec => []NextRequestAnswered
<1>1. ASSUME IInv
      PROVE  NextRequestAnswered
  <2> SUFFICES ASSUME intact, ~disturbed
               PROVE  /\ Waits => serving \/ processor.request_ready \/ rx # <<>>
                      /\ answer # "wrong"
    BY DEF NextRequestAnswered
  <2>1. PICK n \in 0 .. Packets : LineIs(n) /\ InOrder(n) /\ Followed(n)
    BY <1>1, Zenon DEF IInv, LineInv
  <2>2. Got \in -1 .. Length /\ Got # -1
    <3>1. Got \in -1 .. Length /\ Len(line) \in 0 .. Length /\ Len(rx) \in 0 .. 1
          /\ (rx = <<>> <=> Len(rx) = 0)
      BY <1>1, <2>1, GotIs DEF IInv
    <3>2. Len(rx) = 1 => Len(line) < Length
      BY <2>1, <3>1 DEF InOrder
    <3>3. PICK l, r : l = Len(line) /\ r = Len(rx)
      OBVIOUS
    <3>4. (Length - l) - r # -1
      <4>1. l \in 0 .. Length /\ r \in 0 .. 1 /\ (r = 1 => l < Length)
        BY <3>1, <3>2, <3>3, Zenon
      <4> QED BY <4>1
    <3> QED BY <3>1, <3>3, <3>4, Zenon DEF Got
  <2>3. answer # "wrong"
    <3>1. "none" # "wrong" /\ "open" # "wrong" /\ "right" # "wrong"
      OBVIOUS
    <3>2. Got < Length \/ Got = Length
      BY <2>2
    <3> QED BY <2>1, <3>1, <3>2, Zenon DEF Followed
  <2>4. ASSUME Waits, rx = <<>>
        PROVE  processor.request_ready
    <3>1. Got = Length
      BY <2>4 DEF Waits, Got
    <3>2. answer = "open" /\ "open" # "none" /\ "open" # "right"
      BY <2>4 DEF Waits
    <3> QED BY <2>1, <3>1, <3>2, Zenon DEF Followed
  <2> QED BY <2>3, <2>4
<1>2. IInv => NextRequestAnswered
  BY <1>1
<1> QED BY <1>2, IInvHolds, PTL

\* What the unit acts on without its having been sent, for a command whose
\* handler checks no checksum, is what a fault or an overrun left in the receiver,
\* and never a packet that follows one that came through
\* (HandleKursWriteLangPackCommand and HandleKursEnableSetParams).
THEOREM MadeUpOfRemains ==
    ASSUME KursLinkAssumption
    PROVE  Spec => []MadeUpByFaults
<1>1. IInv => MadeUpByFaults
  BY Zenon DEF IInv, ServingInv, MadeUpByFaults
<1> QED BY <1>1, IInvHolds, PTL

-----------------------------------------------------------------------------
(* The link implements LossySpec of BoundedFifo.                           *)

PromiseStep == [Promise!Put \/ Promise!Take \/ Promise!Lose]_(Promise!fifoVars)

\* A stretch of a sequence is left out.
LeftOut(s, t) ==
    \E i, j \in 1 .. Len(s) :
        i <= j /\ t = SubSeq(s, 1, i - 1) \o SubSeq(s, j + 1, Len(s))

LEMMA LeaveOut ==
    ASSUME NEW A \in Seq(Request), NEW B \in Seq(Request), NEW C \in Seq(Request), B # <<>>
    PROVE  LeftOut((A \o B) \o C, A \o C)
<1> DEFINE t == (A \o B) \o C
<1>1. PICK a, b, c : a = Len(A) /\ b = Len(B) /\ c = Len(C)
  OBVIOUS
<1>2. a \in Nat /\ b \in Nat \ {0} /\ c \in Nat
  BY <1>1, EmptySeq, LenProperties
<1>3. /\ t \in Seq(Request) /\ Len(t) = (a + b) + c
      /\ \A i \in 1 .. (a + b) + c :
            t[i] = IF i <= a + b THEN (A \o B)[i] ELSE C[i - (a + b)]
      /\ \A i \in 1 .. a + b : (A \o B)[i] = IF i <= a THEN A[i] ELSE B[i - a]
  <2>1. A \o B \in Seq(Request) /\ Len(A \o B) = a + b
        /\ \A i \in 1 .. a + b : (A \o B)[i] = IF i <= a THEN A[i] ELSE B[i - a]
    BY <1>1, ConcatProperties
  <2>2. PICK D \in Seq(Request) : D = A \o B
    BY <2>1
  <2>3. /\ D \o C \in Seq(Request) /\ Len(D \o C) = (a + b) + c
        /\ \A i \in 1 .. (a + b) + c : (D \o C)[i] = IF i <= a + b THEN D[i] ELSE C[i - (a + b)]
    BY <1>1, <2>1, <2>2, ConcatProperties
  <2> QED BY <2>1, <2>2, <2>3, Zenon
<1> HIDE DEF t
<1>4. \A i \in 1 .. (a + b) + c : t[i] \in Request
  BY <1>3, ElementOfSeq
<1>5. SubSeq(t, 1, a) = A
  <2>1. /\ SubSeq(t, 1, a) \in Seq(Request) /\ Len(SubSeq(t, 1, a)) = a
        /\ \A i \in 1 .. a : SubSeq(t, 1, a)[i] = t[i]
    <3>1. \A i \in 1 .. a : t[i] \in Request
      BY <1>2, <1>4
    <3>2. /\ SubSeq(t, 1, a) \in Seq(Request)
          /\ Len(SubSeq(t, 1, a)) = IF 1 <= a THEN (a - 1) + 1 ELSE 0
          /\ \A i \in 1 .. (a - 1) + 1 : SubSeq(t, 1, a)[i] = t[(1 + i) - 1]
      BY <1>2, <3>1, SubSeqProperties
    <3>3. \A i \in 1 .. a : i \in 1 .. (a - 1) + 1 /\ (1 + i) - 1 = i
      BY <1>2
    <3>4. Len(SubSeq(t, 1, a)) = a
      BY <1>2, <3>2
    <3> QED BY <3>2, <3>3, <3>4, Zenon
  <2>2. ASSUME NEW i \in 1 .. a
        PROVE  t[i] = A[i]
    <3>1. i \in 1 .. (a + b) + c /\ i \in 1 .. a + b /\ i <= a + b /\ i <= a
      BY <1>2
    <3> QED BY <1>3, <3>1, Zenon
  <2>3. \A i \in 1 .. a : SubSeq(t, 1, a)[i] = A[i]
    BY <2>1, <2>2, Zenon
  <2> QED BY <1>1, <2>1, <2>3, SeqEqual
<1>6. SubSeq(t, (a + b) + 1, (a + b) + c) = C
  <2>1. PICK l, h : l = (a + b) + 1 /\ h = (a + b) + c
    OBVIOUS
  <2>2. l \in Int /\ h \in Int /\ (h - l) + 1 = c /\ (l <= h <=> 0 < c)
    BY <1>2, <2>1
  <2>3. \A i \in l .. h : t[i] \in Request
    BY <1>2, <1>4, <2>1
  <2>4. /\ SubSeq(t, l, h) \in Seq(Request)
        /\ Len(SubSeq(t, l, h)) = IF l <= h THEN (h - l) + 1 ELSE 0
        /\ \A i \in 1 .. (h - l) + 1 : SubSeq(t, l, h)[i] = t[(l + i) - 1]
    BY <2>2, <2>3, SubSeqProperties
  <2>5. Len(SubSeq(t, l, h)) = c
    BY <1>2, <2>2, <2>4
  <2>6. ASSUME NEW i \in 1 .. c
        PROVE  SubSeq(t, l, h)[i] = C[i]
    <3>1. PICK k : k = (l + i) - 1
      OBVIOUS
    <3>2. k \in 1 .. (a + b) + c /\ ~(k <= a + b) /\ k - (a + b) = i
      BY <1>2, <2>1, <3>1
    <3>3. t[k] = C[i]
      BY <1>3, <3>2, Zenon
    <3>4. i \in 1 .. (h - l) + 1
      BY <2>2
    <3> QED BY <2>4, <3>1, <3>3, <3>4, Zenon
  <2>7. SubSeq(t, l, h) = C
    BY <1>1, <2>4, <2>5, <2>6, SeqEqual
  <2> QED BY <2>1, <2>7, Zenon
<1>7. /\ a + 1 \in 1 .. Len(t) /\ a + b \in 1 .. Len(t) /\ a + 1 <= a + b
      /\ (a + 1) - 1 = a
  BY <1>2, <1>3
<1>8. A \o C = SubSeq(t, 1, (a + 1) - 1) \o SubSeq(t, (a + b) + 1, Len(t))
  BY <1>3, <1>5, <1>6, <1>7, Zenon
<1>9. LeftOut(t, A \o C)
  BY <1>7, <1>8, Zenon DEF LeftOut
<1> QED BY <1>9 DEF t

\* So a step that leaves a stretch of the requests out loses them.
LEMMA Losing ==
    ASSUME NEW A \in Seq(Request), NEW B \in Seq(Request), NEW C \in Seq(Request),
           OnTheWay = (A \o B) \o C, OnTheWay' = A \o C, acted' = acted
    PROVE  PromiseStep
<1>1. CASE B = <<>>
  <2>1. A \o B = A
    BY <1>1, ConcatEmptySeq
  <2> QED BY <2>1, Zenon DEF PromiseStep, Promise!fifoVars
<1>2. CASE B # <<>>
  <2>1. LeftOut(OnTheWay, OnTheWay')
    BY <1>2, LeaveOut, Zenon
  <2>2. Promise!Lose
    BY <2>1, Zenon DEF Promise!Lose, LeftOut
  <2> QED BY <2>2, Zenon DEF PromiseStep, Promise!fifoVars
<1> QED BY <1>1, <1>2

\* What is on the way, each part one request or none.
LEMMA PartsAre ==
    ASSUME KursLinkAssumption, FieldsOK, LineInv
    PROVE  Handed \in Seq(Request) /\ EndOf(rx) \in Seq(Request) /\ EndOf(line) \in Seq(Request)
<1>0. /\ <<>> \in Seq(Request)
      /\ \A r \in 0 .. Packets : r # 0 => <<r>> \in Seq(Request)
  BY DEF Request
<1>1. Handed \in Seq(Request)
  <2>1. PICK w : w = Whole(processor.mem[processor.buff_copy])
    OBVIOUS
  <2>2. w \in 0 .. Packets
    BY <2>1, RowIs, WholeEnds DEF FieldsOK
  <2> QED BY <1>0, <2>1, <2>2, Zenon DEF Handed
<1>2. EndOf(rx) \in Seq(Request)
  <2>1. CASE rx = <<>>
    BY <1>0, <2>1, Zenon DEF EndOf
  <2>2. CASE \E c \in Byte : rx = <<c>>
    <3>1. PICK c \in Byte : rx = <<c>>
      BY <2>2
    <3>2. c.pkt \in 0 .. Packets
      BY DEF Byte
    <3>3. EndOf(rx) = IF c.val = "eop" /\ c.pkt # 0 THEN <<c.pkt>> ELSE <<>>
      BY <3>1, EndOfByte, Zenon
    <3>4. CASE c.val = "eop" /\ c.pkt # 0
      BY <1>0, <3>2, <3>3, <3>4, Zenon
    <3>5. CASE ~(c.val = "eop" /\ c.pkt # 0)
      BY <1>0, <3>3, <3>5, Zenon
    <3> QED BY <3>4, <3>5
  <2> QED BY <2>1, <2>2 DEF FieldsOK
<1>3. EndOf(line) \in Seq(Request)
  <2>1. PICK n \in 0 .. Packets : LineIs(n)
    BY DEF LineInv
  <2>2. EndOf(line) = IF line = <<>> \/ n = 0 THEN <<>> ELSE <<n>>
    BY <2>1, EndOfRest, Zenon DEF LineIs
  <2> QED BY <1>0, <2>2, Zenon
<1> QED BY <1>1, <1>2, <1>3

\* A request leaves the control unit.
LEMMA StartPromise ==
    ASSUME KursLinkAssumption, FieldsOK, LineInv, Poll \/ PollOther
    PROVE  PromiseStep
<1>1. /\ Handed' = Handed /\ EndOf(rx)' = EndOf(rx) /\ acted' = acted /\ line = <<>>
  <2>1. UNCHANGED <<processor, rx, serving, acted>> /\ line = <<>>
    BY Zenon DEF Poll, PollOther, Start, unit
  <2> QED BY <2>1, Zenon DEF Handed
<1>2. EndOf(line) = <<>>
  BY <1>1, Zenon DEF EndOf
<1>3. Handed \o EndOf(rx) \in Seq(Request)
  BY PartsAre, ConcatProperties
<1>4. OnTheWay = Handed \o EndOf(rx)
  BY <1>2, <1>3, ConcatEmptySeq, Zenon DEF OnTheWay
<1>5. CASE Poll
  <2>1. PICK n : n = (number % Packets) + 1
    OBVIOUS
  <2>2. n \in 0 .. Packets /\ n # 0 /\ n \in Request
    BY <2>1 DEF FieldsOK, Request
  <2>3. line' = Packet(n)
    BY <1>5, <2>1 DEF Poll, Start
  <2>4. EndOf(line)' = <<n>>
    <3>1. LineIs(n)' /\ Len(line') = Length /\ line' # <<>>
      BY <2>2, <2>3, LineStarts
    <3> QED BY <2>2, <3>1, EndOfRest, Zenon DEF LineIs
  <2>s. Len(OnTheWay) < 2
    <3>1. /\ serving => Handed = <<>>
          /\ rx = <<>> => EndOf(rx) = <<>>
      BY Zenon DEF Handed, EndOf
    <3>2. serving \/ rx = <<>>
      BY <1>5, Zenon DEF Poll, Start
    <3>3. Len(Handed) \in 0 .. 1 /\ Len(EndOf(rx)) \in 0 .. 1
      <4>1. \A x : Len(<<x>>) = 1
        OBVIOUS
      <4>2. Handed = <<>> \/ (\E x : Handed = <<x>>)
        BY Zenon DEF Handed
      <4>3. EndOf(rx) = <<>> \/ (\E x : EndOf(rx) = <<x>>)
        BY Zenon DEF EndOf
      <4> QED BY <4>1, <4>2, <4>3
    <3>4. Len(OnTheWay) = Len(Handed) + Len(EndOf(rx))
      BY <1>4, PartsAre, ConcatProperties
    <3>5. Len(Handed) = 0 \/ Len(EndOf(rx)) = 0
      BY <3>1, <3>2
    <3>6. PICK h, r : h = Len(Handed) /\ r = Len(EndOf(rx))
      OBVIOUS
    <3>7. h \in 0 .. 1 /\ r \in 0 .. 1 /\ (h = 0 \/ r = 0)
      BY <3>3, <3>5, <3>6, Zenon
    <3>8. h + r < 2
      BY <3>7
    <3> QED BY <3>4, <3>6, <3>8, Zenon
  <2>5. OnTheWay' = Append(OnTheWay, n)
    <3>1. OnTheWay' = OnTheWay \o <<n>>
      BY <1>1, <1>4, <2>4, Zenon DEF OnTheWay
    <3> QED BY <1>3, <1>4, <2>2, <3>1, AppendIsConcat, Zenon
  <2> QED BY <1>1, <2>2, <2>s, <2>5, Zenon DEF PromiseStep, Promise!Put
<1>6. CASE PollOther
  <2>1. line' = Packet(0) /\ 0 \in 0 .. Packets
    BY <1>6 DEF PollOther, Start
  <2>2. EndOf(line)' = <<>>
    <3>1. LineIs(0)'
      BY <2>1, LineStarts
    <3> QED BY <2>1, <3>1, EndOfRest, Zenon DEF LineIs
  <2> QED BY <1>1, <1>2, <2>2, Zenon DEF PromiseStep, Promise!fifoVars, OnTheWay
<1> QED BY <1>5, <1>6

\* The byte in the register is overwritten or the one that follows it lost, and
\* what they end with it.
LEMMA LinePromise ==
    ASSUME KursLinkAssumption, FieldsOK, LineInv, Deliver \/ Damage \/ LoseByte
    PROVE  PromiseStep
<1>1. PICK n \in 0 .. Packets : LineIs(n)
  BY DEF LineInv
<1>2. /\ line # <<>> /\ line' = Tail(line) /\ UNCHANGED <<processor, serving, acted>>
  BY Zenon DEF Deliver, Damage, Arrive, LoseByte, unit
<1>3. PICK H, R, L \in Seq(Request) : H = Handed /\ R = EndOf(rx) /\ L = EndOf(line)
  BY PartsAre
<1>4. Handed' = H /\ OnTheWay = (H \o R) \o L /\ acted' = acted
  BY <1>2, <1>3, Zenon DEF Handed, OnTheWay
<1>e. <<>> \in Seq(Request) /\ H \o R \in Seq(Request) /\ R \o L \in Seq(Request)
  BY ConcatProperties, EmptySeq
<1>s. /\ H \o <<>> = H /\ (H \o R) \o <<>> = H \o R /\ (H \o L) \o <<>> = H \o L
      /\ (H \o R) \o L = H \o (R \o L)
  BY <1>e, ConcatEmptySeq, ConcatAssociative, ConcatProperties, SMTT(40)
<1>5. /\ LineIs(n)' /\ Len(line) \in 1 .. Length /\ Len(line') = Len(line) - 1
      /\ Head(line) = Packet(n)[(Length - Len(line)) + 1]
  BY <1>1, <1>2, LineMoves
<1>6. L = IF n = 0 THEN <<>> ELSE <<n>>
  BY <1>1, <1>2, <1>3, EndOfRest, Zenon DEF LineIs
<1>7. EndOf(line)' = IF line' = <<>> \/ n = 0 THEN <<>> ELSE <<n>>
  BY <1>5, EndOfRest, Zenon DEF LineIs
<1>8. EndOf(line)' = L \/ EndOf(line)' = <<>>
  BY <1>6, <1>7, Zenon
<1>9. CASE LoseByte
  <2>1. EndOf(rx)' = R
    BY <1>3, <1>9, Zenon DEF LoseByte, unit, EndOf
  <2>2. CASE EndOf(line)' = L
    BY <1>4, <2>1, <2>2, Zenon DEF PromiseStep, Promise!fifoVars, OnTheWay
  <2>3. CASE EndOf(line)' = <<>>
    <3>1. OnTheWay' = (H \o R) \o <<>>
      BY <1>4, <2>1, <2>3, Zenon DEF OnTheWay
    <3>2. OnTheWay = ((H \o R) \o L) \o <<>>
      <4>1. (H \o R) \o L \in Seq(Request)
        BY <1>e, ConcatProperties
      <4> QED BY <1>4, <4>1, ConcatEmptySeq, Zenon
    <3> QED BY <1>3, <1>4, <1>e, <3>1, <3>2, Losing, Zenon
  <2> QED BY <1>8, <2>2, <2>3
<1>10. CASE Damage
  <2>1. PICK v \in Noise : Arrive([Head(line) EXCEPT !.val = v, !.pkt = 0])
    BY <1>10 DEF Damage
  <2>2. PICK d : d \in Byte /\ d.pkt = 0 /\ rx' = <<d>>
    BY <1>2, <2>1, HeadIs, DamagedByte, Zenon DEF Arrive
  <2>3. EndOf(rx)' = <<>>
    BY <2>2, EndOfByte, Zenon
  <2>4. CASE EndOf(line)' = L
    <3>1. OnTheWay' = H \o L
      BY <1>4, <1>s, <2>3, <2>4, Zenon DEF OnTheWay
    <3> QED BY <1>3, <1>4, <3>1, Losing, Zenon
  <2>5. CASE EndOf(line)' = <<>>
    <3>1. OnTheWay' = H \o <<>>
      BY <1>4, <1>s, <2>3, <2>5, Zenon DEF OnTheWay
    <3>2. OnTheWay = (H \o (R \o L)) \o <<>>
      <4>1. H \o (R \o L) \in Seq(Request)
        BY <1>e, ConcatProperties
      <4> QED BY <1>4, <1>s, <4>1, ConcatEmptySeq, Zenon
    <3> QED BY <1>3, <1>4, <1>e, <3>1, <3>2, Losing, Zenon
  <2> QED BY <1>8, <2>4, <2>5
<1>11. CASE Deliver
  <2>1. PICK c : c = Head(line)
    OBVIOUS
  <2>2. rx' = <<c>>
    BY <1>11, <2>1 DEF Deliver, Arrive
  <2>3. (Length - Len(line)) + 1 \in 1 .. Length /\ ((Length - Len(line)) + 1 = Length <=> Len(line') = 0)
    BY <1>5
  <2>4. c.pkt = n /\ (c.val = "eop" <=> Len(line') = 0)
    BY <1>5, <2>1, <2>3, PacketBytes, SMTT(40)
  <2>5. Len(line') = 0 <=> line' = <<>>
    BY <1>5, EmptySeq DEF LineIs
  <2>6. EndOf(rx)' = IF line' = <<>> /\ n # 0 THEN <<n>> ELSE <<>>
    BY <2>2, <2>4, <2>5, EndOfByte, Zenon
  <2>7. \/ EndOf(rx)' = L /\ EndOf(line)' = <<>>
        \/ EndOf(rx)' = <<>> /\ EndOf(line)' = L
    BY <1>6, <1>7, <2>6, Zenon
  <2>8. OnTheWay' = H \o L
    BY <1>4, <1>s, <2>7, Zenon DEF OnTheWay
  <2> QED BY <1>3, <1>4, <2>8, Losing, Zenon
<1> QED BY <1>9, <1>10, <1>11

\* A byte is taken from the register: a request is handed over at the end of
\* its packet, in the place of one that still waits for the alarm.
LEMMA ReceivePromise ==
    ASSUME KursLinkAssumption, FieldsOK, BuffersInv, LineInv, Receive
    PROVE  PromiseStep
<1>1. PICK c \in Byte :
         rx = <<c>> /\ rx' = <<>> /\ Arrival(processor', processor, c)
  BY ByteReceived, Zenon
<1>2. UNCHANGED <<serving, line, acted>> /\ ~serving
  BY Zenon DEF Receive, control
<1>3. PICK H, R, L \in Seq(Request) : H = Handed /\ R = EndOf(rx) /\ L = EndOf(line)
  BY PartsAre
<1>4. /\ OnTheWay = (H \o R) \o L /\ acted' = acted
      /\ EndOf(rx)' = <<>> /\ EndOf(line)' = L
  BY <1>1, <1>2, <1>3, Zenon DEF OnTheWay, EndOf
<1>e. <<>> \in Seq(Request) /\ H \o R \in Seq(Request) /\ R \o L \in Seq(Request)
  BY ConcatProperties, EmptySeq
<1>s. /\ H \o <<>> = H /\ R \o <<>> = R /\ <<>> \o <<>> = <<>> /\ <<>> \o L = L
      /\ <<>> \o (R \o L) = R \o L /\ <<>> \o H = H /\ <<>> \o (H \o R) = H \o R
      /\ (H \o R) \o L = H \o (R \o L)
  BY <1>e, ConcatEmptySeq, ConcatAssociative
<1>5. PICK p, q : p = processor /\ q = processor'
  OBVIOUS
<1>6. /\ p \in Receivers /\ q \in Receivers /\ Arrival(q, p, c)
      /\ p.buff \in 1 .. 2 /\ p.buff_copy \in 1 .. 2
      /\ \A i \in 1 .. Cap : p.mem[p.buff][i].val # "eop"
      /\ p.request_ready => p.buff # p.buff_copy
  BY <1>1, <1>5, FieldsIs, ZenonT(60) DEF FieldsOK, BuffersInv, Arrival, Passed, Fed, HandedOver
<1>7. /\ H = IF p.request_ready /\ Whole(p.mem[p.buff_copy]) # 0
             THEN <<Whole(p.mem[p.buff_copy])>> ELSE <<>>
      /\ Handed' = IF q.request_ready /\ Whole(q.mem[q.buff_copy]) # 0
                   THEN <<Whole(q.mem[q.buff_copy])>> ELSE <<>>
  BY <1>2, <1>3, <1>5, Zenon DEF Handed
<1>8. CASE Handed' = H
  <2>1. OnTheWay' = H \o L
    BY <1>4, <1>8, <1>s, Zenon DEF OnTheWay
  <2> QED BY <1>4, <2>1, Losing, Zenon
<1>9. CASE HandedOver(q, p, c)
  <2>1. PICK w : w = Whole(q.mem[q.buff_copy])
    OBVIOUS
  <2>2. Handed' = IF w # 0 THEN <<w>> ELSE <<>>
    BY <1>7, <1>9, <2>1, Zenon DEF HandedOver
  <2>3. CASE w = 0
    <3>1. OnTheWay' = <<>> \o L
      BY <1>4, <1>s, <2>2, <2>3, Zenon DEF OnTheWay
    <3>2. OnTheWay = (<<>> \o (H \o R)) \o L
      BY <1>4, <1>s, Zenon
    <3> QED BY <1>4, <1>e, <3>1, <3>2, Losing, Zenon
  <2>4. CASE w # 0
    <3>1. PICK i \in 1 .. Cap :
             q.mem[q.buff_copy][i].val = "eop" /\ q.mem[q.buff_copy][i].pkt = w
      BY <1>6, <2>1, <2>4, RowIs, WholeEnds, Zenon
    <3>2. q.mem[q.buff_copy][i] = IF i = p.cntr + 1 THEN c ELSE p.mem[p.buff][i]
      BY <1>9, Zenon DEF HandedOver
    <3>3. c.val = "eop" /\ c.pkt = w
      BY <1>6, <3>1, <3>2, Zenon
    <3>4. R = <<w>>
      BY <1>1, <1>3, <2>4, <3>3, EndOfByte, Zenon
    <3>5. OnTheWay' = <<>> \o (R \o L)
      BY <1>4, <1>s, <2>2, <2>4, <3>4, Zenon DEF OnTheWay
    <3>6. OnTheWay = (<<>> \o H) \o (R \o L)
      BY <1>4, <1>s, Zenon
    <3> QED BY <1>4, <1>e, <3>5, <3>6, Losing, Zenon
  <2> QED BY <2>3, <2>4
<1>10. CASE Passed(q, p)
  BY <1>7, <1>8, <1>10, Zenon DEF Passed, Kept
<1>11. CASE Fed(q, p, c)
  <2>1. q.buff_copy = p.buff_copy /\ (q.request_ready <=> p.request_ready)
    BY <1>11, Zenon DEF Fed, Kept
  <2>2. p.request_ready => p.buff_copy = 3 - p.buff
    BY <1>6
  <2>3. p.request_ready => q.mem[q.buff_copy] = p.mem[p.buff_copy]
    BY <1>11, <2>1, <2>2, Zenon DEF Fed, StoredIn
  <2>4. Handed' = H
    BY <1>7, <2>1, <2>3, Zenon
  <2> QED BY <1>8, <2>4
<1> QED BY <1>6, <1>9, <1>10, <1>11, Zenon DEF Arrival

\* The alarm acts on the oldest request, if it is whole.
LEMMA ServePromise ==
    ASSUME KursLinkAssumption, FieldsOK, LineInv, Serve
    PROVE  PromiseStep
<1>1. /\ UNCHANGED <<processor, rx, line>> /\ ~serving /\ processor.request_ready /\ serving'
  BY Zenon DEF Serve
<1>2. PICK w : w = Whole(processor.mem[processor.buff_copy])
  OBVIOUS
<1>3. acted' = IF w = 0 THEN acted ELSE w
  BY <1>2, Zenon DEF Serve
<1>4. PICK R, L \in Seq(Request) : R = EndOf(rx) /\ L = EndOf(line)
  BY PartsAre
<1>e. <<>> \in Seq(Request) /\ R \o L \in Seq(Request) /\ <<>> \o R = R
  BY ConcatProperties, EmptySeq, ConcatEmptySeq
<1>5. Handed = (IF w # 0 THEN <<w>> ELSE <<>>) /\ Handed' = <<>>
  BY <1>1, <1>2, Zenon DEF Handed
<1>6. OnTheWay' = R \o L
  BY <1>1, <1>4, <1>5, <1>e, Zenon DEF OnTheWay, EndOf
<1>7. CASE w = 0
  <2>1. OnTheWay = R \o L
    BY <1>4, <1>5, <1>7, <1>e, Zenon DEF OnTheWay
  <2> QED BY <1>3, <1>6, <1>7, <2>1, Zenon DEF PromiseStep, Promise!fifoVars
<1>8. CASE w # 0
  <2>1. w \in Request
    <3>1. w \in 0 .. Packets
      BY <1>2, RowIs, WholeEnds DEF FieldsOK
    <3> QED BY <1>8, <3>1 DEF Request
  <2>2. PICK t \in Seq(Request) : t = R \o L
    BY <1>e
  <2>3. OnTheWay = <<w>> \o t
    <3>1. <<w>> \in Seq(Request)
      BY <2>1
    <3>2. (<<w>> \o R) \o L = <<w>> \o t
      <4>1. PICK x \in Seq(Request) : x = <<w>>
        BY <3>1
      <4>2. (x \o R) \o L = x \o (R \o L)
        BY ConcatAssociative
      <4> QED BY <2>2, <4>1, <4>2, Zenon
    <3> QED BY <1>4, <1>5, <1>8, <3>2, Zenon DEF OnTheWay
  <2>4. <<w>> \o t # <<>> /\ Head(<<w>> \o t) = w /\ Tail(<<w>> \o t) = t
    BY <2>1
  <2>5. Promise!Take
    BY <1>3, <1>6, <1>8, <2>2, <2>3, <2>4, Zenon DEF Promise!Take, Latest
  <2> QED BY <2>5, Zenon DEF PromiseStep, Promise!fifoVars
<1> QED BY <1>7, <1>8

\* Nothing else touches a request.
LEMMA OtherPromise ==
    ASSUME KursLinkAssumption, FieldsOK, ServingInv, GiveUp \/ Reply \/ UNCHANGED vars
    PROVE  PromiseStep
<1>1. UNCHANGED <<rx, line, acted>>
  BY Zenon DEF GiveUp, Reply, vars, unit
<1>2. Handed' = Handed
  <2>1. CASE Reply
    <3>1. serving /\ ~processor'.request_ready
      BY <2>1, ReplyClears, Zenon DEF Reply
    <3> QED BY <3>1, Zenon DEF Handed
  <2>2. CASE GiveUp \/ UNCHANGED vars
    <3>1. UNCHANGED <<processor, serving>>
      BY <2>2, Zenon DEF GiveUp, vars, unit
    <3> QED BY <3>1, Zenon DEF Handed
  <2> QED BY <2>1, <2>2
<1>3. OnTheWay' = OnTheWay
  BY <1>1, <1>2, Zenon DEF OnTheWay
<1> QED BY <1>1, <1>3, Zenon DEF PromiseStep, Promise!fifoVars

\* Lost, damaged and overrun bytes, packets run into one and slow services
\* never repeat a request the unit acts on whole or change the order
\* (kurs_service clears request_ready at its end, the interrupts held back).
THEOREM ActsOnce ==
    ASSUME KursLinkAssumption
    PROVE  Spec => ActsAtMostOnce
<1>1. ASSUME Init
      PROVE  Promise!FifoInit
  <2>1. Handed = <<>> /\ EndOf(rx) = <<>> /\ EndOf(line) = <<>>
    BY <1>1, Zenon DEF Init, Processor, Handed, EndOf
  <2>2. <<>> \o <<>> = <<>>
    OBVIOUS
  <2> QED BY <1>1, <2>1, <2>2, Zenon DEF Init, Promise!FifoInit, OnTheWay
<1>2. ASSUME IInv, [Next]_vars
      PROVE  PromiseStep
  <2>1. FieldsOK /\ BuffersInv /\ ServingInv /\ LineInv
    BY <1>2, Zenon DEF IInv
  <2> QED BY <1>2, <2>1, StartPromise, LinePromise, ReceivePromise, ServePromise, OtherPromise,
             Zenon DEF Next
<1>3. Init => Promise!FifoInit
  BY <1>1
<1>4. IInv /\ [Next]_vars => [Promise!Put \/ Promise!Take \/ Promise!Lose]_(Promise!fifoVars)
  BY <1>2 DEF PromiseStep, Promise!fifoVars
<1> QED BY <1>3, <1>4, IInvHolds, PTL DEF Spec, ActsAtMostOnce, Promise!LossySpec

-----------------------------------------------------------------------------
(* Packets run into one stay in the buffer.                                *)

Payload == processor.receive = "payload"

\* An end of packet is on its way to the receiver.
Pending == line # <<>> \/ (rx # <<>> /\ rx[1].val = "eop")

\* Bytes in the packets whose ends were lost, ...
Budget == Length * faults

\* ... in one that ends yet, and in one that is with the alarm: a fault had to
\* come for more to be received before the alarm is done with it.
Due == IF Pending THEN Length ELSE 0
Owed == IF processor.request_ready THEN Length ELSE 0

Run == (processor.cntr + Len(rx)) + Len(line)

RunInv ==
    /\ Payload => 1 <= processor.cntr
    /\ Payload /\ ~serving => Run + Owed <= Budget + Due
    /\ Payload /\ serving => processor.cntr + 1 <= Budget
    /\ Len(rx) + Len(line) > Length => faults >= 1 /\ (serving \/ ~processor.request_ready)
    /\ rx # <<>> /\ line = <<>> /\ rx[1].val # "eop" =>
           faults >= 1 /\ (processor.request_ready => faults >= 2)

\* Before the first fault the control unit waits while a request is with the unit.
FirstInv ==
    faults = 0 =>
        /\ ~slow
        /\ processor.request_ready => answer = "open" /\ line = <<>> /\ rx = <<>>
        /\ Payload => answer = "open"
        /\ rx # <<>> => /\ rx[1].val = "eop" => line = <<>>
                        /\ rx[1].val = "sop" => answer = "open"
        /\ EndOf(line) # <<>> => answer = "open"

LEMMA Times ==
    ASSUME KursLinkAssumption, NEW f \in Nat
    PROVE  /\ Length * f \in Nat /\ Length * (f + 1) = Length * f + Length
           /\ f = 0 => Length * f = 0
           /\ f >= 1 => Length * f >= Length
           /\ f >= 2 => Length * f >= Length + Length
<1>1. \A g \in Nat : Length * g \in Nat /\ Length * (g + 1) = Length * g + Length
  OBVIOUS
<1>2. f >= 1 => Length * f >= Length
  <2> SUFFICES ASSUME f >= 1 PROVE Length * f >= Length
    OBVIOUS
  <2>1. PICK g \in Nat : f = g + 1
    <3>1. f - 1 \in Nat /\ f = (f - 1) + 1
      OBVIOUS
    <3> QED BY <3>1, Zenon
  <2>2. Length * f = Length * g + Length /\ Length * g \in Nat
    BY <1>1, <2>1, Zenon
  <2> QED BY <2>2
<1>3. f >= 2 => Length * f >= Length + Length
  <2> SUFFICES ASSUME f >= 2 PROVE Length * f >= Length + Length
    OBVIOUS
  <2>1. PICK g \in Nat : f = (g + 1) + 1
    <3>1. f - 2 \in Nat /\ f = ((f - 2) + 1) + 1
      OBVIOUS
    <3> QED BY <3>1, Zenon
  <2>2. g + 1 \in Nat
    OBVIOUS
  <2>3. /\ Length * f = Length * (g + 1) + Length
        /\ Length * (g + 1) = Length * g + Length /\ Length * g \in Nat
    BY <1>1, <2>1, <2>2, Zenon
  <2> QED BY <2>3
<1> QED BY <1>1, <1>2, <1>3

LEMMA Sizes ==
    ASSUME KursLinkAssumption, FieldsOK, LineInv
    PROVE  /\ processor.cntr \in 0 .. Cap + 1 /\ faults \in Nat
           /\ Len(rx) \in 0 .. 1 /\ (rx = <<>> <=> Len(rx) = 0)
           /\ Len(line) \in 0 .. Length /\ (line = <<>> <=> Len(line) = 0)
           /\ Budget \in Nat
           /\ faults = 0 => Budget = 0
           /\ faults >= 1 => Budget >= Length
           /\ faults >= 2 => Budget >= Length + Length
<1>1. faults \in Nat
  BY DEF FieldsOK
<1>2. processor.cntr \in 0 .. Cap + 1
  BY FieldsIs, Zenon DEF FieldsOK
<1>3. PICK n \in 0 .. Packets : LineIs(n)
  BY DEF LineInv
<1> QED BY <1>1, <1>2, <1>3, GotIs, Times, Zenon DEF Budget

\* With nothing on its way the receiver is between packets until the first fault.
LEMMA FirstSilent ==
    ASSUME KursLinkAssumption, FieldsOK, LineInv, RunInv,
           faults = 0, ~serving, rx = <<>>, line = <<>>
    PROVE  ~Payload
<1> SUFFICES ASSUME Payload PROVE FALSE
  OBVIOUS
<1>1. 1 <= processor.cntr /\ Run + Owed <= Budget + Due
  BY Zenon DEF RunInv
<1>2. Budget = 0 /\ Due = 0 /\ Run = processor.cntr
  BY Sizes DEF Due, Pending, Run
<1>3. Owed >= 0
  BY DEF Owed
<1> QED BY <1>1, <1>2, <1>3, Sizes DEF Owed

LEMMA RunStart ==
    ASSUME KursLinkAssumption, FieldsOK, ServingInv, LineInv, RunInv, FirstInv, Poll \/ PollOther
    PROVE  RunInv' /\ FirstInv'
<1>1. PICK n \in 0 .. Packets :
         line' = Packet(n) /\ (n # 0 => answer' = "open")
  <2>1. CASE Poll
    <3>1. PICK n : n = (number % Packets) + 1
      OBVIOUS
    <3>2. n \in 0 .. Packets
      BY <3>1 DEF FieldsOK
    <3> QED BY <2>1, <3>1, <3>2 DEF Poll, Start
  <2>2. CASE PollOther
    BY <2>2 DEF PollOther, Start
  <2> QED BY <2>1, <2>2
<1>2. /\ UNCHANGED <<processor, rx, serving, slow, faults>>
      /\ line = <<>> /\ answer # "open" /\ (serving \/ rx = <<>>)
  BY Zenon DEF Poll, PollOther, Start, unit
<1>3. Len(line') = Length /\ line' # <<>> /\ Len(line) = 0 /\ LineIs(n)'
  BY <1>1, <1>2, LineStarts
<1>4. Budget' = Budget /\ Owed' = Owed /\ (Payload' <=> Payload)
  BY <1>2, Zenon DEF Budget, Owed, Payload
<1>5. ASSUME Payload, ~serving
      PROVE  Run' + Owed' <= Budget' + Due'
  <2>1. rx = <<>> /\ Run + Owed <= Budget + Due
    BY <1>2, <1>5, Zenon DEF RunInv
  <2>2. Due = 0 /\ Due' = Length
    BY <1>2, <1>3, <2>1, Zenon DEF Due, Pending
  <2>3. Run' = Run + Length
    BY <1>2, <1>3, Sizes DEF Run
  <2>4. Run \in Nat /\ Owed \in Nat
    BY Sizes DEF Run, Owed
  <2> QED BY <1>4, <2>1, <2>2, <2>3, <2>4, Sizes
<1>6. ASSUME Len(rx) + Length > Length
      PROVE  faults >= 1 /\ serving
  <2>1. rx # <<>>
    BY <1>6, Sizes
  <2>2. serving /\ processor.request_ready
    BY <1>2, <2>1, Zenon DEF ServingInv
  <2>3. faults # 0
    BY <2>1, <2>2, Zenon DEF FirstInv
  <2> QED BY <2>2, <2>3, Sizes
<1>7. RunInv'
  BY <1>2, <1>3, <1>4, <1>5, <1>6, Zenon DEF RunInv
<1>8. ASSUME faults = 0
      PROVE  /\ ~processor.request_ready /\ ~slow /\ rx = <<>> /\ ~Payload
             /\ EndOf(line)' # <<>> => answer' = "open"
  <2>1. ~processor.request_ready /\ ~slow
    BY <1>2, <1>8, Zenon DEF FirstInv
  <2>2. ~serving /\ rx = <<>>
    BY <1>2, <2>1, Zenon DEF ServingInv
  <2>3. ~Payload
    BY <1>2, <1>8, <2>2, FirstSilent
  <2>4. EndOf(line)' # <<>> => answer' = "open"
    BY <1>1, <1>3, EndOfRest, Zenon DEF LineIs
  <2> QED BY <2>1, <2>2, <2>3, <2>4
<1>9. FirstInv'
  BY <1>2, <1>4, <1>8, Zenon DEF FirstInv
<1> QED BY <1>7, <1>9

LEMMA RunGiveUp ==
    ASSUME KursLinkAssumption, FieldsOK, ServingInv, LineInv, RunInv, FirstInv, GiveUp
    PROVE  RunInv' /\ FirstInv'
<1>1. /\ UNCHANGED <<processor, rx, serving, slow, line, faults>> /\ line = <<>>
      /\ slow \/ (~serving /\ ~processor.request_ready /\ rx = <<>>)
  BY Zenon DEF GiveUp, unit, Waits
<1>2. RunInv'
  BY <1>1, Zenon DEF RunInv, Payload, Run, Owed, Budget, Due, Pending
<1>3. faults = 0 => ~processor.request_ready /\ ~slow /\ rx = <<>> /\ ~Payload
  BY <1>1, FirstSilent, Zenon DEF FirstInv
<1>4. EndOf(line)' = <<>>
  BY <1>1, Zenon DEF EndOf
<1>5. FirstInv'
  BY <1>1, <1>3, <1>4, Zenon DEF FirstInv, Payload
<1> QED BY <1>2, <1>5

LEMMA RunArrive ==
    ASSUME KursLinkAssumption, FieldsOK, ServingInv, LineInv, RunInv, FirstInv,
           Deliver \/ Damage \/ LoseByte
    PROVE  RunInv' /\ FirstInv'
<1>1. PICK n \in 0 .. Packets : LineIs(n)
  BY DEF LineInv
<1>2. /\ line # <<>> /\ line' = Tail(line)
      /\ UNCHANGED <<processor, serving, slow, answer>>
      /\ Payload' <=> Payload
      /\ Owed' = Owed
  BY Zenon DEF Deliver, Damage, Arrive, LoseByte, unit, control, Payload, Owed
<1>3. /\ LineIs(n)' /\ Len(line) \in 1 .. Length /\ Len(line') = Len(line) - 1
      /\ Head(line) = Packet(n)[(Length - Len(line)) + 1]
  BY <1>1, <1>2, LineMoves
<1>4. Len(line') = 0 <=> line' = <<>>
  BY <1>3, EmptySeq DEF LineIs
<1>5. PICK e : e = Head(line)
  OBVIOUS
<1>6. (e.val = "eop" <=> line' = <<>>) /\ (e.val = "sop" => n # 0)
  <2>1. /\ (Length - Len(line)) + 1 \in 1 .. Length
        /\ (Length - Len(line)) + 1 = Length <=> Len(line') = 0
    BY <1>3
  <2> QED BY <1>3, <1>4, <1>5, <2>1, PacketBytes
<1>7. Due = Length /\ Due' \in 0 .. Length
  BY <1>2 DEF Due, Pending
<1>8. /\ Owed \in Nat /\ Run \in Nat /\ Budget \in Nat
  BY Sizes DEF Owed, Run
<1>a. CASE Deliver
  <2>1. /\ rx' = <<e>> /\ rx' # <<>> /\ rx'[1] = e /\ Len(rx') = 1
        /\ faults' = faults /\ Budget' = Budget /\ (serving \/ rx = <<>>)
    BY <1>5, <1>a DEF Deliver, Arrive, Budget
  <2>2. Len(rx') + Len(line') <= Len(rx) + Len(line)
    BY <1>3, <2>1, Sizes
  <2>3. ASSUME Payload, ~serving
        PROVE  Run' + Owed' <= Budget' + Due'
    <3>1. Len(rx) = 0 /\ processor'.cntr = processor.cntr
      BY <1>2, <2>1, <2>3, Sizes
    <3>2. Run' = Run
      BY <1>3, <2>1, <3>1, Sizes DEF Run
    <3>3. Due' = Length
      BY <1>6, <2>1, Zenon DEF Due, Pending
    <3>4. Run + Owed <= Budget + Due
      BY <2>3, Zenon DEF RunInv
    <3> QED BY <1>2, <1>7, <2>1, <3>2, <3>3, <3>4, Zenon
  <2>4. Len(rx') + Len(line') > Length => faults >= 1 /\ (serving \/ ~processor.request_ready)
    <3>1. Len(rx') + Len(line') > Length => Len(rx) + Len(line) > Length
      BY <1>3, <2>1, <2>2, Sizes
    <3> QED BY <3>1, Zenon DEF RunInv
  <2>5. RunInv'
    BY <1>2, <1>6, <2>1, <2>3, <2>4, Zenon DEF RunInv
  <2>6. ASSUME faults = 0
        PROVE  /\ ~processor.request_ready
               /\ e.val = "sop" => answer = "open"
               /\ EndOf(line)' # <<>> => answer = "open"
    <3>1. ~processor.request_ready /\ (EndOf(line) # <<>> => answer = "open")
      BY <1>2, <2>6, Zenon DEF FirstInv
    <3>2. EndOf(line) = IF n = 0 THEN <<>> ELSE <<n>>
      BY <1>1, <1>2, EndOfRest, Zenon DEF LineIs
    <3>3. EndOf(line)' = IF line' = <<>> \/ n = 0 THEN <<>> ELSE <<n>>
      BY <1>3, EndOfRest, Zenon DEF LineIs
    <3>4. <<n>> # <<>>
      OBVIOUS
    <3> QED BY <1>6, <3>1, <3>2, <3>3, <3>4, Zenon
  <2>7. FirstInv'
    BY <1>2, <1>6, <2>1, <2>6, Zenon DEF FirstInv
  <2> QED BY <2>5, <2>7
<1>b. CASE Damage \/ LoseByte
  <2>1. faults' = faults + 1
    BY <1>b DEF Damage, LoseByte
  <2>2. Budget' = Budget + Length
    BY <2>1, Sizes, Times DEF Budget
  <2>3. /\ Len(rx') + Len(line') <= Len(rx) + Len(line)
        /\ Len(rx') \in 0 .. 1
    <3>1. CASE Damage
      <4>1. PICK d : rx' = <<d>>
        BY <3>1 DEF Damage, Arrive
      <4> QED BY <1>3, <4>1, Sizes
    <3>2. CASE LoseByte
      <4>1. rx' = rx
        BY <3>2 DEF LoseByte, unit
      <4> QED BY <1>3, <4>1, Sizes
    <3> QED BY <1>b, <3>1, <3>2
  <2>4. ASSUME Payload, ~serving, Run + Owed <= Budget + Due
        PROVE  Run' + Owed' <= Budget' + Due'
    <3>2. Run' <= Run
      <4>1. processor'.cntr = processor.cntr
        BY <1>2, Zenon
      <4> QED BY <1>3, <2>3, <4>1, Sizes, SMTT(40) DEF Run
    <3>3. Run' \in Nat
      BY <1>2, <1>3, <2>3, Sizes, SMTT(40) DEF Run
    <3>4. PICK r, t, o, b, d : r = Run /\ t = Run' /\ o = Owed /\ b = Budget /\ d = Due'
      OBVIOUS
    <3>5. /\ r \in Nat /\ t \in Nat /\ o \in Nat /\ b \in Nat /\ d \in 0 .. Length
          /\ t <= r /\ r + o <= b + Length
      BY <1>7, <1>8, <2>4, <3>2, <3>3, <3>4, Zenon
    <3>6. t + o <= (b + Length) + d
      BY <3>5
    <3> QED BY <1>2, <2>2, <3>4, <3>6, Zenon
  <2>5. Payload /\ serving => processor.cntr + 1 <= Budget'
    <3>1. Payload /\ serving => processor.cntr + 1 <= Budget
      BY Zenon DEF RunInv
    <3> QED BY <1>8, <2>2, <3>1, Sizes
  <2>6. /\ Len(rx') + Len(line') > Length => faults' >= 1 /\ (serving \/ ~processor.request_ready)
        /\ faults' >= 1
        /\ processor.request_ready => faults' >= 2
    <3>1. Len(rx') + Len(line') > Length => Len(rx) + Len(line) > Length
      BY <1>3, <2>3, Sizes
    <3>2. Len(rx) + Len(line) > Length => serving \/ ~processor.request_ready
      BY Zenon DEF RunInv
    <3>3. processor.request_ready => faults # 0
      BY <1>2, Zenon DEF FirstInv
    <3>4. faults' >= 1 /\ (faults # 0 => faults' >= 2)
      BY <2>1, Sizes
    <3> QED BY <3>1, <3>2, <3>3, <3>4, Zenon
  <2>7. Payload /\ ~serving => Run + Owed <= Budget + Due
    BY Zenon DEF RunInv
  <2>8. RunInv'
    BY <1>2, <2>4, <2>5, <2>6, <2>7, Zenon DEF RunInv
  <2>9. faults' # 0
    BY <2>6
  <2> QED BY <2>8, <2>9, Zenon DEF FirstInv
<1> QED BY <1>a, <1>b

LEMMA RunReceive ==
    ASSUME KursLinkAssumption, FieldsOK, BuffersInv, LineInv, RunInv, FirstInv, Receive
    PROVE  RunInv' /\ FirstInv'
<1>1. PICK c \in Byte :
         /\ rx = <<c>> /\ rx' = <<>> /\ rx[1] = c
         /\ Arrival(processor', processor, c)
  BY ByteReceived, Zenon
<1>2. UNCHANGED <<serving, slow, line, answer, faults>> /\ ~serving /\ Budget' = Budget
  BY Zenon DEF Receive, control, Budget
<1>3. rx # <<>> /\ Len(rx) = 1 /\ Len(rx') = 0 /\ rx' = <<>>
  BY <1>1
<1>0. "sop" # "eop" /\ "sop" # "payload" /\ "eop" # "payload"
  OBVIOUS
<1>4. ASSUME Payload'
      PROVE  /\ Fed(processor', processor, c) /\ c.val # "eop"
             /\ Payload \/ (processor.receive = "sop" /\ c.val = "sop" /\ processor.cntr = 0)
    <2>1. processor'.receive = "payload"
      BY <1>4, Zenon DEF Payload
    <2>2. \/ processor.receive = "sop" /\ c.val = "sop" /\ Fed(processor', processor, c)
          \/ Payload /\ c.val # "eop" /\ Fed(processor', processor, c)
      BY <1>0, <1>1, <2>1, Zenon DEF Arrival, HandedOver, Payload
    <2>3. processor.receive = "sop" => processor.cntr = 0
      BY <1>0, Zenon DEF BuffersInv
    <2> QED BY <1>0, <2>2, <2>3, Zenon
<1>5. ASSUME Payload'
      PROVE  /\ processor'.cntr \in 1 .. processor.cntr + 1
             /\ (processor'.request_ready <=> processor.request_ready) /\ Owed' = Owed
  <2>1. /\ processor'.cntr = IF processor.cntr < Cap THEN processor.cntr + 1 ELSE Cap + 1
        /\ processor'.request_ready <=> processor.request_ready
    BY <1>4, <1>5, Zenon DEF Fed, Kept
  <2>2. processor'.cntr \in 1 .. processor.cntr + 1
    BY <2>1, Sizes
  <2> QED BY <2>1, <2>2, Zenon DEF Owed
<1>6. ASSUME Payload'
      PROVE  Run' + Owed' <= Budget' + Due'
  <2>0. /\ Due = (IF line # <<>> THEN Length ELSE 0) /\ Due' = Due
        /\ Run' = processor'.cntr + Len(line)
        /\ Run = (processor.cntr + 1) + Len(line)
    <3>1. Due = (IF line # <<>> THEN Length ELSE 0)
      BY <1>1, <1>4, <1>6, Zenon DEF Due, Pending
    <3>2. Due' = (IF line # <<>> THEN Length ELSE 0)
      BY <1>1, <1>2, Zenon DEF Due, Pending
    <3>3. Len(line') = Len(line)
      BY <1>2
    <3> QED BY <1>3, <1>5, <1>6, <3>1, <3>2, <3>3, Sizes DEF Run
  <2>1. Owed \in Nat /\ Owed <= Length
    BY DEF Owed
  <2>2. CASE Payload
    <3>1. Run + Owed <= Budget + Due
      BY <1>2, <2>2, Zenon DEF RunInv
    <3>2. Due \in Nat
      BY <2>0
    <3>3. PICK k, h, l, o, b, d :
             /\ k = processor.cntr /\ h = processor'.cntr /\ l = Len(line)
             /\ o = Owed /\ b = Budget /\ d = Due
      OBVIOUS
    <3>4. /\ k \in 0 .. Cap + 1 /\ h \in 1 .. k + 1 /\ l \in 0 .. Length
          /\ o \in Nat /\ b \in Nat /\ d \in Nat /\ ((k + 1) + l) + o <= b + d
      BY <1>5, <1>6, <2>0, <2>1, <3>1, <3>2, <3>3, Sizes, Zenon
    <3>5. (h + l) + o <= b + d
      BY <3>4
    <3> QED BY <1>2, <1>5, <1>6, <2>0, <3>3, <3>5, Zenon
  <2>3. CASE ~Payload
    <3>1. c.val = "sop" /\ processor.cntr = 0
      BY <1>4, <1>6, <2>3
    <3>2. processor'.cntr = 1
      BY <1>5, <1>6, <3>1
    <3>3. CASE line = <<>>
      <4>1. faults >= 1 /\ (processor.request_ready => faults >= 2)
        BY <1>0, <1>1, <1>3, <3>1, <3>3, Zenon DEF RunInv
      <4>2. 1 + Owed <= Budget
        BY <4>1, Sizes DEF Owed
      <4>3. Run' = 1 /\ Due' = 0
        BY <2>0, <3>2, <3>3, Sizes
      <4> QED BY <1>2, <1>5, <1>6, <4>2, <4>3, Sizes
    <3>4. CASE line # <<>>
      <4>1. processor.request_ready => faults # 0
        BY <1>3, Zenon DEF FirstInv
      <4>2. Owed <= Budget
        BY <4>1, Sizes DEF Owed
      <4>3. Run' = 1 + Len(line) /\ Due' = Length
        BY <2>0, <3>2, <3>4
      <4>4. CASE 1 + Len(line) > Length
        <5>1. Len(rx) + Len(line) > Length
          BY <1>3, <4>4
        <5>2. faults >= 1 /\ ~processor.request_ready
          BY <1>2, <5>1, Zenon DEF RunInv
        <5>3. Owed = 0 /\ Budget >= Length
          BY <5>2, Sizes DEF Owed
        <5> QED BY <1>2, <1>5, <1>6, <4>3, <5>3, Sizes
      <4>5. CASE ~(1 + Len(line) > Length)
        BY <1>2, <1>5, <1>6, <2>1, <4>2, <4>3, <4>5, Sizes
      <4> QED BY <4>4, <4>5
    <3> QED BY <3>3, <3>4
  <2> QED BY <2>2, <2>3
<1>7. ~(Len(rx') + Len(line') > Length)
  BY <1>2, <1>3, Sizes
<1>8. Payload' => 1 <= processor'.cntr
  BY <1>5, Sizes
<1>9. RunInv'
  BY <1>1, <1>2, <1>6, <1>7, <1>8, Zenon DEF RunInv
<1>10. ASSUME faults = 0
       PROVE  /\ processor'.request_ready => answer = "open" /\ line = <<>>
              /\ Payload' => answer = "open"
  <2>1. /\ ~processor.request_ready
        /\ Payload => answer = "open"
        /\ c.val = "eop" => line = <<>>
        /\ c.val = "sop" => answer = "open"
    BY <1>1, <1>3, <1>10, Zenon DEF FirstInv
  <2>2. Payload' => answer = "open"
    BY <1>4, <2>1, Zenon
  <2>3. ASSUME processor'.request_ready
        PROVE  Payload /\ c.val = "eop"
    BY <1>0, <1>1, <2>1, <2>3, Zenon DEF Arrival, Passed, Fed, Kept, Payload
  <2> QED BY <2>1, <2>2, <2>3, Zenon
<1>11. FirstInv'
  <2>1. EndOf(line)' = EndOf(line)
    BY <1>2, Zenon
  <2> QED BY <1>1, <1>2, <1>10, <2>1, Zenon DEF FirstInv
<1> QED BY <1>9, <1>11

LEMMA RunServe ==
    ASSUME KursLinkAssumption, FieldsOK, LineInv, RunInv, FirstInv, Serve
    PROVE  RunInv' /\ FirstInv'
<1>1. /\ UNCHANGED <<processor, rx, line, answer>>
      /\ ~serving /\ processor.request_ready /\ serving'
      /\ \/ slow' = FALSE /\ faults' = faults
         \/ faults' = faults + 1
  BY Zenon DEF Serve, control
<1>2. /\ Budget' \in Nat /\ Budget' >= Budget /\ faults' \in Nat /\ faults' >= faults
      /\ faults' = 0 => faults = 0 /\ ~slow'
  <2>1. CASE slow' = FALSE /\ faults' = faults
    BY <2>1, Sizes DEF Budget
  <2>2. CASE faults' = faults + 1
    <3>1. Budget' = Budget + Length
      BY <2>2, Sizes, Times DEF Budget
    <3> QED BY <2>2, <3>1, Sizes
  <2> QED BY <1>1, <2>1, <2>2
<1>3. ASSUME Payload
      PROVE  processor.cntr + 1 <= Budget'
  <2>1. Run + Owed <= Budget + Due /\ Owed = Length
    BY <1>1, <1>3, Zenon DEF RunInv, Owed
  <2>2. CASE Pending
    <3>1. Due = Length /\ Len(rx) + Len(line) >= 1
      BY <2>2, Sizes DEF Due, Pending
    <3> QED BY <1>2, <2>1, <3>1, Sizes, SMTT(40) DEF Run
  <2>3. CASE ~Pending
    <3>1. Due = 0
      BY <2>3 DEF Due
    <3> QED BY <1>2, <2>1, <3>1, Sizes DEF Run
  <2> QED BY <2>2, <2>3
<1>4. /\ Len(rx) + Len(line) > Length => faults' >= 1
      /\ faults >= 1 => faults' >= 1
      /\ faults >= 2 => faults' >= 2
  <2>1. Len(rx) + Len(line) > Length => faults >= 1
    BY Zenon DEF RunInv
  <2>2. faults \in Nat
    BY Sizes
  <2>3. /\ faults >= 1 => faults' >= 1
        /\ faults >= 2 => faults' >= 2
    BY <1>2, <2>2
  <2> QED BY <2>1, <2>3, Zenon
<1>5. Payload' <=> Payload
  BY <1>1, Zenon DEF Payload
<1>6. RunInv'
  BY <1>1, <1>3, <1>4, <1>5, Zenon DEF RunInv
<1>7. FirstInv'
  <2>1. EndOf(line)' = EndOf(line)
    BY <1>1, Zenon
  <2> QED BY <1>1, <1>2, <1>5, <2>1, Zenon DEF FirstInv
<1> QED BY <1>6, <1>7

LEMMA RunReply ==
    ASSUME KursLinkAssumption, FieldsOK, ServingInv, LineInv, RunInv, FirstInv, Reply
    PROVE  RunInv' /\ FirstInv'
<1>1. /\ UNCHANGED <<rx, line, faults>>
      /\ serving /\ processor.request_ready /\ ~serving' /\ ~slow'
      /\ ~processor'.request_ready /\ processor'.cntr = processor.cntr
      /\ Payload' <=> Payload
  BY ReplyClears, Zenon DEF Reply, history, ServingInv, Payload
<1>2. Budget' = Budget /\ Due' = Due /\ Owed' = 0 /\ Run' = Run
  BY <1>1, Zenon DEF Budget, Due, Pending, Owed, Run
<1>3. ASSUME Payload
      PROVE  Run' + Owed' <= Budget' + Due'
  <2>1. processor.cntr + 1 <= Budget
    BY <1>1, <1>3, Zenon DEF RunInv
  <2>2. Len(line) <= Due
    BY Sizes DEF Due, Pending
  <2>3. Due \in Nat
    BY DEF Due
  <2>4. PICK k, r, l, b, d :
           k = processor.cntr /\ r = Len(rx) /\ l = Len(line) /\ b = Budget /\ d = Due
    OBVIOUS
  <2>5. /\ k \in 0 .. Cap + 1 /\ r \in 0 .. 1 /\ l \in 0 .. Length /\ b \in Nat /\ d \in Nat
        /\ k + 1 <= b /\ l <= d
    BY <2>1, <2>2, <2>3, <2>4, Sizes, Zenon
  <2>6. ((k + r) + l) + 0 <= b + d
    BY <2>5
  <2> QED BY <1>2, <2>4, <2>6, Zenon DEF Run
<1>4. Len(rx) + Len(line) > Length => faults >= 1
  BY Zenon DEF RunInv
<1>5. RunInv'
  BY <1>1, <1>3, <1>4, Zenon DEF RunInv
<1>6. ASSUME faults = 0
      PROVE  rx = <<>> /\ ~Payload /\ EndOf(line)' = <<>>
  <2>1. rx = <<>> /\ line = <<>>
    BY <1>1, <1>6, Zenon DEF FirstInv
  <2>2. ~Payload
    <3> SUFFICES ASSUME Payload PROVE FALSE
      OBVIOUS
    <3>1. processor.cntr + 1 <= Budget
      BY <1>1, Zenon DEF RunInv
    <3> QED BY <1>6, <3>1, Sizes
  <2> QED BY <1>1, <2>1, <2>2, Zenon DEF EndOf
<1>7. FirstInv'
  BY <1>1, <1>6, Zenon DEF FirstInv
<1> QED BY <1>5, <1>7

\* A receiver that misses ends of packets runs several into one: with room for
\* one packet more than there are faults, less its end, _cntr stays in the
\* buffer (listen_payload compares it with nothing).
THEOREM CounterStays ==
    ASSUME KursLinkAssumption, Cap + 1 >= Length * (MaxFaults + 1)
    PROVE  Spec => []NoOverrun
<1> DEFINE Inv == IInv /\ RunInv /\ FirstInv
<1>1. ASSUME Init
      PROVE  Inv
  <2>2. /\ ~Payload /\ rx = <<>> /\ line = <<>> /\ ~slow /\ ~processor.request_ready
        /\ ~(Len(rx) + Len(line) > Length)
    BY <1>1 DEF Init, Processor, Payload
  <2>3. EndOf(line) = <<>>
    BY <2>2, Zenon DEF EndOf
  <2> QED BY <1>1, <2>2, <2>3, IInvInit, Zenon DEF RunInv, FirstInv
<1>2. ASSUME Inv, [Next]_vars
      PROVE  Inv'
  <2>1. IInv' /\ FieldsOK /\ BuffersInv /\ ServingInv /\ LineInv /\ RunInv /\ FirstInv
    BY <1>2, IInvStep, Zenon DEF IInv
  <2>2. CASE UNCHANGED vars
    <3>1. UNCHANGED <<processor, rx, line, serving, slow, faults, answer>>
      BY <2>2, Zenon DEF vars, unit, control
    <3>2. EndOf(line)' = EndOf(line)
      BY <3>1, Zenon
    <3>3. RunInv'
      BY <2>1, <3>1, Zenon DEF RunInv, Payload, Run, Owed, Budget, Due, Pending
    <3>4. FirstInv'
      BY <2>1, <3>1, <3>2, Zenon DEF FirstInv, Payload
    <3> QED BY <2>1, <3>3, <3>4
  <2>3. CASE Next
    <3>1. RunInv' /\ FirstInv'
      BY <2>1, <2>3, RunStart, RunGiveUp, RunArrive, RunReceive, RunServe, RunReply, Zenon DEF Next
    <3> QED BY <2>1, <3>1
  <2> QED BY <1>2, <2>2, <2>3
<1>3. ASSUME Inv
      PROVE  NoOverrun
  <2>0. FieldsOK /\ BuffersInv /\ LineInv /\ RunInv
    BY <1>3, Zenon DEF IInv
  <2>1. CASE ~Payload
    <3>1. processor.cntr = 0
      BY <2>0, <2>1, Zenon DEF Payload, BuffersInv
    <3> QED BY <3>1 DEF NoOverrun
  <2>2. CASE Payload
    <3>1. Budget \in Nat /\ Budget + Length <= Cap + 1
      <4>1. faults \in 0 .. MaxFaults
        BY <2>0 DEF FieldsOK
      <4>2. PICK g \in Nat : MaxFaults = faults + g
        <5>1. MaxFaults - faults \in Nat /\ MaxFaults = faults + (MaxFaults - faults)
          BY <4>1
        <5> QED BY <5>1, Zenon
      <4>3. Length * (MaxFaults + 1) = (Length * faults + Length * g) + Length
        BY <4>1, <4>2
      <4>4. Length * g \in Nat /\ Length * faults \in Nat
        BY <4>1, Times
      <4> QED BY <4>3, <4>4 DEF Budget
    <3>2. CASE serving
      <4>1. processor.cntr + 1 <= Budget
        BY <2>0, <2>2, <3>2, Zenon DEF RunInv
      <4> QED BY <2>0, <3>1, <4>1, Sizes DEF NoOverrun
    <3>3. CASE ~serving
      <4>1. Run + Owed <= Budget + Due
        BY <2>0, <2>2, <3>3, Zenon DEF RunInv
      <4>2. Owed \in Nat
        BY DEF Owed
      <4>3. CASE Pending
        <5>1. Due = Length /\ Len(rx) + Len(line) >= 1
          BY <2>0, <4>3, Sizes DEF Due, Pending
        <5> QED BY <2>0, <3>1, <4>1, <4>2, <5>1, Sizes DEF Run, NoOverrun
      <4>4. CASE ~Pending
        <5>1. Due = 0
          BY <4>4 DEF Due
        <5> QED BY <2>0, <3>1, <4>1, <4>2, <5>1, Sizes DEF Run, NoOverrun
      <4> QED BY <4>3, <4>4
    <3> QED BY <3>2, <3>3
  <2> QED BY <2>1, <2>2
<1>4. Init => Inv
  BY <1>1
<1>5. Inv /\ [Next]_vars => Inv'
  BY <1>2
<1>6. Inv => NoOverrun
  BY <1>3
<1> QED BY <1>4, <1>5, <1>6, PTL DEF Spec
=============================================================================
