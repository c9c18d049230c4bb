---------------------------- MODULE UartTxProofs ----------------------------
(***************************************************************************)
(* Proofs about UartTx, for every size of the ring, every width of the     *)
(* counters and every set of packets.                                      *)
(***************************************************************************)
EXTENDS UartTx, SequenceTheorems, TLAPS

-----------------------------------------------------------------------------
(* Remainders, for the counters that are masked *)

\* Division with remainder.
LEMMA Division ==
    ASSUME NEW a \in Nat, NEW n \in Nat \ {0}
    PROVE  /\ a \div n \in Nat
           /\ a = n * (a \div n) + (a % n)
           /\ a % n \in 0 .. n - 1
  OBVIOUS

\* The remainder is the only number below the divisor that is left over.
LEMMA RemainderIs ==
    ASSUME NEW n \in Nat \ {0}, NEW q \in Nat, NEW r \in 0 .. n - 1
    PROVE  (n * q + r) % n = r
  <1> DEFINE a == n * q + r
             s == a \div n
             t == a % n
  <1>1. a \in Nat
    <2>1. n * q \in Nat
      OBVIOUS
    <2>2. QED
      BY <2>1
  <1>2. s \in Nat /\ n * q + r = n * s + t /\ t \in 0 .. n - 1
    BY <1>1, Division
  <1>3. ~(q < s)
    <2>1. SUFFICES ASSUME q < s PROVE FALSE
      OBVIOUS
    <2>2. PICK k \in Nat : s = q + 1 + k
      BY <1>2, <2>1, s - q - 1 \in Nat, s = q + 1 + (s - q - 1)
    <2>3. n * s = n * q + n + n * k /\ n * k \in Nat
      BY <2>2
    <2>4. QED
      BY <1>2, <2>3
  <1>4. ~(s < q)
    <2>1. SUFFICES ASSUME s < q PROVE FALSE
      OBVIOUS
    <2>2. PICK k \in Nat : q = s + 1 + k
      BY <1>2, <2>1, q - s - 1 \in Nat, q = s + 1 + (q - s - 1)
    <2>3. n * q = n * s + n + n * k /\ n * k \in Nat
      BY <1>2, <2>2
    <2>4. QED
      BY <1>2, <2>3
  <1>5. QED
    BY <1>2, <1>3, <1>4

LEMMA RemainderOfSum ==
    ASSUME NEW a \in Nat, NEW d \in Nat, NEW n \in Nat \ {0}
    PROVE  (a + d) % n = ((a % n) + d) % n
  <1> DEFINE q == a \div n
             e == (a % n) + d
             p == e \div n
             r == e % n
  <1>1. a = n * q + (a % n) /\ q \in Nat /\ a % n \in Nat
    BY Division
  <1>2. e \in Nat
    BY <1>1
  <1>3. e = n * p + r /\ p \in Nat /\ r \in 0 .. n - 1
    BY <1>2, Division
  <1>4. n * (q + p) = n * q + n * p /\ q + p \in Nat
    BY <1>1, <1>3
  <1>5. a + d = n * (q + p) + r
    BY <1>1, <1>3, <1>4
  <1>6. (n * (q + p) + r) % n = r
    BY <1>3, <1>4, RemainderIs
  <1>7. QED
    BY <1>5, <1>6

\* The counter wraps at a multiple of the number of slots.
LEMMA OffsetAcrossWrap ==
    ASSUME NEW i \in Nat
    PROVE  Offset(i + Wrap) = Offset(i)
  <1> DEFINE k == Wrap \div NElem
             p == i \div NElem
             r == i % NElem
  <1>1. k \in Nat /\ Wrap = NElem * k
    BY RingAssumption, Division
  <1>2. i = NElem * p + r /\ p \in Nat /\ r \in 0 .. NElem - 1
    BY RingAssumption, Division
  <1>3. NElem * (p + k) = NElem * p + NElem * k /\ p + k \in Nat
    BY <1>1, <1>2, RingAssumption
  <1>4. i + Wrap = NElem * (p + k) + r
    BY <1>1, <1>2, <1>3, RingAssumption
  <1>5. (NElem * (p + k) + r) % NElem = r
    BY <1>2, <1>3, RemainderIs, RingAssumption
  <1>6. QED
    BY <1>4, <1>5 DEF Offset

\* Numbers less than n apart have different remainders.
LEMMA RemaindersDiffer ==
    ASSUME NEW b \in Nat, NEW n \in Nat \ {0}, NEW d \in 1 .. n - 1
    PROVE  (b + d) % n # b % n
  <1> DEFINE r == b % n
  <1>1. (b + d) % n = ((b % n) + d) % n
    BY ONLY n \in Nat \ {0}, b \in Nat, d \in Nat, RemainderOfSum
  <1>2. r \in 0 .. n - 1
    BY Division
  <1>3. CASE r + d < n
    <2>1. (n * 0 + (r + d)) % n = r + d
      BY <1>2, <1>3, RemainderIs
    <2>2. QED
      BY <1>1, <1>2, <2>1
  <1>4. CASE r + d >= n
    <2>1. (n * 1 + (r + d - n)) % n = r + d - n
      BY <1>2, <1>4, RemainderIs
    <2>2. QED
      BY <1>1, <1>2, <2>1
  <1>5. QED
    BY <1>2, <1>3, <1>4

\* Fewer than NElem consecutive elements are in different slots.
LEMMA SlotsDiffer ==
    ASSUME NEW a \in Nat, NEW i \in Nat, NEW j \in Nat, i < j, j < i + NElem
    PROVE  Offset(a + i) # Offset(a + j)
  <1>1. PICK b \in Nat, d \in 1 .. NElem - 1 : a + i = b /\ a + j = b + d
    BY RingAssumption, a + i \in Nat, j - i \in 1 .. NElem - 1,
       a + j = (a + i) + (j - i)
  <1>2. QED
    BY <1>1, RemaindersDiffer, RingAssumption DEF Offset

-----------------------------------------------------------------------------
(* The ring buffer by itself *)

\* A masked counter is the index of a slot.
LEMMA OffsetIsSlot == ASSUME NEW c \in Counter PROVE Offset(c) \in Slot
  BY RingAssumption DEF Counter, Offset, Slot

\* A successful ring_buffer_put: one element more in both bookkeepings.
LEMMA PutStep ==
    ASSUME NEW Element, NEW d \in Element,
           RingTypeOK(Element), RingConsistent, Put(d)
    PROVE  /\ RingTypeOK(Element)'
           /\ RingConsistent'
           /\ Used' = Used + 1
  <1>1. Offset(head) \in Slot
    BY OffsetIsSlot DEF RingTypeOK
  <1>2. RingTypeOK(Element)'
    <2>1. buf' \in [Slot -> Element \cup {Blank}]
      BY <1>1 DEF Put, RingTypeOK
    <2>2. head' \in Counter /\ tail' \in Counter /\ count' \in Counter
      BY RingAssumption DEF Put, RingTypeOK, Counter, Incr
    <2>3. QED
      BY <2>1, <2>2 DEF RingTypeOK
  <1>3. Used < NElem
    BY RingAssumption
       DEF Put, Full, RingConsistent, RingTypeOK, Counter, Used, Minus
  <1>4. Used' = Used + 1
    BY <1>3, RingAssumption DEF Put, RingTypeOK, Counter, Used, Minus, Incr
  <1>5. count' = count + 1
    BY <1>3, RingAssumption DEF Put, RingConsistent, RingTypeOK, Counter, Incr
  <1>6. Used \in Nat
    BY RingAssumption DEF RingTypeOK, Counter, Used, Minus
  <1>7. RingConsistent'
    BY <1>3, <1>4, <1>5, <1>6, RingAssumption DEF RingConsistent
  <1>8. QED
    BY <1>2, <1>4, <1>7

\* A successful ring_buffer_get: one element less in both bookkeepings.
LEMMA GetStep ==
    ASSUME NEW Element, NEW d,
           RingTypeOK(Element), RingConsistent, Get(d)
    PROVE  /\ RingTypeOK(Element)'
           /\ RingConsistent'
           /\ d \in Element \cup {Blank}
  <1>1. Offset(tail) \in Slot
    BY OffsetIsSlot DEF RingTypeOK
  <1>2. RingTypeOK(Element)'
    BY RingAssumption DEF Get, RingTypeOK, Counter, Incr, Decr
  <1>3. Used \in Nat /\ Used > 0
    BY RingAssumption DEF Get, Empty, RingTypeOK, Counter, Used, Minus
  <1>4. Used' = Used - 1
    BY <1>3, RingAssumption DEF Get, RingTypeOK, Counter, Used, Minus, Incr
  <1>5. count' = count - 1
    BY <1>3, RingAssumption DEF Get, RingConsistent, Decr
  <1>6. RingConsistent'
    BY <1>3, <1>4, <1>5, RingAssumption DEF RingConsistent
  <1>7. d \in Element \cup {Blank}
    BY <1>1 DEF Get, RingTypeOK
  <1>8. QED
    BY <1>2, <1>6, <1>7

\* What ring_buffer_put does to the sequence of the elements.
LEMMA PutContents ==
    ASSUME NEW Element, NEW d \in Element,
           RingTypeOK(Element), RingConsistent, Contents \in Seq(Element), Put(d)
    PROVE  Contents' = Append(Contents, d)
  <1>1. Used \in Nat /\ Used < NElem /\ Used' = Used + 1 /\ tail \in Nat
    <2>1. Used \in Nat /\ Used < NElem /\ tail \in Nat
      BY RingAssumption
         DEF Put, Full, RingTypeOK, RingConsistent, Counter, Used, Minus
    <2>2. Used' = Used + 1
      BY PutStep
    <2>3. QED
      BY <2>1, <2>2
  <1>2. Len(Contents) = Used /\ Len(Append(Contents, d)) = Used + 1
    BY <1>1 DEF Contents
  <1>3. Offset(head) = Offset(tail + Used)
    <2>1. CASE head >= tail
      BY <2>1, RingAssumption DEF RingTypeOK, Counter, Used, Minus
    <2>2. CASE head < tail
      <3>1. tail + Used = head + Wrap /\ head \in Nat
        BY <2>2, RingAssumption DEF RingTypeOK, Counter, Used, Minus
      <3>2. QED
        BY <3>1, OffsetAcrossWrap
    <2>3. QED
      BY <2>1, <2>2, RingAssumption DEF RingTypeOK, Counter
  <1>4. ASSUME NEW i \in 1 .. Used + 1
        PROVE  buf'[Offset(tail' + i - 1)] = Append(Contents, d)[i]
    <2>1. tail' = tail /\ buf' = [buf EXCEPT ![Offset(head)] = d]
      BY DEF Put
    <2>2. Offset(tail + i - 1) \in Slot
      BY <1>1, Division, RingAssumption DEF Offset, Slot
    <2>3. CASE i = Used + 1
      <3>1. tail + i - 1 = tail + Used
        BY <1>1, <2>3
      <3>2. buf'[Offset(tail + i - 1)] = d
        BY <1>3, <2>1, <2>2, <3>1 DEF RingTypeOK
      <3>3. QED
        BY <1>1, <1>2, <2>1, <2>3, <3>2
    <2>4. CASE i \in 1 .. Used
      <3>1. i - 1 \in Nat /\ i - 1 < Used /\ Used < i - 1 + NElem
            /\ tail + (i - 1) = tail + i - 1
        BY <1>1, <2>4, RingAssumption
      <3>2. Offset(tail + i - 1) # Offset(head)
        BY <1>1, <1>3, <3>1, SlotsDiffer
      <3>3. buf'[Offset(tail + i - 1)] = Contents[i]
        BY <2>1, <2>2, <2>4, <3>2 DEF RingTypeOK, Contents
      <3>4. QED
        BY <1>2, <2>1, <2>4, <3>3
    <2>5. i = Used + 1 \/ i \in 1 .. Used
      BY <1>1
    <2>6. QED
      BY <2>3, <2>4, <2>5
  <1>5. Contents' = [i \in 1 .. Used + 1 |-> buf'[Offset(tail' + i - 1)]]
    BY <1>1 DEF Contents, Offset
  <1>6. Append(Contents, d) \in Seq(Element)
    OBVIOUS
  <1>7. Append(Contents, d) \in [1 .. Used + 1 -> Element]
    BY <1>2, <1>6, LenProperties
  <1>8. QED
    BY <1>4, <1>5, <1>7

\* What ring_buffer_get does to it, and that it returns the oldest element.
LEMMA GetContents ==
    ASSUME NEW Element, NEW d,
           RingTypeOK(Element), RingConsistent, Contents \in Seq(Element), Get(d)
    PROVE  Contents # <<>> /\ d = Head(Contents) /\ Contents' = Tail(Contents)
  <1>1. Used \in Nat /\ Used > 0 /\ tail \in Nat /\ Used' = Used - 1
    BY RingAssumption
       DEF Get, Empty, RingTypeOK, RingConsistent, Counter, Used, Minus, Incr
  <1>2. Len(Contents) = Used /\ Contents # <<>>
    BY <1>1 DEF Contents
  <1>3. d = Head(Contents)
    <2>1. tail + 1 - 1 = tail
      BY <1>1
    <2>2. Contents[1] = buf[Offset(tail)]
      BY <1>1, <2>1 DEF Contents
    <2>3. QED
      BY <1>2, <2>2 DEF Get
  <1>4. ASSUME NEW i \in 1 .. Used - 1
        PROVE  buf[Offset(tail' + i - 1)] = Tail(Contents)[i]
    <2>1. Offset(tail' + i - 1) = Offset(tail + i)
      <3>1. CASE tail + 1 = Wrap
        <4>1. tail' = 0 /\ tail + i = (i - 1) + Wrap /\ i - 1 \in Nat
              /\ tail' + i - 1 = i - 1
          BY <1>1, <3>1 DEF Get, Incr
        <4>2. QED
          BY <4>1, OffsetAcrossWrap
      <3>2. CASE tail + 1 # Wrap
        <4>1. tail' + i - 1 = tail + i
          BY <1>1, <3>2 DEF Get, Incr
        <4>2. QED
          BY <4>1
      <3>3. QED
        BY <3>1, <3>2
    <2>2. i + 1 \in 1 .. Used /\ tail + (i + 1) - 1 = tail + i
      BY <1>1
    <2>3. Contents[i + 1] = buf[Offset(tail + i)]
      BY <2>2 DEF Contents
    <2>4. Tail(Contents)[i] = Contents[i + 1]
      BY <1>1, <1>2
    <2>5. QED
      BY <2>1, <2>3, <2>4
  <1>5. Contents' = [i \in 1 .. Used - 1 |-> buf[Offset(tail' + i - 1)]]
    BY <1>1 DEF Contents, Offset, Get
  <1>6. Tail(Contents) \in Seq(Element) /\ Len(Tail(Contents)) = Used - 1
    BY <1>1, <1>2
  <1>7. Tail(Contents) \in [1 .. Used - 1 -> Element]
    BY <1>6, LenProperties
  <1>8. QED
    BY <1>2, <1>3, <1>4, <1>5, <1>7

-----------------------------------------------------------------------------
(* The transmit side *)

\* TypeOK, RingConsistent and NoStrandedByte together are inductive: the
\* length of the ring says whether a put or a get can succeed, and the two
\* outcomes of each set ITRDY the way NoStrandedByte needs it.
IInv == TypeOK /\ RingConsistent /\ NoStrandedByte

\* The bytes of a packet are bytes.
LEMMA PacketIsBytes ==
    ASSUME NEW src \in {"ARM", "KURS"}, NEW pkt \in 1 .. MaxPackets,
           NEW len \in 1 .. MaxLen
    PROVE  Packet(src, pkt, len) \in Seq(Byte)
  BY UartAssumption DEF Packet, Byte

\* What a call of queue_data_to_arm does to the invariant.
LEMMA QueueStep ==
    ASSUME NEW d \in Byte, IInv, queue_data_to_arm(d)
    PROVE  /\ RingTypeOK(Byte)'
           /\ RingConsistent'
           /\ ITRDY' \in BOOLEAN
           /\ NoStrandedByte'
  <1>1. CASE Put(d) /\ ITRDY' = TRUE
    BY <1>1, PutStep DEF IInv, TypeOK, NoStrandedByte
  <1>2. CASE Full /\ UNCHANGED <<ring, ITRDY>>
    BY <1>2 DEF IInv, TypeOK, RingTypeOK, RingConsistent, NoStrandedByte, ring,
                Used, Minus, Empty
  <1>3. QED
    BY <1>1, <1>2 DEF queue_data_to_arm

LEMMA InitIInv == Init => IInv
  BY RingAssumption, UartAssumption
     DEF Init, RingInit, IInv, TypeOK, RingTypeOK, Counter, Slot,
         RingConsistent, NoStrandedByte, Used, Minus, Empty

\* Every step of the two producers and of the interrupt keeps the invariant.
LEMMA NextIInv == IInv /\ [Next]_vars => IInv'
  <1> SUFFICES ASSUME IInv, [Next]_vars PROVE IInv'
    OBVIOUS
  <1>1. CASE SendToArm
    <2>1. PICK len \in ArmLens : arm' = Packet("ARM", armPkts', len)
      BY <1>1 DEF SendToArm
    <2>2. armPkts' \in 1 .. MaxPackets
      BY <1>1, UartAssumption DEF SendToArm, IInv, TypeOK
    <2>3. arm' \in Seq(Byte)
      BY <2>1, <2>2, PacketIsBytes, UartAssumption
    <2>4. QED
      BY <1>1, <2>2, <2>3
         DEF SendToArm, IInv, TypeOK, RingTypeOK, RingConsistent,
             NoStrandedByte, ring, Used, Minus, Empty
  <1>2. CASE send_9bit_uart_packet
    <2>1. Head(arm) \in Byte /\ Tail(arm) \in Seq(Byte)
      BY <1>2 DEF send_9bit_uart_packet, IInv, TypeOK
    <2>2. QED
      BY <1>2, <2>1, QueueStep DEF send_9bit_uart_packet, IInv, TypeOK
  <1>3. CASE KursReply
    <2>1. PICK len \in KursLens : kurs' = Packet("KURS", kursPkts', len)
      BY <1>3 DEF KursReply
    <2>2. kursPkts' \in 1 .. MaxPackets
      BY <1>3, UartAssumption DEF KursReply, IInv, TypeOK
    <2>3. kurs' \in Seq(Byte)
      BY <2>1, <2>2, PacketIsBytes, UartAssumption
    <2>4. QED
      BY <1>3, <2>2, <2>3
         DEF KursReply, IInv, TypeOK, RingTypeOK, RingConsistent,
             NoStrandedByte, ring, Used, Minus, Empty
  <1>4. CASE kurs_send_packet
    <2>1. Head(kurs) \in Byte /\ Tail(kurs) \in Seq(Byte)
      BY <1>4 DEF kurs_send_packet, InIsr, IInv, TypeOK
    <2>2. QED
      BY <1>4, <2>1, QueueStep DEF kurs_send_packet, IInv, TypeOK
  <1>5. CASE callback_uart_trdy
    <2>1. CASE Empty /\ ITRDY' = FALSE /\ UNCHANGED <<ring, wire>>
      BY <1>5, <2>1
         DEF callback_uart_trdy, IInv, TypeOK, RingTypeOK, RingConsistent,
             NoStrandedByte, ring, Used, Minus, Empty
    <2>2. CASE /\ Get(buf[Offset(tail)])
               /\ wire' = Append(wire, buf[Offset(tail)])
               /\ UNCHANGED ITRDY
      <3>1. /\ RingTypeOK(Byte)'
            /\ RingConsistent'
            /\ buf[Offset(tail)] \in Byte \cup {Blank}
        BY <2>2, GetStep DEF IInv, TypeOK
      <3>2. wire' \in Seq(Byte \cup {Blank})
        BY <2>2, <3>1 DEF IInv, TypeOK
      <3>3. QED
        BY <1>5, <2>2, <3>1, <3>2
           DEF callback_uart_trdy, IInv, TypeOK, NoStrandedByte
    <2>3. QED
      BY <1>5, <2>1, <2>2 DEF callback_uart_trdy
  <1>6. CASE UNCHANGED vars
    BY <1>6 DEF vars, ring, IInv, TypeOK, RingTypeOK, RingConsistent,
                NoStrandedByte, Used, Minus, Empty
  <1>7. QED
    BY <1>1, <1>2, <1>3, <1>4, <1>5, <1>6 DEF Next

LEMMA IInvHolds == Spec => []IInv
  BY InitIInv, NextIInv, PTL DEF Spec

\* Type correctness: in particular neither counter leaves the range of size_t,
\* and only slots that exist are indexed (ring_buffer_put, ring_buffer_get).
THEOREM TypeCorrect == Spec => []TypeOK
  <1>1. IInv => TypeOK
    BY DEF IInv
  <1>2. QED
    BY <1>1, IInvHolds, PTL

\* The count that ring_buffer.c keeps is the distance of its two wrapping
\* counters and at most n_elem, for every ring and every counter width.
THEOREM RingIsConsistent == Spec => []RingConsistent
  <1>1. IInv => RingConsistent
    BY DEF IInv
  <1>2. QED
    BY <1>1, IInvHolds, PTL

\* As long as the ring to the ARM holds a byte, its transmitter interrupt is
\* enabled (queue_data_to_arm, callback_uart_trdy).
THEOREM NothingStranded == Spec => []NoStrandedByte
  <1>1. IInv => NoStrandedByte
    BY DEF IInv
  <1>2. QED
    BY <1>1, IInvHolds, PTL

-----------------------------------------------------------------------------
(* The bytes on the line and in the ring *)

\* Everything accepted so far, oldest byte first.
Line == wire \o Contents

\* UnbrokenReplies, of a sequence of bytes.
Unbroken(line) ==
    \A i \in DOMAIN line :
        line[i].src = "KURS" /\ line[i].idx > 1 =>
            i > 1 /\ line[i - 1] = [line[i] EXCEPT !.idx = @ - 1]

\* What is left of a packet of the main loop and of a KURS reply, and how the
\* reply goes on: its next byte follows the last byte accepted, unless one of
\* its bytes found the ring full.  Then the ring stays full to the end of the
\* reply, because the consumer does not run inside the interrupt.
LineInv ==
    /\ wire \in Seq(Byte)
    /\ Contents \in Seq(Byte)
    /\ Unbroken(Line)
    /\ \A k \in DOMAIN arm : arm[k].src = "ARM"
    /\ \A k \in DOMAIN kurs :
          /\ kurs[k].src = "KURS"
          /\ kurs[k].pkt = kursPkts
          /\ kurs[k].idx = kurs[1].idx + k - 1
    /\ InIsr /\ kurs[1].idx > 1 =>
          \/ Full
          \/ /\ Line # <<>>
             /\ Line[Len(Line)] = [kurs[1] EXCEPT !.idx = @ - 1]

\* A call of queue_data_to_arm appends its byte or finds the ring full.
LEMMA QueueLine ==
    ASSUME NEW d \in Byte, IInv, LineInv, queue_data_to_arm(d), UNCHANGED wire
    PROVE  /\ Contents' \in Seq(Byte)
           /\ Line' \in Seq(Byte)
           /\ \/ ~Full /\ Contents' = Append(Contents, d) /\ Line' = Append(Line, d)
              \/ Full /\ Full' /\ Contents' = Contents /\ Line' = Line
  <1>1. CASE Put(d)
    <2>1. ~Full /\ Contents' = Append(Contents, d)
      BY <1>1, PutContents DEF IInv, TypeOK, LineInv, Put
    <2>2. Contents' \in Seq(Byte)
      BY <2>1 DEF LineInv
    <2>3. Line' = Append(Line, d)
      BY <2>1, AppendIsConcat, ConcatAssociative DEF LineInv, Line
    <2>4. Line' \in Seq(Byte)
      BY <2>2, ConcatProperties DEF LineInv, Line
    <2>5. QED
      BY <2>1, <2>2, <2>3, <2>4
  <1>2. CASE Full /\ UNCHANGED <<ring, ITRDY>>
    <2>1. Contents' = Contents /\ Full'
      BY <1>2 DEF ring, Contents, Full, Used, Minus, Offset
    <2>2. Line' = Line
      BY <2>1 DEF Line
    <2>3. Line \in Seq(Byte)
      BY ConcatProperties DEF LineInv, Line
    <2>4. QED
      BY <1>2, <2>1, <2>2, <2>3 DEF LineInv
  <1>3. QED
    BY <1>1, <1>2 DEF queue_data_to_arm

\* The byte before another one of a packet.
LEMMA ByteBefore ==
    ASSUME NEW a \in Byte, NEW b \in Byte,
           b.src = a.src, b.pkt = a.pkt, b.idx = a.idx + 1
    PROVE  [b EXCEPT !.idx = @ - 1] = a
  <1> DEFINE c == [b EXCEPT !.idx = b.idx - 1]
  <1>1. b = [src |-> a.src, pkt |-> a.pkt, idx |-> b.idx] /\ a.idx \in Nat
    BY DEF Byte
  <1>2. b.idx - 1 = a.idx
    BY <1>1
  <1>3. c = [src |-> a.src, pkt |-> a.pkt, idx |-> a.idx]
    BY <1>1, <1>2
  <1>4. a = [src |-> a.src, pkt |-> a.pkt, idx |-> a.idx]
    BY DEF Byte
  <1>5. QED
    BY <1>3, <1>4

\* A byte that follows its predecessor, or needs none, keeps a line unbroken.
LEMMA AppendUnbroken ==
    ASSUME NEW line \in Seq(Byte), NEW b \in Byte, Unbroken(line),
           b.src = "KURS" /\ b.idx > 1 =>
               line # <<>> /\ line[Len(line)] = [b EXCEPT !.idx = @ - 1]
    PROVE  Unbroken(Append(line, b))
  <1> DEFINE more == Append(line, b)
  <1>1. /\ Len(line) \in Nat /\ DOMAIN line = 1 .. Len(line)
        /\ DOMAIN more = 1 .. Len(line) + 1
        /\ more[Len(line) + 1] = b
        /\ \A i \in 1 .. Len(line) : more[i] = line[i]
    OBVIOUS
  <1>2. SUFFICES ASSUME NEW i \in DOMAIN more, more[i].src = "KURS", more[i].idx > 1
                 PROVE  i > 1 /\ more[i - 1] = [more[i] EXCEPT !.idx = @ - 1]
    BY DEF Unbroken
  <1> HIDE DEF more
  <1>3. CASE i \in 1 .. Len(line)
    <2>1. i > 1 /\ line[i - 1] = [line[i] EXCEPT !.idx = @ - 1]
      BY <1>1, <1>2, <1>3 DEF Unbroken
    <2>2. i - 1 \in 1 .. Len(line)
      BY <1>1, <1>3, <2>1
    <2>3. QED
      BY <1>1, <1>3, <2>1, <2>2
  <1>4. CASE i = Len(line) + 1
    <2>1. line # <<>> /\ line[Len(line)] = [b EXCEPT !.idx = @ - 1]
      BY <1>1, <1>2, <1>4
    <2>2. Len(line) \in 1 .. Len(line) /\ i - 1 = Len(line)
      BY <1>1, <1>4, <2>1, EmptySeq
    <2>3. QED
      BY <1>1, <1>4, <2>1, <2>2
  <1>5. QED
    BY <1>1, <1>3, <1>4

\* The interrupt moves the oldest byte to the line.
LEMMA GetLine ==
    ASSUME IInv, LineInv, Get(buf[Offset(tail)]),
           wire' = Append(wire, buf[Offset(tail)])
    PROVE  /\ Contents # <<>>
           /\ wire' = Append(wire, Head(Contents))
           /\ Contents' = Tail(Contents)
           /\ wire' \in Seq(Byte) /\ Contents' \in Seq(Byte)
           /\ Line' = Line
  <1>1. /\ Contents # <<>> /\ Head(Contents) = buf[Offset(tail)]
        /\ Contents' = Tail(Contents)
    BY GetContents DEF IInv, TypeOK, LineInv
  <1>2. Head(Contents) \in Byte /\ Tail(Contents) \in Seq(Byte)
    BY <1>1, HeadTailProperties DEF LineInv
  <1>3. wire' = wire \o <<Head(Contents)>>
    BY <1>1, AppendIsConcat DEF LineInv
  <1>4. <<Head(Contents)>> \o Tail(Contents) = Contents
    BY <1>1 DEF LineInv
  <1>5. Line' = Line
    <2>1. <<Head(Contents)>> \in Seq(Byte)
      BY <1>2
    <2>2. (wire \o <<Head(Contents)>>) \o Tail(Contents)
              = wire \o (<<Head(Contents)>> \o Tail(Contents))
      BY <1>2, <2>1, ConcatAssociative DEF LineInv
    <2>3. QED
      BY <1>1, <1>3, <1>4, <2>2 DEF Line
  <1>6. QED
    BY <1>1, <1>2, <1>5 DEF LineInv

LEMMA InitLineInv == Init => LineInv
  <1> SUFFICES ASSUME Init PROVE LineInv
    OBVIOUS
  <1>1. Used = 0
    BY DEF Init, RingInit, Used, Minus
  <1>2. Contents = <<>>
    BY <1>1 DEF Contents
  <1>3. Line = <<>>
    BY <1>2 DEF Init, Line
  <1>4. Unbroken(Line)
    BY <1>3 DEF Unbroken
  <1>5. QED
    BY <1>2, <1>4 DEF Init, LineInv, InIsr

\* Steps that leave the line and what is left of a reply as they are.
LEMMA SameLine ==
    ASSUME LineInv, UNCHANGED <<kurs, kursPkts>>, Line' = Line,
           wire' \in Seq(Byte), Contents' \in Seq(Byte),
           InIsr => (Full => Full'),
           \A k \in DOMAIN arm' : arm'[k].src = "ARM"
    PROVE  LineInv'
  BY DEF LineInv, InIsr

LEMMA NextLineInv == IInv /\ LineInv /\ [Next]_vars => LineInv'
  <1> SUFFICES ASSUME IInv, LineInv, [Next]_vars PROVE LineInv'
    OBVIOUS
  <1>1. ASSUME UNCHANGED <<ring, wire>>
        PROVE  /\ Contents' = Contents /\ Line' = Line /\ Full' = Full
               /\ wire' \in Seq(Byte) /\ Contents' \in Seq(Byte)
    BY <1>1 DEF LineInv, ring, Contents, Line, Full, Used, Minus, Offset
  <1>2. CASE SendToArm
    <2>1. PICK len \in ArmLens : arm' = Packet("ARM", armPkts', len)
      BY <1>2 DEF SendToArm
    <2>2. \A k \in DOMAIN arm' : arm'[k].src = "ARM"
      BY <2>1 DEF Packet
    <2>3. QED
      BY <1>1, <1>2, <2>2, SameLine DEF SendToArm
  <1>3. CASE send_9bit_uart_packet
    <2>1. /\ Head(arm) \in Byte /\ Head(arm) = arm[1] /\ 1 \in DOMAIN arm
          /\ arm \in Seq(Byte)
      BY <1>3 DEF send_9bit_uart_packet, IInv, TypeOK
    <2>2. Head(arm).src = "ARM"
      BY <2>1 DEF LineInv
    <2>3. \A k \in DOMAIN arm' : arm'[k].src = "ARM"
      BY <1>3, <2>1 DEF send_9bit_uart_packet, LineInv
    <2>4. CASE Line' = Line /\ Full /\ Full' /\ Contents' \in Seq(Byte)
      BY <1>3, <2>3, <2>4, SameLine DEF send_9bit_uart_packet, LineInv
    <2>5. CASE Line' = Append(Line, Head(arm)) /\ Contents' \in Seq(Byte)
      <3>1. Line \in Seq(Byte)
        BY ConcatProperties DEF LineInv, Line
      <3>2. Unbroken(Line')
        BY <2>1, <2>2, <2>5, <3>1, AppendUnbroken DEF LineInv
      <3>3. QED
        BY <1>3, <2>3, <2>5, <3>2 DEF send_9bit_uart_packet, LineInv, InIsr
    <2>6. QED
      BY <1>3, <2>1, <2>4, <2>5, QueueLine DEF send_9bit_uart_packet
  <1>4. CASE KursReply
    <2>1. PICK len \in KursLens : kurs' = Packet("KURS", kursPkts', len)
      BY <1>4 DEF KursReply
    <2>2. len \in Nat \ {0}
      BY <2>1, UartAssumption
    <2>3. kurs'[1].idx = 1
          /\ \A k \in DOMAIN kurs' :
                /\ kurs'[k].src = "KURS"
                /\ kurs'[k].pkt = kursPkts'
                /\ kurs'[k].idx = kurs'[1].idx + k - 1
      BY <2>1, <2>2 DEF Packet
    <2>4. QED
      BY <1>1, <1>4, <2>3 DEF KursReply, LineInv
  <1>5. CASE kurs_send_packet
    <2> DEFINE d == kurs[1]
    <2>1. /\ Head(kurs) = d /\ d \in Byte /\ kurs \in Seq(Byte)
          /\ Len(kurs) \in Nat \ {0} /\ DOMAIN kurs = 1 .. Len(kurs)
      BY <1>5 DEF kurs_send_packet, InIsr, IInv, TypeOK
    <2>2. /\ kurs' = Tail(kurs) /\ kurs' \in Seq(Byte)
          /\ DOMAIN kurs' = 1 .. Len(kurs) - 1
          /\ \A k \in DOMAIN kurs' : k + 1 \in DOMAIN kurs /\ kurs'[k] = kurs[k + 1]
      BY <1>5, <2>1 DEF kurs_send_packet
    <2>3. /\ \A k \in DOMAIN kurs : kurs[k] \in Byte
          /\ \A k \in DOMAIN kurs :
                kurs[k].src = "KURS" /\ kurs[k].pkt = kursPkts
                /\ kurs[k].idx = d.idx + k - 1
      BY <2>1 DEF LineInv
    <2>4. d.src = "KURS" /\ d.pkt = kursPkts /\ d.idx \in Nat
      BY <2>1, <2>3, SMTT(40) DEF Byte
    <2>5. kurs' # <<>> =>
              /\ kurs'[1] \in Byte /\ kurs'[1].src = "KURS" /\ kurs'[1].pkt = kursPkts
              /\ kurs'[1].idx = d.idx + 1
              /\ [kurs'[1] EXCEPT !.idx = @ - 1] = d
      <3>1. SUFFICES ASSUME kurs' # <<>>
                     PROVE  /\ kurs'[1] \in Byte /\ kurs'[1].src = "KURS"
                            /\ kurs'[1].pkt = kursPkts /\ kurs'[1].idx = d.idx + 1
                            /\ [kurs'[1] EXCEPT !.idx = @ - 1] = d
        OBVIOUS
      <3>2. 1 \in DOMAIN kurs' /\ kurs'[1] = kurs[2] /\ 2 \in DOMAIN kurs
        BY <2>2, <3>1
      <3>3. /\ kurs'[1] \in Byte /\ kurs'[1].src = "KURS" /\ kurs'[1].pkt = kursPkts
            /\ kurs'[1].idx = d.idx + 1
        BY <2>3, <2>4, <3>2
      <3>4. [kurs'[1] EXCEPT !.idx = @ - 1] = d
        BY <2>1, <2>4, <3>3, ByteBefore
      <3>5. QED
        BY <3>3, <3>4
    <2>6. \A k \in DOMAIN kurs' :
              /\ kurs'[k].src = "KURS"
              /\ kurs'[k].pkt = kursPkts'
              /\ kurs'[k].idx = kurs'[1].idx + k - 1
      <3>1. SUFFICES ASSUME NEW k \in DOMAIN kurs'
                     PROVE  /\ kurs'[k].src = "KURS"
                            /\ kurs'[k].pkt = kursPkts'
                            /\ kurs'[k].idx = kurs'[1].idx + k - 1
        OBVIOUS
      <3>2. kurs' # <<>>
        BY <2>2
      <3>3. k + 1 \in DOMAIN kurs /\ kurs'[k] = kurs[k + 1] /\ k \in Nat
        BY <2>1, <2>2
      <3>4. /\ kurs'[k].src = "KURS" /\ kurs'[k].pkt = kursPkts
            /\ kurs'[k].idx = d.idx + (k + 1) - 1
        BY <2>3, <3>3
      <3>5. kurs'[1].idx = d.idx + 1 /\ d.idx \in Nat
        BY <2>4, <2>5, <3>2
      <3>6. kurs'[k].idx = kurs'[1].idx + k - 1
        BY <3>3, <3>4, <3>5
      <3>7. QED
        BY <1>5, <3>4, <3>6 DEF kurs_send_packet
    <2>7. wire' = wire /\ wire' \in Seq(Byte) /\ arm' = arm
      BY <1>5 DEF kurs_send_packet, LineInv
    <2>8. CASE Full /\ Full' /\ Line' = Line /\ Contents' \in Seq(Byte)
      BY <2>6, <2>7, <2>8 DEF LineInv
    <2>9. CASE ~Full /\ Line' = Append(Line, d) /\ Contents' \in Seq(Byte)
      <3>1. Line \in Seq(Byte)
        BY ConcatProperties DEF LineInv, Line
      <3>2. d.idx > 1 => Line # <<>> /\ Line[Len(Line)] = [d EXCEPT !.idx = @ - 1]
        BY <1>5, <2>9 DEF kurs_send_packet, LineInv
      <3>3. Unbroken(Line')
        BY <2>1, <2>9, <3>1, <3>2, AppendUnbroken DEF LineInv
      <3>4. Line' # <<>> /\ Line'[Len(Line')] = d
        BY <2>1, <2>9, <3>1
      <3>5. kurs' # <<>> => Line'[Len(Line')] = [kurs'[1] EXCEPT !.idx = @ - 1]
        BY <2>5, <3>4
      <3>6. QED
        BY <2>6, <2>7, <2>9, <3>3, <3>4, <3>5 DEF LineInv, InIsr
    <2>10. QED
      BY <1>5, <2>1, <2>7, <2>8, <2>9, QueueLine DEF kurs_send_packet
  <1>6. CASE callback_uart_trdy
    <2>1. ~InIsr /\ UNCHANGED <<arm, kurs, kursPkts>>
      BY <1>6 DEF callback_uart_trdy
    <2>2. CASE UNCHANGED <<ring, wire>>
      BY <1>1, <2>1, <2>2, SameLine DEF LineInv
    <2>3. CASE /\ Get(buf[Offset(tail)])
               /\ wire' = Append(wire, buf[Offset(tail)])
      BY <2>1, <2>3, GetLine, SameLine DEF LineInv
    <2>4. QED
      BY <1>6, <2>2, <2>3 DEF callback_uart_trdy
  <1>7. CASE UNCHANGED vars
    BY <1>1, <1>7, SameLine DEF vars, LineInv
  <1>8. QED
    BY <1>2, <1>3, <1>4, <1>5, <1>6, <1>7 DEF Next

LEMMA LineInvHolds == Spec => [](IInv /\ LineInv)
  BY InitIInv, NextIInv, InitLineInv, NextLineInv, PTL DEF Spec

\* A KURS reply is on the line in one piece, whatever the main loop sends and
\* however full the ring is (kurs_send_packet in the timer interrupt).
THEOREM RepliesUnbroken == Spec => []UnbrokenReplies
  <1>1. IInv /\ LineInv => UnbrokenReplies
    BY DEF LineInv, Unbroken, Line, UnbrokenReplies
  <1>2. QED
    BY <1>1, LineInvHolds, PTL

-----------------------------------------------------------------------------
(* The refinement *)

\* Each step of the producers and of the interrupt accepts a byte at the end of
\* the queue, transmits the one at its front, or leaves queue and line alone.
LEMMA StepOfFifo ==
    ASSUME IInv, LineInv, [Next]_vars
    PROVE  [Fifo!Put \/ Fifo!Take]_(Fifo!fifoVars)
  <1>1. ASSUME NEW d \in Byte, queue_data_to_arm(d), UNCHANGED wire
        PROVE  Fifo!Put \/ UNCHANGED Fifo!fifoVars
    <2>1. CASE ~Full /\ Contents' = Append(Contents, d)
      <3>1. Len(Contents) = Used /\ Used < NElem
        BY <2>1, RingAssumption
           DEF Full, Contents, IInv, TypeOK, RingTypeOK, RingConsistent, Counter, Used, Minus
      <3>2. QED
        BY <1>1, <2>1, <3>1 DEF Fifo!Put
    <2>2. CASE Contents' = Contents
      BY <1>1, <2>2 DEF Fifo!fifoVars
    <2>3. QED
      BY <1>1, <2>1, <2>2, QueueLine
  <1>2. CASE send_9bit_uart_packet
    <2>1. Head(arm) \in Byte
      BY <1>2 DEF send_9bit_uart_packet, IInv, TypeOK
    <2>2. QED
      BY <1>1, <1>2, <2>1 DEF send_9bit_uart_packet
  <1>3. CASE kurs_send_packet
    <2>1. Head(kurs) \in Byte
      BY <1>3 DEF kurs_send_packet, InIsr, IInv, TypeOK
    <2>2. QED
      BY <1>1, <1>3, <2>1 DEF kurs_send_packet
  <1>4. CASE UNCHANGED <<ring, wire>>
    BY <1>4 DEF ring, Contents, Used, Minus, Offset, Fifo!fifoVars
  <1>5. CASE callback_uart_trdy
    BY <1>4, <1>5, GetLine DEF callback_uart_trdy, Fifo!Take
  <1>6. QED
    BY <1>2, <1>3, <1>4, <1>5 DEF Next, SendToArm, KursReply, vars

\* The ring with its wrapping counters, its two producers and the interrupt
\* implements the bounded FIFO (ring_buffer.c, queue_data_to_arm,
\* callback_uart_trdy).
THEOREM RefinesFifo == Spec => QueueIsFifo
  <1>1. Init => Fifo!FifoInit
    <2>1. Init => Used = 0
      BY DEF Init, RingInit, Used, Minus
    <2>2. QED
      BY <2>1 DEF Init, Contents, Fifo!FifoInit
  <1>2. IInv /\ LineInv /\ [Next]_vars => [Fifo!Put \/ Fifo!Take]_(Fifo!fifoVars)
    BY StepOfFifo
  <1>3. QED
    BY <1>1, <1>2, LineInvHolds, PTL DEF Spec, QueueIsFifo, Fifo!FifoSpec
=============================================================================
