------------------------------- MODULE UartTx -------------------------------
(***************************************************************************)
(* The transmit side of the UART to the ARM (main.c).  Two producers share *)
(* one ring buffer:                                                        *)
(*   - the main loop, which sends IPGLB protocol 2 requests byte by byte   *)
(*     with send_9bit_uart_packet, tagging each with bit 8;                *)
(*   - kurs_send_packet, which runs in the 15 ms alarm, that is in the     *)
(*     timer interrupt, and queues the whole KURS reply untagged.          *)
(* The UART interrupt is the consumer.  Interrupts do not nest, and every  *)
(* single byte is queued with interrupts disabled, so the unit of          *)
(* interleaving is the byte in the main loop and the whole reply in the    *)
(* alarm.  Bytes are [src, pkt, idx]: the idx-th byte of the pkt-th packet *)
(* of a producer.                                                          *)
(*                                                                         *)
(* The ring buffer (ring_buffer.c) is a static array indexed by two free-  *)
(* running size_t counters, head and tail, and a separate element count.   *)
(* The counters are never reduced: they wrap at the width of size_t, and a *)
(* slot is found by masking a counter with n_elem - 1.  Of its operations, *)
(* ring_buffer_put_many has no caller left in the program (both call sites *)
(* are under #if 0) and is not modelled.                                   *)
(***************************************************************************)
EXTENDS Naturals, Sequences

CONSTANTS
    NElem,       \* number of slots, a power of two (4096 in main.c)
    Wrap,        \* number of values of a size_t, 2^32 on the target
    Blank,       \* content of a slot that was never written
    MaxLen,      \* the longest packet
    ArmLens,     \* lengths of the requests to the ARM
    KursLens,    \* lengths of the KURS replies
    MaxPackets   \* bound: packets each producer sends in a behaviour

\* A power of two that fits a size_t divides the range of size_t; the counters
\* must be able to differ by NElem.
ASSUME RingAssumption ==
    /\ NElem \in Nat \ {0}
    /\ Wrap \in Nat
    /\ NElem < Wrap
    /\ Wrap % NElem = 0

ASSUME UartAssumption ==
    /\ MaxLen \in Nat
    /\ ArmLens \subseteq 1 .. MaxLen
    /\ KursLens \subseteq 1 .. MaxLen
    /\ MaxPackets \in Nat

VARIABLES
    buf, head, tail, count,   \* the ring
    ITRDY,     \* bit of the control register: transmitter-ready interrupt on
    arm,       \* bytes send_9bit_uart_packet has still to queue (main loop)
    kurs,      \* bytes kurs_send_packet has still to queue (timer interrupt)
    armPkts,   \* packets begun by the main loop
    kursPkts,  \* packets begun by the alarm
    wire       \* history: the bytes written to the tx register

ring == <<buf, head, tail, count>>
vars == <<ring, ITRDY, arm, kurs, armPkts, kursPkts, wire>>

Slot    == 0 .. NElem - 1
Counter == 0 .. Wrap - 1

-----------------------------------------------------------------------------
(* size_t arithmetic of ring_buffer.c *)

\* Mutant: a counter that does not wrap.
IncrUnbounded(x) == x + 1

\* x++ and x-- on a size_t.
Incr(x) == IF x + 1 = Wrap THEN 0 ELSE x + 1
Decr(x) == IF x = 0 THEN Wrap - 1 ELSE x - 1

\* a - b on size_t.
Minus(a, b) == IF a >= b THEN a - b ELSE (a + Wrap) - b

\* Elements between tail and head, the expression of full and of empty.
Used == Minus(head, tail)

\* counter & (n_elem - 1), for n_elem a power of two.
Offset(counter) == counter % NElem

-----------------------------------------------------------------------------
(* The ring *)

RingInit ==
    /\ buf = [s \in Slot |-> Blank]
    /\ head = 0
    /\ tail = 0
    /\ count = 0

\* Mutant: the test for a full ring is off by one.
FullOffByOne == Used = NElem + 1

Full  == Used = NElem
Empty == Used = 0

\* ring_buffer_put when it returns RET_SUCCESS.
Put(d) ==
    /\ ~Full
    /\ buf' = [buf EXCEPT ![Offset(head)] = d]
    /\ head' = Incr(head)
    /\ count' = Incr(count)
    /\ UNCHANGED tail

\* Mutant: count is not taken down by a get.
GetKeepsCount(d) ==
    /\ ~Empty
    /\ d = buf[Offset(tail)]
    /\ tail' = Incr(tail)
    /\ UNCHANGED <<buf, head, count>>

\* ring_buffer_get when it returns RET_SUCCESS and copies d out.
Get(d) ==
    /\ ~Empty
    /\ d = buf[Offset(tail)]
    /\ tail' = Incr(tail)
    /\ count' = Decr(count)
    /\ UNCHANGED <<buf, head>>

\* What the ring holds, oldest element first.
Contents == [i \in 1 .. Used |-> buf[Offset(tail + i - 1)]]

RingTypeOK(Element) ==
    /\ buf \in [Slot -> Element \cup {Blank}]
    /\ head \in Counter
    /\ tail \in Counter
    /\ count \in Counter

(***************************************************************************)
(* The two bookkeepings of ring_buffer.c agree and stay in bounds: count,  *)
(* which ring_buffer_get_count and ring_buffer_put_many trust, is the      *)
(* distance of the two counters that full and empty are computed from,     *)
(* across the wrap of either, and never exceeds the number of slots.       *)
(***************************************************************************)
RingConsistent ==
    /\ count = Used
    /\ Used <= NElem

-----------------------------------------------------------------------------
(* The packets *)

Byte == [src : {"ARM", "KURS"}, pkt : 1 .. MaxPackets, idx : 1 .. MaxLen]

Packet(src, pkt, len) ==
    [i \in 1 .. len |-> [src |-> src, pkt |-> pkt, idx |-> i]]

\* The timer interrupt is in the loop of kurs_send_packet.
InIsr == kurs # <<>>

-----------------------------------------------------------------------------
Init ==
    /\ RingInit
    /\ ITRDY = FALSE
    /\ arm = <<>>
    /\ kurs = <<>>
    /\ armPkts = 0
    /\ kursPkts = 0
    /\ wire = <<>>

\* Mutant: the interrupt is enabled only for the first byte of a burst, when
\* the ring was found empty after the put.
QueueWithoutEnable(d) ==
    /\ Put(d) \/ (Full /\ UNCHANGED ring)
    /\ UNCHANGED ITRDY

\* queue_data_to_arm: a byte that does not fit is dropped, and the caller,
\* a void function's, never knows.
queue_data_to_arm(d) ==
    \/ /\ Put(d)
       /\ ITRDY' = TRUE
    \/ /\ Full
       /\ UNCHANGED <<ring, ITRDY>>

\* The main loop starts to send a request.
SendToArm ==
    /\ ~InIsr
    /\ arm = <<>>
    /\ armPkts < MaxPackets
    /\ armPkts' = armPkts + 1
    /\ \E len \in ArmLens : arm' = Packet("ARM", armPkts', len)
    /\ UNCHANGED <<ring, ITRDY, kurs, kursPkts, wire>>

\* Mutant: the main loop makes progress inside the alarm.
send_9bit_NotMasked ==
    /\ arm # <<>>
    /\ queue_data_to_arm(Head(arm))
    /\ arm' = Tail(arm)
    /\ UNCHANGED <<kurs, armPkts, kursPkts, wire>>

\* One turn of the loop of send_9bit_uart_packet.
send_9bit_uart_packet ==
    /\ ~InIsr
    /\ arm # <<>>
    /\ queue_data_to_arm(Head(arm))
    /\ arm' = Tail(arm)
    /\ UNCHANGED <<kurs, armPkts, kursPkts, wire>>

\* The alarm fires with a request to answer.
KursReply ==
    /\ ~InIsr
    /\ kursPkts < MaxPackets
    /\ kursPkts' = kursPkts + 1
    /\ \E len \in KursLens : kurs' = Packet("KURS", kursPkts', len)
    /\ UNCHANGED <<ring, ITRDY, arm, armPkts, wire>>

\* One turn of the loop of kurs_send_packet.
kurs_send_packet ==
    /\ InIsr
    /\ queue_data_to_arm(Head(kurs))
    /\ kurs' = Tail(kurs)
    /\ UNCHANGED <<arm, armPkts, kursPkts, wire>>

\* Mutant: the interrupt is turned off along with the byte that is sent.
callback_uart_trdy_Eager ==
    /\ ~InIsr
    /\ ITRDY
    /\ \/ Empty /\ UNCHANGED <<ring, wire>>
       \/ Get(buf[Offset(tail)]) /\ wire' = Append(wire, buf[Offset(tail)])
    /\ ITRDY' = FALSE
    /\ UNCHANGED <<arm, kurs, armPkts, kursPkts>>

\* uart_isr with ITRDY set finds the transmitter ready: the next byte is
\* written to the tx register, or the interrupt is turned off.
callback_uart_trdy ==
    /\ ~InIsr
    /\ ITRDY
    /\ \/ /\ Empty
          /\ ITRDY' = FALSE
          /\ UNCHANGED <<ring, wire>>
       \/ /\ Get(buf[Offset(tail)])
          /\ wire' = Append(wire, buf[Offset(tail)])
          /\ UNCHANGED ITRDY
    /\ UNCHANGED <<arm, kurs, armPkts, kursPkts>>

Next ==
    \/ SendToArm
    \/ send_9bit_uart_packet
    \/ KursReply
    \/ kurs_send_packet
    \/ callback_uart_trdy

Spec == Init /\ [][Next]_vars

(***************************************************************************)
(* Fairness: an interrupt handler that was entered runs to its end, and    *)
(* the UART raises its interrupt as long as ITRDY is set and the shift     *)
(* register drains.  Neither producer need ever send.                      *)
(***************************************************************************)
FairSpec == Spec /\ WF_vars(kurs_send_packet) /\ WF_vars(callback_uart_trdy)

-----------------------------------------------------------------------------
TypeOK ==
    /\ RingTypeOK(Byte)
    /\ ITRDY \in BOOLEAN
    /\ arm \in Seq(Byte)
    /\ kurs \in Seq(Byte)
    /\ armPkts \in 0 .. MaxPackets
    /\ kursPkts \in 0 .. MaxPackets
    /\ wire \in Seq(Byte \cup {Blank})

(***************************************************************************)
(* No byte is stranded: while the ring holds something, the transmitter    *)
(* interrupt is on.  callback_uart_trdy turns it off on an empty ring and  *)
(* queue_data_to_arm turns it on after a put; a put between the test and   *)
(* the write of ITRDY would leave bytes that nothing ever sends.           *)
(***************************************************************************)
NoStrandedByte == ~Empty => ITRDY

(***************************************************************************)
(* A KURS reply is on the line in one piece: each of its bytes directly    *)
(* follows the one before it, whatever the main loop is sending and even   *)
(* if the ring fills up.  So a reply can lose its end but never has a hole *)
(* or a request inside it (kurs_send_packet runs in the interrupt, where   *)
(* neither the consumer nor the other producer can run).                   *)
(***************************************************************************)
UnbrokenReplies ==
    LET line == wire \o Contents
    IN  \A i \in DOMAIN line :
            line[i].src = "KURS" /\ line[i].idx > 1 =>
                /\ i > 1
                /\ line[i - 1] = [line[i] EXCEPT !.idx = @ - 1]

(***************************************************************************)
(* The queue is a bounded FIFO: the ring with its wrapping counters and    *)
(* the two producers and the interrupt implement FifoSpec of BoundedFifo.  *)
(***************************************************************************)
Fifo == INSTANCE BoundedFifo WITH
    Element <- Byte, Capacity <- NElem, Nothing <- <<>>, Note <- Append,
    queue <- Contents, taken <- wire
QueueIsFifo == Fifo!FifoSpec

(***************************************************************************)
(* What was accepted leaves: once the producers pause (here after          *)
(* MaxPackets packets), the ring runs empty and the interrupt is turned    *)
(* off again (callback_uart_trdy), so that it does not spin either.        *)
(***************************************************************************)
LineGoesQuiet == (~Empty \/ ITRDY) ~> (Empty /\ ~ITRDY)
=============================================================================
