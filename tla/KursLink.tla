------------------------------ MODULE KursLink ------------------------------
(***************************************************************************)
(* Requests of the control unit to this unit and to others on the same     *)
(* line, the interrupt that feeds the receiver (callback_uart_rrdy in      *)
(* main.c), and the alarm that serves a complete request every 15 ms       *)
(* (kurs_handler and kurs_service).  Interrupts do not nest: while the     *)
(* alarm serves a request, and an erase of the flash takes seconds, the    *)
(* UART keeps one byte and overwrites it with the next.                    *)
(*                                                                         *)
(* The control unit and the line are external: the line may lose or damage *)
(* a byte, the control unit waits for an answer and gives up only when the *)
(* unit is slow or has nothing left to serve.                              *)
(***************************************************************************)
EXTENDS Naturals, Sequences

CONSTANTS
    Cap,        \* KURS_MAX_BUFFER less the zero that ends a request
    Noise,      \* values a damaged byte may have
    Length,     \* bytes of a packet, its address and its EOP included
    Packets,    \* requests are numbered modulo Packets
    Free,       \* of these, the ones with a command that checks no checksum
    MaxFaults   \* bound: bytes lost or damaged, and slow services

Values == {"sop", "other", "eop", "free", "data"}

KursLinkAssumption ==
    /\ Cap \in Nat /\ Cap >= 4
    /\ Noise \subseteq Values
    /\ Length \in 3 .. Cap
    /\ Packets \in Nat \ {0, 1}
    /\ Free \subseteq 1 .. Packets
    /\ MaxFaults \in Nat

VARIABLES
    processor,  \* kurs_req_processor
    rx,         \* the receive register of the UART, a sequence of one at most
    serving,    \* the alarm is in kurs_service
    slow,       \* and takes longer than the control unit waits
    made,       \* and acts on a request nobody sent
    line,       \* bytes on their way to the unit
    number,     \* of the control unit's last request to this unit, 0 before
    answer,     \* the answer to it: "none", "open", "right", "wrong"
    acted,      \* the request the unit acted on last, 0 before
    intact,     \* history: nothing disturbed the packet before this one
    disturbed,  \* history: a fault or an overrun since this one began, or a
                \* request before it still in the unit
    faults      \* counter for the bound

unit == <<processor, rx, serving, slow, made>>
control == <<number, answer>>
history == <<intact, disturbed>>
vars == <<unit, line, control, acted, history, faults>>

Request == 1 .. Packets

\* A packet to this unit has its number, one to another unit has none.  The
\* command is the byte behind the address: "free" are, of those that change
\* anything, the two whose handlers compare no checksum,
\* KURS_WRITE_LANGUAGE_PACK and KURS_EN_SET_PARAMS.
Packet(n) ==
    [i \in 1 .. Length |->
        [val |-> CASE i = 1 -> IF n = 0 THEN "other" ELSE "sop"
                   [] i = Length -> "eop"
                   [] i = 2 /\ n \in Free -> "free"
                   [] OTHER -> "data",
         pkt |-> n, idx |-> i]]

-----------------------------------------------------------------------------
(* The receiver (kurs_processor.c).  A request begins with the unit's       *)
(* address and ends with an EOP; the line is shared, so that packets to     *)
(* other units pass by.  A complete request is left in one of two buffers   *)
(* for the alarm.  The operators map a receiver, a record, to the receiver  *)
(* after a call.  A byte is its value (the address, another address, the    *)
(* EOP or anything else) with the packet and the place it was sent in.      *)

Zero == [val |-> "data", pkt |-> 0, idx |-> 0]
Blank == [i \in 1 .. Cap |-> Zero]

\* kurs_processor_init: it starts in the middle of what may be a packet.
Processor ==
    [receive |-> "eop", cntr |-> 0, request_ready |-> FALSE,
     buff |-> 1, buff_copy |-> 1, mem |-> [b \in 1 .. 2 |-> Blank]]

\* this->buff[this->_cntr++] = c.  Nothing keeps the counter within the
\* buffer: Cap + 1 stands for every count past its end.
Store(p, c) ==
    IF p.cntr < Cap
    THEN [p EXCEPT !.mem[p.buff][p.cntr + 1] = c, !.cntr = @ + 1]
    ELSE [p EXCEPT !.cntr = Cap + 1]

\* Mutant: the address is looked for right away.
ListenEopForSop(p, c) == IF c.val = "sop" THEN [p EXCEPT !.receive = "sop"] ELSE p

listen_eop(p, c) == IF c.val = "eop" THEN [p EXCEPT !.receive = "sop"] ELSE p

\* Any byte that is not the address is taken for the start of a packet to
\* another unit, an EOP too.
listen_sop(p, c) ==
    IF c.val = "sop"
    THEN [Store(p, c) EXCEPT !.receive = "payload"]
    ELSE [p EXCEPT !.receive = "eop", !.cntr = 0]

\* The request is complete: it replaces one the alarm has not come to yet.
HandOver(p) ==
    [p EXCEPT !.receive = "sop", !.cntr = 0, !.request_ready = TRUE,
              !.buff_copy = p.buff, !.buff = 3 - @, !.mem[3 - p.buff] = Blank]

\* The zero after the EOP is what Blank left there; Cap keeps room for it.
listen_payload(p, c) ==
    LET q == Store(p, c)
    IN  IF c.val = "eop" THEN HandOver(q) ELSE q

kurs_receive(p, c) ==
    CASE p.receive = "eop"     -> listen_eop(p, c)
      [] p.receive = "sop"     -> listen_sop(p, c)
      [] p.receive = "payload" -> listen_payload(p, c)

\* The number of the packet a buffer holds from its address to its EOP and
\* nothing else, 0 if there is none: what the checksum of a request tells.
Whole(b) ==
    LET n == b[1].pkt
    IN  IF /\ b[1].idx = 1
           /\ \E len \in 2 .. Cap :
                 /\ b[len].val = "eop" /\ b[len].pkt = n
                 /\ \A i \in 1 .. len : b[i].pkt = n /\ b[i].idx = i
                 /\ \A i \in 1 .. len - 1 : b[i].val # "eop"
        THEN n ELSE 0

ProcessorOK(p, Byte) ==
    /\ p.receive \in {"eop", "sop", "payload"}
    /\ p.cntr \in 0 .. Cap + 1
    /\ p.request_ready \in BOOLEAN
    /\ p.buff \in 1 .. 2 /\ p.buff_copy \in 1 .. 2
    /\ p.mem \in [1 .. 2 -> [1 .. Cap -> Byte \cup {Zero}]]

-----------------------------------------------------------------------------
Init ==
    /\ processor = Processor
    /\ rx = <<>>
    /\ serving = FALSE
    /\ slow = FALSE
    /\ made = FALSE
    /\ line = <<>>
    /\ number = 0
    /\ answer = "none"
    /\ acted = 0
    /\ intact = FALSE
    /\ disturbed = TRUE
    /\ faults = 0

\* Each packet tells whether the one before it came through.  Others answer
\* the packets to them on their own account.
Start(n) ==
    /\ line = <<>> /\ (serving \/ rx = <<>>)
    /\ answer # "open"
    /\ line' = Packet(n)
    /\ intact' = ~disturbed
    /\ disturbed' = (serving \/ processor.request_ready)
    /\ UNCHANGED <<unit, acted, faults>>

Poll ==
    /\ LET n == (number % Packets) + 1 IN Start(n) /\ number' = n
    /\ answer' = "open"

PollOther ==
    /\ Start(0)
    /\ answer' = "none"
    /\ UNCHANGED number

\* The answer is waited for once the last byte has left.
Waits == answer = "open" /\ line = <<>>

GiveUp ==
    /\ Waits
    /\ slow \/ (~serving /\ ~processor.request_ready /\ rx = <<>>)
    /\ answer' = "none"
    /\ UNCHANGED <<unit, line, number, acted, history, faults>>

\* A byte comes in.  Unless the alarm holds the interrupts back, the one
\* before it has been taken; otherwise it is lost.
Arrive(c) ==
    /\ line # <<>>
    /\ serving \/ rx = <<>>
    /\ line' = Tail(line)
    /\ rx' = <<c>>
    /\ UNCHANGED <<processor, serving, slow, made, control, acted, intact>>

Deliver ==
    /\ Arrive(Head(line))
    /\ disturbed' = (disturbed \/ rx # <<>>)
    /\ UNCHANGED faults

Damage ==
    /\ faults < MaxFaults
    /\ \E v \in Noise : Arrive([Head(line) EXCEPT !.val = v, !.pkt = 0])
    /\ disturbed' = TRUE
    /\ faults' = faults + 1

LoseByte ==
    /\ faults < MaxFaults
    /\ line # <<>>
    /\ line' = Tail(line)
    /\ disturbed' = TRUE
    /\ faults' = faults + 1
    /\ UNCHANGED <<unit, control, acted, intact>>

\* uart_isr and callback_uart_rrdy: an overrun is cleared and counted, and
\* the receiver is not told.
Receive ==
    /\ ~serving
    /\ rx # <<>>
    /\ processor' = kurs_receive(processor, rx[1])
    /\ rx' = <<>>
    /\ UNCHANGED <<serving, slow, made, line, control, acted, history, faults>>

\* kurs_service: KURS_HandleRequests acts on a request that is whole.  What is
\* left of others fails the checksum, but two commands check none: such a
\* request is acted on if the handler likes its fields.
Serve ==
    /\ ~serving
    /\ processor.request_ready
    /\ serving' = TRUE
    /\ LET b == processor.mem[processor.buff_copy]  n == Whole(b) IN
         /\ acted' = IF n = 0 THEN acted ELSE n
         /\ made' \in {FALSE, n = 0 /\ b[2].val = "free"}
    /\ \/ slow' = FALSE /\ UNCHANGED <<disturbed, faults>>
       \/ /\ faults < MaxFaults
          /\ slow' = TRUE /\ disturbed' = TRUE /\ faults' = faults + 1
    /\ UNCHANGED <<processor, rx, line, control, intact>>

\* The rest of kurs_service: the reply, which the control unit takes for the
\* answer to what it asked last, and the flag.
Reply ==
    /\ serving
    /\ serving' = FALSE
    /\ slow' = FALSE
    /\ made' = FALSE
    /\ LET n == Whole(processor.mem[processor.buff_copy]) IN
         answer' = IF ~Waits THEN answer ELSE IF n = number THEN "right" ELSE "wrong"
    /\ processor' = [processor EXCEPT !.request_ready = FALSE]
    /\ UNCHANGED <<rx, line, number, acted, history, faults>>

Next ==
    \/ Poll \/ PollOther \/ GiveUp
    \/ Deliver \/ Damage \/ LoseByte
    \/ Receive \/ Serve \/ Reply

Spec == Init /\ [][Next]_vars

\* Interrupts are taken, the alarm comes every 15 ms, bytes on the line
\* arrive, and a control unit that is idle keeps asking.
FairSpec ==
    /\ Spec
    /\ WF_vars(Receive) /\ WF_vars(Serve) /\ WF_vars(Reply)
    /\ WF_vars(Deliver) /\ WF_vars(GiveUp)
    /\ SF_vars(Poll)

-----------------------------------------------------------------------------
Byte == [val : Values, pkt : 0 .. Packets, idx : 1 .. Length]

\* The variables keep their types.
TypeOK ==
    /\ ProcessorOK(processor, Byte)
    /\ rx \in {<<>>} \cup {<<c>> : c \in Byte}
    /\ serving \in BOOLEAN /\ slow \in BOOLEAN /\ made \in BOOLEAN
    /\ line = <<>> \/ \E n \in 0 .. Packets, k \in 1 .. Length :
                         line = SubSeq(Packet(n), k, Length)
    /\ number \in 0 .. Packets
    /\ answer \in {"none", "open", "right", "wrong"}
    /\ acted \in 0 .. Packets
    /\ intact \in BOOLEAN /\ disturbed \in BOOLEAN
    /\ faults \in 0 .. MaxFaults

\* One packet that comes through whole, to this unit or to another, is all
\* the receiver needs to find its feet: the control unit does not give up on
\* the next request, and its answer is the right one (listen_eop, listen_sop
\* and listen_payload of kurs_processor.c).
NextRequestAnswered ==
    intact /\ ~disturbed =>
        /\ Waits => serving \/ processor.request_ready \/ rx # <<>>
        /\ answer # "wrong"

\* The unit acts on a request nobody sent only out of what a fault or an
\* overrun left in the receiver, never on a packet that follows one that came
\* through (HandleKursWriteLangPackCommand and HandleKursEnableSetParams of
\* kurs_core.c check no checksum).
MadeUpByFaults == made => disturbed \/ ~intact

\* Refuted: a request with a damaged byte is refused, whatever its command
\* (of the checksum of a request line 447 of kurs_core.c says "they should match").
ActsOnlyOnSent == ~made

\* A receiver that misses ends of packets runs several into one: with room
\* for one packet more than there are faults, _cntr stays in the buffer
\* (listen_payload compares it with nothing).
NoOverrun == processor.cntr <= Cap

\* Requests whose last byte may still make them be acted on, the oldest first:
\* the one that waits for the alarm, that of the byte in the UART and the one
\* on the line.
Handed ==
    LET n == Whole(processor.mem[processor.buff_copy])
    IN  IF processor.request_ready /\ ~serving /\ n # 0 THEN <<n>> ELSE <<>>
EndOf(s) ==
    IF s # <<>> /\ s[Len(s)].val = "eop" /\ s[Len(s)].pkt # 0 THEN <<s[Len(s)].pkt>> ELSE <<>>
OnTheWay == Handed \o EndOf(rx) \o EndOf(line)

\* The link implements LossySpec of BoundedFifo, with never more than two
\* requests in it: lost, damaged and overrun bytes, packets run into one and
\* slow services never repeat a request the unit acts on whole or change the
\* order (kurs_service clears request_ready at its end, the interrupts held
\* back).  MadeUpByFaults is about the others.
Latest(last, n) == n
Promise == INSTANCE BoundedFifo WITH
    Element <- Request, Capacity <- 2, Nothing <- 0, Note <- Latest,
    queue <- OnTheWay, taken <- acted
ActsAtMostOnce == Promise!LossySpec

\* Faults are finitely many.  The control unit then gets right answers for
\* ever, unless it keeps asking while a request before is still in the unit:
\* replies carry no number, and it takes the one before for the answer
\* (kurs_send_packet sends what kurs_service made, whenever that is done).
KeepsAnswering == []<>disturbed \/ []<>(answer = "right")
=============================================================================
