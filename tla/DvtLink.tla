------------------------------ MODULE DvtLink ------------------------------
(***************************************************************************)
(* The test port (DVT): the unit is the slave of IPGLB protocol 2.  The    *)
(* UART interrupt feeds the receiver; dvt_handler, called once per turn of *)
(* the main loop, checks a request, carries it out from the buffer it came *)
(* in, sends the answer and resets the receiver.                           *)
(*                                                                         *)
(* The client and the line are external.  The client sends a request,      *)
(* waits, and asks again when no answer comes; a turn of the main loop may *)
(* outlast its patience.  Bytes may be lost or damaged, and the interrupt  *)
(* may come too late for a byte.                                           *)
(***************************************************************************)
EXTENDS Prot2Processor, Sequences

CONSTANTS
    Noise,      \* values a damaged byte may have
    Packets,    \* requests are numbered modulo Packets
    MaxFaults   \* bound: faults of the line, and times the client does not wait
                \* until the last request is done with

DvtLinkAssumption ==
    /\ Cap >= 12 /\ Noise \subseteq 0 .. Cap
    /\ Packets \in Nat \ {0, 1}
    /\ MaxFaults \in Nat

VARIABLES
    dvt_processor,
    pc,       \* the main loop: "idle", "check", "handle", "send" or "cleanup"
    write,    \* the next assignment of ipglb_prot2_cleanup
    taken,    \* request_buff: the buffer of the request
    answer,   \* the request whose parameters went into the answer, 0 for none
    client,   \* "idle", "waiting" or "answered"
    number,   \* number of its last request
    line,     \* bytes on their way to the unit
    gap,      \* since the last byte: 0: less than 10 ms, 1: more, 2: more than 10000 ticks
    clean,    \* history: the receiver was at rest at the last request, no fault since
    checked,  \* history: the request that passed the check
    crossed,  \* history: the interrupt completed or dropped another request during this service
    faults    \* counter for the bound

service == <<pc, write, taken, answer>>
history == <<clean, checked, crossed>>
vars == <<dvt_processor, service, client, number, line, gap, history, faults>>

ReqLen == 5

\* Length, function, command, one parameter, CRC.  All of them are lengths the
\* buffer holds, as every byte is in the program.
RequestPacket(n) ==
    [i \in 1 .. ReqLen |->
        [val |-> CASE i = 1 -> ReqLen [] i = 2 -> 10 [] i = 3 -> 1 [] i = 4 -> 2 [] i = 5 -> 12,
         pkt |-> n, idx |-> i]]

ByteSent == [val : 0 .. Cap, pkt : 0 .. Packets, idx : 0 .. ReqLen]

TypeOK ==
    /\ ProcessorOK(dvt_processor, ByteSent)
    /\ pc \in {"idle", "check", "handle", "send", "cleanup"}
    /\ write \in Writes /\ taken \in 1 .. 2 /\ answer \in 0 .. Packets
    /\ client \in {"idle", "waiting", "answered"} /\ number \in 1 .. Packets
    /\ line \in Seq(ByteSent)
    /\ gap \in 0 .. 2
    /\ clean \in BOOLEAN /\ crossed \in BOOLEAN /\ checked \in 0 .. Packets
    /\ faults \in 0 .. MaxFaults

Init ==
    /\ dvt_processor = Processor("slave")
    /\ pc = "idle" /\ write = 1 /\ taken = 1 /\ answer = 0
    /\ client = "idle" /\ number = 1
    /\ line = <<>> /\ gap = 0
    /\ clean = FALSE /\ checked = 0 /\ crossed = FALSE
    /\ faults = 0

-----------------------------------------------------------------------------
\* ipglb_prot2_service, called from the main loop.

rest == <<client, number, line, gap, faults>>

Service ==
    /\ pc = "idle" /\ dvt_processor.request_ready
    /\ taken' = dvt_processor.buff_copy
    /\ pc' = "check"
    /\ crossed' = FALSE
    /\ UNCHANGED <<dvt_processor, write, answer, clean, checked, rest>>

\* uart_crc_ok of a blank buffer compares zero with the byte in front of it,
\* which is zero too.
Passes(b) == b[1] = Zero \/ uart_crc_ok(b)

\* handle_common: a request that fails the check is not answered.
Check ==
    /\ pc = "check"
    /\ LET b == dvt_processor.mem[taken]
       IN  /\ pc' = IF Passes(b) THEN "handle" ELSE "cleanup"
           /\ checked' = b[1].pkt
    /\ UNCHANGED <<dvt_processor, write, taken, answer, clean, crossed, rest>>

\* The handler reads the parameters from the buffer.
Handle ==
    /\ pc = "handle"
    /\ answer' = dvt_processor.mem[taken][4].pkt
    /\ pc' = "send"
    /\ UNCHANGED <<dvt_processor, write, taken, history, rest>>

Send ==
    /\ pc = "send"
    /\ client' = IF client = "waiting" THEN "answered" ELSE client
    /\ pc' = "cleanup"
    /\ UNCHANGED <<dvt_processor, write, taken, answer, number, line, gap, history, faults>>

Cleanup ==
    /\ pc = "cleanup"
    /\ dvt_processor' = CleanupWrite(dvt_processor, write)
    /\ write' = (write % 6) + 1
    /\ pc' = IF write = 6 THEN "idle" ELSE pc
    /\ UNCHANGED <<taken, answer, history, rest>>

Main == Service \/ Check \/ Handle \/ Send \/ Cleanup

-----------------------------------------------------------------------------
\* uart_isr.

\* The times of the last bytes are shared with the receiver of the ARM link: a
\* byte of the ARM in a pause hides it.
Late == {FALSE, gap = 2}

Deliver(p, c) ==
    /\ \E late \in Late : dvt_processor' = ipglb_prot2_receive(p, c, late)
    /\ gap' = 0

\* callback_uart_rrdy.
ReceiveByte ==
    /\ line # <<>>
    /\ line' = Tail(line)
    /\ Deliver(dvt_processor, Head(line))
    /\ crossed' = (crossed \/ dvt_processor'.receive = "length")
    /\ UNCHANGED <<service, client, number, clean, checked, faults>>

\* callback_uart_roe: a byte was overwritten by the next before it was read.
Overrun ==
    /\ faults < MaxFaults /\ faults' = faults + 1
    /\ Len(line) > 1
    /\ line' = Tail(Tail(line))
    /\ Deliver(ipglb_prot2_cleanup(dvt_processor), line[2])
    /\ clean' = FALSE /\ crossed' = TRUE
    /\ UNCHANGED <<service, client, number, checked>>

-----------------------------------------------------------------------------
\* The client and the line, external.

AtRest ==
    /\ line = <<>> /\ pc = "idle"
    /\ ~dvt_processor.request_ready

Request ==
    /\ client \in {"idle", "answered"}
    /\ \/ (AtRest \/ client = "idle") /\ UNCHANGED faults
       \/ ~AtRest /\ client = "answered" /\ faults < MaxFaults /\ faults' = faults + 1
    /\ client' = "waiting"
    /\ number' = (number % Packets) + 1
    /\ line' = line \o RequestPacket(number')
    /\ clean' = (AtRest /\ dvt_processor.receive = "length" /\ dvt_processor.cntr = 0)
    /\ UNCHANGED <<dvt_processor, service, gap, checked, crossed>>

\* No answer comes any more.
GiveUp ==
    /\ client = "waiting" /\ AtRest
    /\ client' = "idle"
    /\ UNCHANGED <<dvt_processor, service, number, line, gap, history, faults>>

\* An answer may come yet.
LosePatience ==
    /\ client = "waiting" /\ ~AtRest
    /\ faults < MaxFaults /\ faults' = faults + 1
    /\ client' = "idle"
    /\ UNCHANGED <<dvt_processor, service, number, line, gap, history>>

Pause ==
    /\ line = <<>> /\ dvt_processor.receive # "length"
    /\ gap < 2 /\ gap' = gap + 1
    /\ UNCHANGED <<dvt_processor, service, client, number, line, history, faults>>

Fault ==
    /\ faults < MaxFaults /\ faults' = faults + 1
    /\ line # <<>>
    /\ \/ line' = Tail(line)
       \/ line' = <<>>
       \/ \E v \in Noise : line' = <<[val |-> v, pkt |-> 0, idx |-> 0]>> \o Tail(line)
    /\ clean' = FALSE
    /\ UNCHANGED <<dvt_processor, service, client, number, gap, checked, crossed>>

Next ==
    \/ Main
    \/ ReceiveByte \/ Overrun
    \/ Request \/ GiveUp \/ LosePatience \/ Pause \/ Fault

\* The main loop goes round, bytes arrive, and the client keeps asking.
Spec ==
    /\ Init /\ [][Next]_vars
    /\ WF_vars(Main) /\ WF_vars(ReceiveByte)
    /\ WF_vars(Request) /\ WF_vars(GiveUp)

-----------------------------------------------------------------------------
\* A request that finds the receiver at rest and meets no fault is on its way,
\* or being carried out, until it is answered; nothing drops it, not even the
\* reset of the receiver after the request before (ipglb_prot2_service).
CleanRequestUnderWay == client = "waiting" /\ clean => ~AtRest

\* Then the answer is to this request, not to an earlier one.
CleanAnswer == [][client' = "answered" /\ client # "answered" /\ clean => answer = number]_vars

\* What is answered is a request that passed the check, also when the bytes of
\* the next one come in meanwhile: the other buffer takes them.  Once the next
\* one is complete, or is dropped (which points the receiver at the first buffer
\* again), the request in work may be overwritten.
AnswersChecked == pc = "send" /\ ~crossed => answer = checked /\ answer # 0

-----------------------------------------------------------------------------
\* "10ms occurred consider it a wrong packet and restart"
\* (ipglb_prot2_processor.c:110): the limit is 10000 ticks of 1 ms, of a time
\* that the ARM link counts in too.
RestartsAfterPause ==
    [][ReceiveByte /\ gap > 0 /\ dvt_processor.receive \in {"func", "cmd"}
            => dvt_processor'.receive = "length"]_vars

\* "expected length of the frame, this will be used to identify when a full
\* packet has been received" (ipglb_prot2_processor.c:30): with a length under
\* four the counter passes it before the payload, and no packet is full again.
FullPacketIsSeen ==
    dvt_processor.receive = "payload" => dvt_processor.cntr < dvt_processor.expected_len

\* In the long run one of three things happens, whatever was lost, damaged or
\* sent in a hurry.  The client gets right answers for ever (listen_cmd: "we might
\* have locked into the middle of a packet we have to restart"); or a byte was
\* taken for a length under four and the port stays deaf; or the reset after a
\* shifted request cuts into a packet and shifts the next one, time and again.
Deaf == ~FullPacketIsSeen
CutsIntoPacket == pc = "cleanup" /\ line # <<>>
KeepsAnswering ==
    \/ []<>(client = "answered" /\ answer = number)
    \/ <>[]Deaf
    \/ []<>CutsIntoPacket
=============================================================================
