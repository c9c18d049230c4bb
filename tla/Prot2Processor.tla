--------------------------- MODULE Prot2Processor ---------------------------
(***************************************************************************)
(* The receiver of the IPGLB protocol 2 (ipglb_prot2_processor.c): a state *)
(* machine fed byte by byte by the UART interrupt, which assembles a       *)
(* packet <length, function, command, ..., CRC> in one of two buffers and  *)
(* hands it over by setting a flag.  The operators map a receiver, a       *)
(* record, to the receiver after a call.                                   *)
(*                                                                         *)
(* A byte is its value and a tag, the packet and the place it was sent in. *)
(* The exclusive or that serves as CRC is taken to tell a whole packet     *)
(* from anything else.                                                     *)
(***************************************************************************)
EXTENDS Naturals

CONSTANT Cap        \* IPGLB2_MAX_BUFFER

ASSUME Prot2Assumption == Cap \in Nat /\ Cap >= 4

Commands == {0, 1, 2}   \* CMD_READ, CMD_WRITE, CMD_CONFIG
NACK == 128

Zero == [val |-> 0, pkt |-> 0, idx |-> 0]
Blank == [i \in 1 .. Cap |-> Zero]

\* ipglb_prot2_cleanup and listen_reset write one field after the other, and
\* called from the main loop they may be interrupted between any two.
Writes == 1 .. 6

\* Mutant: the cleanup leaves the flag of a reply set.
WriteKeepsReady(p, i) ==
    CASE i = 1 -> [p EXCEPT !.request_ready = FALSE]
      [] i = 2 -> [p EXCEPT !.receive = "length"]
      [] i = 3 -> [p EXCEPT !.cntr = 0]
      [] i = 4 -> p
      [] i = 5 -> [p EXCEPT !.expected_len = 0]
      [] i = 6 -> [p EXCEPT !.buff = 1]

\* Mutant: the cleanup leaves the counter as it is.
WriteKeepsCount(p, i) ==
    CASE i = 1 -> [p EXCEPT !.request_ready = FALSE]
      [] i = 2 -> [p EXCEPT !.receive = "length"]
      [] i = 3 -> p
      [] i = 4 -> [p EXCEPT !.reply_ready = FALSE]
      [] i = 5 -> [p EXCEPT !.expected_len = 0]
      [] i = 6 -> [p EXCEPT !.buff = 1]

CleanupWrite(p, i) ==
    CASE i = 1 -> [p EXCEPT !.request_ready = FALSE]
      [] i = 2 -> [p EXCEPT !.receive = "length"]
      [] i = 3 -> [p EXCEPT !.cntr = 0]
      [] i = 4 -> [p EXCEPT !.reply_ready = FALSE]
      [] i = 5 -> [p EXCEPT !.expected_len = 0]
      [] i = 6 -> [p EXCEPT !.buff = 1]

ipglb_prot2_cleanup(p) ==
    LET w(q, i) == CleanupWrite(q, i)
    IN  w(w(w(w(w(w(p, 1), 2), 3), 4), 5), 6)

\* ipglb_prot2_processor_init: mode is "master" or "slave".
Processor(mode) ==
    [receive |-> "length", cntr |-> 0, expected_len |-> 0, mode |-> mode,
     request_ready |-> FALSE, reply_ready |-> FALSE,
     buff |-> 1, buff_copy |-> 1, mem |-> [b \in 1 .. 2 |-> Blank]]

\* this->buff[this->_cntr++] = c.  Nothing keeps the counter within the
\* buffer: Cap + 1 stands for every count past its end.
Store(p, c) ==
    IF p.cntr < Cap
    THEN [p EXCEPT !.mem[p.buff][p.cntr + 1] = c, !.cntr = @ + 1]
    ELSE [p EXCEPT !.cntr = Cap + 1]

\* Mutant: the length is taken to count the payload alone.
ListenPayloadLength(p, c) ==
    [Store(p, c) EXCEPT !.expected_len = c.val - 4, !.receive = "func"]

listen_length(p, c) ==
    [Store(p, c) EXCEPT !.expected_len = c.val, !.receive = "func"]

\* late: more than 10000 ticks have passed since the byte before.
listen_func(p, c, late) ==
    IF late THEN ipglb_prot2_cleanup(p) ELSE [Store(p, c) EXCEPT !.receive = "cmd"]

listen_cmd(p, c, late) ==
    IF c.val % NACK \notin Commands \/ late
    THEN ipglb_prot2_cleanup(Store(p, c))
    ELSE [Store(p, c) EXCEPT !.receive = "payload"]

\* The packet is complete: it is handed over and the other buffer is blanked.
HandOver(p) ==
    [p EXCEPT !.receive = "length", !.cntr = 0,
              !.reply_ready = @ \/ p.mode = "master",
              !.request_ready = @ \/ p.mode = "slave",
              !.buff_copy = p.buff, !.buff = 3 - @, !.mem[3 - p.buff] = Blank]

listen_payload(p, c) ==
    LET q == Store(p, c)
    IN  IF q.cntr = q.expected_len THEN HandOver(q) ELSE q

ipglb_prot2_receive(p, c, late) ==
    CASE p.receive = "length"  -> listen_length(p, c)
      [] p.receive = "func"    -> listen_func(p, c, late)
      [] p.receive = "cmd"     -> listen_cmd(p, c, late)
      [] p.receive = "payload" -> listen_payload(p, c)

\* uart_crc_ok: the bytes up to the length the first one states are the
\* bytes of one packet in their order.
uart_crc_ok(b) ==
    /\ b[1].pkt # 0
    /\ \A i \in 1 .. b[1].val : i <= Cap /\ b[i].pkt = b[1].pkt /\ b[i].idx = i

ProcessorOK(p, Byte) ==
    p \in [receive : {"length", "func", "cmd", "payload"},
           cntr : 0 .. Cap + 1, expected_len : Nat, mode : {"master", "slave"},
           request_ready : BOOLEAN, reply_ready : BOOLEAN,
           buff : 1 .. 2, buff_copy : 1 .. 2,
           mem : [1 .. 2 -> [1 .. Cap -> Byte \cup {Zero}]]]
=============================================================================
