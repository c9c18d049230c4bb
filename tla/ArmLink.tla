------------------------------ MODULE ArmLink ------------------------------
(***************************************************************************)
(* Requests of the main loop to the ARM (get_slot_id, get_fp_leds and      *)
(* set_status_led in main.c).  A request resets the receiver, goes out and *)
(* is waited for in a busy loop with a time-out of 100 systicks; the UART  *)
(* interrupt feeds the receiver meanwhile, and between any two steps of    *)
(* the main loop, the assignments of ipglb_prot2_cleanup among them.       *)
(*                                                                         *)
(* The ARM and the line are external: they may lose a request or a byte,   *)
(* damage a byte, and answer after the time-out.                           *)
(***************************************************************************)
EXTENDS Prot2Processor, Sequences

CONSTANTS
    Noise,      \* values a damaged byte may have
    Packets,    \* requests are numbered modulo Packets, to tell answers apart
    MaxHeld,    \* bound: requests the ARM lets wait; with so many none is made
    MaxFaults,  \* bound: faults of the line and the ARM
    MaxStops    \* bound: times the timer stops

ASSUME ArmLinkAssumption ==
    /\ Noise \subseteq 0 .. 255
    /\ Packets \in Nat \ {0, 1}
    /\ MaxHeld \in Nat \ {0} /\ Cap >= 6 * (MaxHeld + 1)
    /\ MaxFaults \in Nat /\ MaxStops \in Nat

VARIABLES
    arm_processor,
    pc,          \* main loop: "idle", "reset", "send", "wait", "check", "end"
    write,       \* the next assignment of ipglb_prot2_cleanup
    kind,        \* the request in progress, or the last one
    number,      \* its number
    reply,       \* the buffer the last reply was read from, 0 for NULL
    outcome,     \* what the last request returned, "none" in progress
    expired,     \* systicks - start_systicks > 100
    timer,       \* the timer runs
    arm,         \* requests the ARM has to answer
    held,        \* the ARM is late with the first of them
    line,        \* bytes on their way from the ARM
    quiet,       \* history: nothing was under way when the request began
    disturbed,   \* history: a fault or a stop since
    faults, stops  \* counters for the bounds

main == <<pc, write, kind, number, reply, outcome>>
external == <<arm, held, line>>
counters == <<faults, stops>>
vars == <<arm_processor, main, expired, timer, external, quiet, disturbed, counters>>

Kinds == {"slot", "get", "set"}

Func(k) == IF k = "slot" THEN 80 ELSE 81
RepLen(k) == CASE k = "slot" -> 5 [] k = "get" -> 6 [] k = "set" -> 4

\* The packet a byte is sent in: the answer to request n, one of kind k.
Tag(k, n) == 3 * n + CASE k = "slot" -> 0 [] k = "get" -> 1 [] k = "set" -> 2

\* What the ARM answers: a read is answered by a write and the reverse, the
\* parameters are small values and the CRC is some value.
ReplyPacket(k, n) ==
    [i \in 1 .. RepLen(k) |->
        [val |-> CASE i = 1 -> RepLen(k)
                   [] i = 2 -> Func(k)
                   [] i = 3 -> IF k = "set" THEN 0 ELSE 1
                   [] i = RepLen(k) -> 7
                   [] OTHER -> 2,
         pkt |-> Tag(k, n), idx |-> i]]

-----------------------------------------------------------------------------
Init ==
    /\ arm_processor = Processor("master")
    /\ pc = "idle"
    /\ write = 1
    /\ kind = "slot"
    /\ number = 1
    /\ reply = 0
    /\ outcome = "none"
    /\ expired = FALSE
    /\ timer = TRUE
    /\ arm = <<>>
    /\ held = FALSE
    /\ line = <<>>
    /\ quiet = TRUE
    /\ disturbed = FALSE
    /\ faults = 0
    /\ stops = 0

\* One more write of the cleanup that precedes a request or ends it.
CleanupStep(next) ==
    /\ arm_processor' = CleanupWrite(arm_processor, write)
    /\ write' = (write % 6) + 1
    /\ pc' = IF write = 6 THEN next ELSE pc

\* The boot asks for the slot, once a second, until it knows it; then task_55
\* gets the LEDs, and may set them right after, every 55 ms at the most.  The
\* pauses outlast the few bytes that may be on the line.
NextKind(k) ==
    \/ /\ line = <<>> /\ (arm = <<>> \/ held)
       /\ k = IF kind = "slot" /\ outcome # "SUCCESS" THEN "slot" ELSE "get"
    \/ kind = "get" /\ k = "set"

Begin ==
    /\ pc = "idle" /\ Len(arm) < MaxHeld
    /\ pc' = "reset"
    /\ \E k \in Kinds : NextKind(k) /\ kind' = k
    /\ number' = (number % Packets) + 1
    /\ outcome' = "none"
    /\ quiet' = (line = <<>> /\ arm = <<>>)
    /\ disturbed' = FALSE
    /\ UNCHANGED <<arm_processor, write, reply, expired, timer, external, counters>>

Reset ==
    /\ pc = "reset"
    /\ CleanupStep("send")
    /\ UNCHANGED <<kind, number, reply, outcome, expired, timer, external, quiet,
                   disturbed, counters>>

\* The memset of the last reply, which may be in the buffer that is filled.
Cleared(p) ==
    IF kind = "slot" THEN p
    ELSE [p EXCEPT !.mem[reply] =
                       [i \in 1 .. Cap |-> IF i <= RepLen(kind) THEN Zero ELSE @[i]]]

Send ==
    /\ pc = "send"
    /\ pc' = "wait"
    /\ arm_processor' = Cleared(arm_processor)
    /\ arm' = Append(arm, [pkt |-> number, kind |-> kind])
    /\ expired' = FALSE
    /\ UNCHANGED <<write, kind, number, reply, outcome, timer, held, line, quiet,
                   disturbed, counters>>

ReplyReady ==
    /\ pc = "wait"
    /\ arm_processor.reply_ready
    /\ reply' = arm_processor.buff_copy
    /\ pc' = "check"
    /\ UNCHANGED <<arm_processor, write, kind, number, outcome, expired, timer, external,
                   quiet, disturbed, counters>>

\* Another turn of the busy loop.
Spin ==
    /\ pc = "wait"
    /\ ~arm_processor.reply_ready /\ ~expired
    /\ UNCHANGED vars

\* The flag is read before the time, and may be set in between.
TimedOut ==
    /\ pc = "wait"
    /\ expired
    /\ outcome' = "TIMEOUT"
    /\ pc' = "end"
    /\ UNCHANGED <<arm_processor, write, kind, number, reply, expired, timer, external,
                   quiet, disturbed, counters>>

\* Mutant: the checksum is not looked at.
VerdictWithoutCrc(b) ==
    CASE b[1].val # RepLen(kind) -> "ARG_MISMATCH"
      [] b[1].val = RepLen(kind) /\ b[2].val # Func(kind) -> "FUNC_MISMATCH"
      [] OTHER -> "SUCCESS"

\* The checks in their order.  The command of the reply is compared only if
\* the request was CMD_CONFIG, which none is.
Verdict(b) ==
    CASE b[1].val # RepLen(kind) -> "ARG_MISMATCH"
      [] b[1].val = RepLen(kind) /\ ~uart_crc_ok(b) -> "CRC_MISMATCH"
      [] b[1].val = RepLen(kind) /\ uart_crc_ok(b) /\ b[2].val # Func(kind) ->
            "FUNC_MISMATCH"
      [] OTHER -> "SUCCESS"

Check ==
    /\ pc = "check"
    /\ outcome' = Verdict(arm_processor.mem[reply])
    /\ pc' = "end"
    /\ UNCHANGED <<arm_processor, write, kind, number, reply, expired, timer, external,
                   quiet, disturbed, counters>>

\* The cleanup each of the paths ends with.
End ==
    /\ pc = "end"
    /\ CleanupStep("idle")
    /\ UNCHANGED <<kind, number, reply, outcome, expired, timer, external, quiet,
                   disturbed, counters>>

\* uart_isr, callback_uart_rrdy: a byte with bit 8 set comes in.  The
\* receiver never waits ten seconds for it: each request resets it.
ReceiveByte ==
    /\ line # <<>>
    /\ line' = Tail(line)
    /\ arm_processor' = ipglb_prot2_receive(arm_processor, Head(line), FALSE)
    /\ UNCHANGED <<main, expired, timer, arm, held, quiet, disturbed, counters>>

\* The main loop finds the timer stopped, between two calls of the scheduler.
timer_kick ==
    /\ pc = "idle"
    /\ ~timer
    /\ timer' = TRUE
    /\ UNCHANGED <<arm_processor, main, expired, external, quiet, disturbed, counters>>

-----------------------------------------------------------------------------
(* The ARM, the line and the timer, all external.                          *)

ArmAnswers ==
    /\ arm # <<>> /\ ~held
    /\ line' = line \o ReplyPacket(Head(arm).kind, Head(arm).pkt)
    /\ arm' = Tail(arm)
    /\ UNCHANGED <<arm_processor, main, expired, timer, held, quiet, disturbed, counters>>

ArmWakes ==
    /\ held
    /\ expired \/ Len(arm) = MaxHeld
    /\ held' = FALSE
    /\ UNCHANGED <<arm_processor, main, expired, timer, arm, line, quiet, disturbed, counters>>

\* The time-out elapses: the ARM is late, or nothing is coming any more.
TimeUp ==
    /\ pc = "wait" /\ timer /\ ~expired
    /\ (held /\ Len(arm) < MaxHeld) \/ (arm = <<>> /\ line = <<>> /\ ~arm_processor.reply_ready)
    /\ expired' = TRUE
    /\ UNCHANGED <<arm_processor, main, timer, external, quiet, disturbed, counters>>

Damaged(v) == [val |-> v, pkt |-> 0, idx |-> 0]

Fault ==
    /\ faults < MaxFaults
    /\ faults' = faults + 1
    /\ \/ arm # <<>> /\ arm' = Tail(arm) /\ held' = FALSE /\ UNCHANGED line
       \/ arm # <<>> /\ ~held /\ held' = TRUE /\ UNCHANGED <<arm, line>>
       \/ line # <<>> /\ line' = Tail(line) /\ UNCHANGED <<arm, held>>
       \/ /\ line # <<>>
          /\ \E v \in Noise : line' = <<Damaged(v)>> \o Tail(line)
          /\ UNCHANGED <<arm, held>>
    /\ disturbed' = TRUE
    /\ UNCHANGED <<arm_processor, main, expired, timer, quiet, stops>>

TimerStops ==
    /\ stops < MaxStops
    /\ stops' = stops + 1
    /\ timer
    /\ timer' = FALSE
    /\ UNCHANGED <<arm_processor, main, expired, external, quiet, disturbed, faults>>

MainStep == Begin \/ Reset \/ Send \/ Spin \/ ReplyReady \/ TimedOut \/ Check \/ End

Next ==
    \/ MainStep
    \/ timer_kick
    \/ ReceiveByte
    \/ ArmAnswers
    \/ ArmWakes
    \/ TimeUp
    \/ Fault
    \/ TimerStops

Spec == Init /\ [][Next]_vars

(***************************************************************************)
(* Fairness: the main loop makes requests for ever (task_55) and goes      *)
(* round, so that timer_kick, which precedes each turn, is not passed      *)
(* over; bytes on the line arrive, the ARM answers what it received, late  *)
(* or not, and time passes while the timer runs.                           *)
(***************************************************************************)
FairSpec ==
    /\ Spec
    /\ WF_vars(MainStep) /\ SF_vars(timer_kick)
    /\ WF_vars(ReceiveByte) /\ WF_vars(ArmAnswers) /\ WF_vars(ArmWakes)
    /\ WF_vars(TimeUp)

-----------------------------------------------------------------------------
ByteSent == [val : 0 .. 255, pkt : 0 .. 3 * Packets + 2, idx : 0 .. 6]

(***************************************************************************)
(* The bytes of a request's time, late ones and damaged lengths included,  *)
(* stay within the buffer (nothing bounds _cntr, listen_payload waits for  *)
(* the counter to equal the length).                                       *)
(***************************************************************************)
NoOverrun == arm_processor.cntr <= Cap

TypeOK ==
    /\ ProcessorOK(arm_processor, ByteSent) /\ NoOverrun
    /\ pc \in {"idle", "reset", "send", "wait", "check", "end"}
    /\ kind \in Kinds /\ number \in 1 .. Packets /\ reply \in 0 .. 2 /\ write \in Writes
    /\ outcome \in {"none", "SUCCESS", "TIMEOUT", "ARG_MISMATCH", "CRC_MISMATCH",
                    "FUNC_MISMATCH"}
    /\ line \in Seq(ByteSent) /\ arm \in Seq([pkt : 1 .. Packets, kind : Kinds])

(***************************************************************************)
(* A request that begins on a quiet line and meets no fault succeeds,      *)
(* whatever fragments, late replies and races with the cleanup the         *)
(* requests before it left in the receiver (ipglb_prot2_cleanup).          *)
(***************************************************************************)
CleanRequestSucceeds ==
    (pc = "end" /\ write = 1 /\ quiet /\ ~disturbed) => outcome = "SUCCESS"

IsReply(b, k, n) == \A i \in 1 .. RepLen(k) : b[i] = ReplyPacket(k, n)[i]

(***************************************************************************)
(* What a request takes for its answer is, when it is checked, one whole   *)
(* answer to a request of its kind, never pieces of several (the checks of *)
(* get_slot_id, get_fp_leds and set_status_led on the buffer the interrupt *)
(* handed over).                                                           *)
(***************************************************************************)
AcceptsWhole ==
    [][outcome' = "SUCCESS" /\ outcome # "SUCCESS" =>
            \E n \in 1 .. Packets : IsReply(arm_processor.mem[reply], kind, n)]_vars

(***************************************************************************)
(* If the line was quiet when a request began, the parameters it reads     *)
(* once the checks are over ("Update the slot_id", "Update the power led   *)
(* status") are those of the answer to itself, whatever is lost or         *)
(* damaged.  After a late answer they may not be: the interrupt may be     *)
(* filling the very buffer again.                                          *)
(***************************************************************************)
AnswersItsRequest ==
    (pc = "end" /\ write = 1 /\ quiet /\ outcome = "SUCCESS") =>
        IsReply(arm_processor.mem[reply], kind, number)

(***************************************************************************)
(* When faults cease requests succeed again: no fragment in the receiver,  *)
(* no late reply and no race with a cleanup makes them fail for good.  A   *)
(* timer that stopped is another matter (TimerRestarted).                  *)
(***************************************************************************)
Recovers == []<>(pc = "end" /\ outcome = "SUCCESS") \/ <>(stops > 0)

(***************************************************************************)
(* "restart the timer in case it stopped unexpectedly" (main, the call of  *)
(* timer_kick): a timer that stopped runs again.                           *)
(***************************************************************************)
TimerRestarted == ~timer ~> timer
=============================================================================
