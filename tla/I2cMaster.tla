----------------------------- MODULE I2cMaster -----------------------------
(***************************************************************************)
(* The driver of the I2C controllers (sls_avalon_i2c_m.c): one call after  *)
(* the other, byte by byte over the bus to a device that may refuse any    *)
(* byte of it.  A step is a command to the controller, the wait for the    *)
(* byte (checKTip) and the look at its acknowledge (checKAck).             *)
(*                                                                         *)
(* The controller and the device are external.  Once the driver has gone   *)
(* on before a byte was through, what the two make of the rest of the call *)
(* is left open.  A read in mode 0, which nobody asks for, is left out.    *)
(***************************************************************************)
EXTENDS Naturals, Sequences

CONSTANTS
    Cells,      \* number of registers of the device
    Stretches,  \* the device may hold the clock for longer than TransDelay
    MaxCalls    \* bound

I2cMasterAssumption ==
    /\ Cells \in Nat \ {0, 1}
    /\ Stretches \in BOOLEAN
    /\ MaxCalls \in Nat

VARIABLES
    call,       \* the call under way: op, off, len
    pc,         \* what goes over the bus next, "idle" between calls
    i,          \* bytes transferred
    buff,       \* bytes delivered
    result,     \* what the call returned, "none" while it is under way
    held,       \* the bus is held: a START was sent and no STOP since
    tip,        \* the controller still transfers when the driver goes on
    dev,        \* the device: mode, ptr, mem
    late,       \* history: the driver did not wait for a byte of this call
    before,     \* history: the registers when the call began
    calls       \* counter for the bound

vars == <<call, pc, i, buff, result, held, tip, dev, late, before, calls>>

Register == 0 .. Cells - 1

\* The value a write brings: no register holds it from the start.
New == Cells

Value == Register \cup {New}

Mode == {"deaf", "listening", "sending"}

\* sls_write; sls_read in mode 1 and in mode 2; sls_read_16_bit
Op == {"write", "random", "block", "word"}

Called == [call EXCEPT !.op = IF @ = "write" THEN "write" ELSE "read"]

Abstract == INSTANCE I2cCall WITH
    call <- Called,
    mem <- IF pc = "idle" THEN dev.mem ELSE before,
    buff <- IF pc = "idle" THEN buff ELSE <<>>,
    late <- pc = "idle" /\ late

Init ==
    /\ call = [op |-> "write", off |-> 0, len |-> 1]
    /\ pc = "idle"
    /\ i = 0
    /\ buff = <<>>
    /\ result = "FAIL"
    /\ held = FALSE
    /\ tip = FALSE
    /\ late = FALSE
    /\ dev = [mode |-> "deaf", ptr |-> 0, mem |-> [r \in Register |-> r]]
    /\ before = dev.mem
    /\ calls = 0

-----------------------------------------------------------------------------
\* The device: what a byte put on the bus does to it.

Addressed(mode) == [dev EXCEPT !.mode = mode]
Pointed(off) == [dev EXCEPT !.ptr = off]
Stored == [dev EXCEPT !.mem[dev.ptr] = New, !.ptr = (@ + 1) % Cells]
Sent(ack) == [dev EXCEPT !.ptr = (@ + 1) % Cells, !.mode = IF ack THEN "sending" ELSE "deaf"]

\* checKTip sleeps once, for TransDelay, and returns whatever the status is then.
checKTip ==
    /\ tip' \in (IF Stretches THEN BOOLEAN ELSE {FALSE})
    /\ late' = (late \/ tip')

\* What the device may be when bytes and commands were lost to it: in any mode,
\* with a register written wherever it likes.  (Every call sets the pointer.)
Astray ==
    [mode : Mode, ptr : {dev.ptr},
     mem : {dev.mem} \cup {[dev.mem EXCEPT ![r] = New] : r \in Register}]

\* The byte makes the device d, if the driver waited for it and those before.
Becomes(d) == IF late' THEN dev' \in Astray ELSE dev' = d

-----------------------------------------------------------------------------
\* The driver.

\* No START can be seen while a device drives the line; a byte that was not
\* through when the last call ended may be through by now.
sls_call ==
    /\ pc = "idle"
    /\ calls < MaxCalls
    /\ call' \in [op : Op, off : Register, len : 1 .. 2]
    /\ call'.off + call'.len - 1 \in Register
    /\ call'.op = "word" => call'.len = 2
    /\ pc' = "address"
    /\ i' = 0
    /\ buff' = <<>>
    /\ before' = dev.mem
    /\ calls' = calls + 1
    /\ result' = "none"
    /\ late' \in (IF dev.mode = "sending" THEN {TRUE} ELSE {FALSE, tip})
    /\ UNCHANGED <<held, tip, dev>>

\* Mutant: the loop runs once more.
OneByteMore == i = call.len

LastByte == i + 1 = call.len

\* The end of a call, with a STOP on the bus or without.
Return(r, stop) ==
    /\ pc' = "idle"
    /\ result' = r
    /\ held' = ~stop

\* Mutant: a byte of data that is refused is no error.
RefusedDataIsOK ==
    /\ \/ call.op = "write" /\ Return("OK", TRUE)
       \/ call.op = "random" /\ Return("FAIL", TRUE)
       \/ call.op \in {"block", "word"} /\ Return("FAIL", FALSE)
    /\ buff' = <<>>

\* A byte was not acknowledged.  The callers make nothing of what a failed read left.
Refused ==
    /\ \/ call.op = "write" /\ pc # "data" /\ Return("OK", TRUE)
       \/ call.op = "write" /\ pc = "data" /\ Return("FAIL", TRUE)
       \/ call.op = "random" /\ Return("FAIL", TRUE)
       \/ call.op \in {"block", "word"} /\ Return("FAIL", FALSE)
    /\ buff' = <<>>

\* A START and the address of the device; then, if it answers, the next thing.
Address(mode, next) ==
    /\ checKTip
    /\ \/ /\ Becomes(Addressed(mode))
          /\ held' = TRUE
          /\ pc' = next
          /\ UNCHANGED <<result, buff>>
       \/ /\ Becomes(Addressed("deaf"))
          /\ Refused
    /\ UNCHANGED <<call, i, before, calls>>

WriteAddress == pc = "address" /\ Address("listening", "offset")

ReadAddress == pc = "restart" /\ Address("sending", "data")

\* The offset sent: a random read sends it again for every byte.
Offset == call.off + i

WriteOffset ==
    /\ pc = "offset"
    /\ checKTip
    /\ \/ /\ Becomes(Pointed(Offset))
          /\ pc' = IF call.op = "write" THEN "data" ELSE "restart"
          /\ UNCHANGED <<result, buff, held>>
       \/ /\ Becomes(Addressed("deaf"))
          /\ Refused
    /\ UNCHANGED <<call, i, before, calls>>

WriteData ==
    /\ pc = "data" /\ call.op = "write"
    /\ checKTip
    /\ \/ /\ Becomes(Stored)
          /\ i' = i + 1
          /\ IF LastByte THEN Return("OK", TRUE) ELSE UNCHANGED <<pc, result, held>>
          /\ UNCHANGED buff
       \/ /\ Becomes(Addressed("deaf"))
          /\ Refused
          /\ UNCHANGED i
    /\ UNCHANGED <<call, before, calls>>

\* Mutant: the last byte is acknowledged as the others are.
EveryByte == call.op # "random"

\* The driver acknowledges the byte: the device is to send another one.
Acknowledges == call.op # "random" /\ ~LastByte

\* What is in the receive register: another byte, if this one is not through yet.
Received == IF late' THEN Value ELSE {dev.mem[dev.ptr]}

ReadData ==
    /\ pc = "data" /\ call.op # "write"
    /\ checKTip
    /\ Becomes(Sent(Acknowledges))
    /\ \E byte \in Received : buff' = Append(buff, byte)
    /\ i' = i + 1
    /\ IF LastByte THEN Return("OK", TRUE)
       ELSE /\ pc' = IF call.op = "random" THEN "address" ELSE "data"
            /\ UNCHANGED <<result, held>>
    /\ UNCHANGED <<call, before, calls>>

Next == sls_call \/ WriteAddress \/ WriteOffset \/ ReadAddress \/ WriteData \/ ReadData

Spec == Init /\ [][Next]_vars

-----------------------------------------------------------------------------
TypeOK ==
    /\ call \in [op : Op, off : Register, len : 1 .. 2]
    /\ pc \in {"idle", "address", "offset", "restart", "data"}
    /\ i \in 0 .. 2
    /\ i < call.len \/ pc = "idle"
    /\ buff \in Seq(Value) /\ Len(buff) <= i
    /\ result \in {"none", "OK", "FAIL"}
    /\ held \in BOOLEAN /\ tip \in BOOLEAN /\ late \in BOOLEAN
    /\ dev \in [mode : Mode, ptr : Register, mem : [Register -> Value]]
    /\ before \in [Register -> Value]
    /\ calls \in 0 .. MaxCalls

(***************************************************************************)
(* sls_write and sls_read, whatever bytes the device refuses: a read that  *)
(* returns OK delivers the registers asked for, in order; a write that     *)
(* returns OK wrote all or nothing, and one that fails did not write all   *)
(* (sls_avalon_i2c_write and sls_avalon_i2c_read, the abstract I2cCall).   *)
(* Nothing is promised of a call with a byte that was not through after    *)
(* TransDelay, but everything of the calls that come after it.             *)
(***************************************************************************)
CallsAreAtomic == Abstract!Spec

(***************************************************************************)
(* A device is never left in the middle of a transmission: when a call is  *)
(* over it does not drive the data line, so that the STOP of this call and *)
(* the START of the next can be seen (the last byte is not acknowledged,   *)
(* 0x28), whatever became of the calls before.                             *)
(***************************************************************************)
LineIsReleased == pc = "idle" /\ ~late => dev.mode # "sending"

(***************************************************************************)
(* The bus stays held after a call only when a device refused a block or   *)
(* word read (the returns at lines 329, 338, 348 and 430 to 450), and a    *)
(* call that succeeds gives it back; late bytes make no difference.        *)
(***************************************************************************)
HeldOnlyAfterRefusal == pc = "idle" /\ held => call.op \in {"block", "word"} /\ result = "FAIL"

\* Refuted (line 192): "if nack is 1, exit with a failure (0)".
RefusedWriteFails == pc = "idle" /\ call.op = "write" /\ result = "OK" => i = call.len

\* Refuted (line 375): "when byte has transferred this loop terminates".
EveryByteIsAwaited == ~tip
=============================================================================
