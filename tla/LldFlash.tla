------------------------------ MODULE LldFlash ------------------------------
(***************************************************************************)
(* lld_memcpy, with which the KURS alarm writes the blocks of a firmware   *)
(* image, and the flash chip below it.  The data are cut at the borders of *)
(* the write buffer; each piece is loaded, programmed, and polled for.     *)
(*                                                                         *)
(* While the chip works a read gives its status, in which DQ6 toggles from *)
(* read to read, DQ5 says that it took too long and DQ1 that what was      *)
(* loaded leaves the write buffer; afterwards a read gives the data.  The  *)
(* chip may finish between any two of the reads of lld_StatusGet.          *)
(*                                                                         *)
(* Of a byte three bits are kept.  DQ2 toggles only while an erase is      *)
(* suspended, which nothing does.  The command cycles of a piece are one   *)
(* step, since the chip works only after the last; polling_counter, which  *)
(* allows 2^32 - 1 polls, does not run out.                                *)
(***************************************************************************)
EXTENDS Naturals, Sequences

CONSTANTS
    BufferSize,   \* LLD_BUFFER_SIZE
    Cells,        \* bytes of the flash looked at, from 0
    MaxCount,     \* the longest piece of data
    Bytes         \* the bytes of the data, besides the erased one

Byte == [dq1 : BOOLEAN, dq5 : BOOLEAN, dq6 : BOOLEAN]
Blank == [dq1 |-> TRUE, dq5 |-> TRUE, dq6 |-> TRUE]

LldFlashAssumption ==
    /\ BufferSize \in Nat \ {0} /\ Cells \in Nat \ {0}
    /\ MaxCount \in 1 .. Cells
    /\ Bytes \subseteq Byte

VARIABLES
    mem,      \* the flash
    chip,     \* op: "ready", "program", "exceeded" or "aborted"; what it programs; DQ6
    call,     \* lld_memcpy: pc, offset and words left, data, status
    chunk,    \* the piece being written: its first address and its length
    reads,    \* the reads of lld_StatusGet
    before    \* history: offset, data and the flash when the call began; late: the chip took too long

vars == <<mem, chip, call, chunk, reads, before>>

Addresses == 0 .. Cells - 1
Data == UNION {[1 .. n -> Bytes] : n \in 1 .. MaxCount}
Statuses == {"NOT_BUSY", "EXCEEDED", "ABORT", "VERIFY"}
Ready == [op |-> "ready", at |-> 0, data |-> <<>>, dq6 |-> FALSE]

TypeOK ==
    /\ mem \in [Addresses -> Byte]
    /\ chip.op \in {"ready", "program", "exceeded", "aborted"}
    /\ chip.at \in 0 .. Cells /\ Len(chip.data) \in 0 .. MaxCount
    /\ call.pc \in {"idle", "next", "status", "verify"}
    /\ call.offset \in 0 .. Cells /\ Len(call.data) \in 0 .. MaxCount
    /\ call.status \in Statuses
    /\ chunk \in [at : 0 .. Cells, len : 0 .. MaxCount]
    /\ Len(reads) \in 0 .. 3

Init ==
    /\ mem \in {[a \in Addresses |-> IF a = used THEN b ELSE Blank] :
                    used \in Addresses, b \in {Blank} \cup Bytes}
    /\ chip = Ready
    /\ call = [pc |-> "idle", offset |-> 0, data |-> <<>>, status |-> "NOT_BUSY"]
    /\ chunk = [at |-> 0, len |-> 0]
    /\ reads = <<>>
    /\ before = [at |-> 0, data |-> <<>>, mem |-> mem, late |-> FALSE]

-----------------------------------------------------------------------------
\* The chip.

Status == [dq1 |-> chip.op = "aborted", dq5 |-> chip.op = "exceeded", dq6 |-> chip.dq6]

ReadOf(a) == IF chip.op = "ready" THEN mem[a] ELSE Status

AfterRead == IF chip.op = "ready" THEN chip ELSE [chip EXCEPT !.dq6 = ~@]

\* A cell can only lose bits.
And(a, b) == [q \in {"dq1", "dq5", "dq6"} |-> a[q] /\ b[q]]

\* The memory once the first n bytes are programmed.
WithFirst(n) ==
    [a \in Addresses |-> IF a \in chip.at .. chip.at + n - 1
                         THEN And(mem[a], chip.data[a - chip.at + 1]) ELSE mem[a]]

Finish ==
    /\ chip.op = "program"
    /\ mem' = WithFirst(Len(chip.data))
    /\ chip' = Ready
    /\ UNCHANGED <<call, chunk, reads, before>>

TakeTooLong ==
    /\ chip.op = "program"
    /\ \E n \in 0 .. Len(chip.data) - 1 : mem' = WithFirst(n)
    /\ chip' = [chip EXCEPT !.op = "exceeded"]
    /\ before' = [before EXCEPT !.late = TRUE]
    /\ UNCHANGED <<call, chunk, reads>>

\* The chip takes no more than what its write buffer covers.
SamePage(at, len) == at \div BufferSize = (at + len - 1) \div BufferSize

Loaded(at, d) ==
    [op |-> IF SamePage(at, Len(d)) THEN "program" ELSE "aborted",
     at |-> at, data |-> d, dq6 |-> FALSE]

-----------------------------------------------------------------------------
\* The driver.

Start ==
    /\ call.pc = "idle"
    /\ \E d \in Data, o \in Addresses :
           /\ o + Len(d) <= Cells
           /\ call' = [pc |-> "next", offset |-> o, data |-> d, status |-> "NOT_BUSY"]
           /\ before' = [at |-> o, data |-> d, mem |-> mem, late |-> FALSE]
    /\ UNCHANGED <<mem, chip, chunk, reads>>

Smaller(a, b) == IF a < b THEN a ELSE b

\* lld_memcpy: up to the next border of the write buffer, a whole one, or the rest.
PieceLength(offset, count) == Smaller(count, BufferSize - (offset % BufferSize))

\* lld_WriteBufferProgramOp up to the poll; without data left, lld_memcpy returns.
Program ==
    /\ call.pc = "next"
    /\ IF call.data = <<>>
       THEN /\ call' = [call EXCEPT !.pc = "idle"]
            /\ UNCHANGED <<chip, chunk>>
       ELSE LET n == PieceLength(call.offset, Len(call.data)) IN
            /\ chip' = Loaded(call.offset, SubSeq(call.data, 1, n))
            /\ chunk' = [at |-> call.offset, len |-> n]
            /\ call' = [call EXCEPT !.pc = "status"]
    /\ UNCHANGED <<mem, reads, before>>

Polled == chunk.at + chunk.len - 1

Needed == 3

ReadStatus ==
    /\ call.pc = "status"
    /\ Len(reads) < Needed
    /\ reads' = Append(reads, ReadOf(Polled))
    /\ chip' = AfterRead
    /\ UNCHANGED <<mem, call, chunk, before>>

\* lld_StatusGet.
StatusOf(r) ==
    IF r[1].dq6 = r[2].dq6 \/ r[2].dq6 = r[3].dq6 THEN "NOT_BUSY"
    ELSE IF r[1].dq1 THEN "ABORT" ELSE IF r[1].dq5 THEN "EXCEEDED" ELSE "BUSY"

\* lld_WriteBufferAbortResetCmd, or the reset command; each ends one kind of error.
AfterReset(status) ==
    IF \/ status = "ABORT" /\ chip.op = "aborted"
       \/ status = "EXCEEDED" /\ chip.op = "exceeded"
    THEN Ready ELSE chip

\* lld_Poll.
Poll ==
    /\ call.pc = "status"
    /\ Len(reads) = Needed
    /\ reads' = <<>>
    /\ LET s == StatusOf(reads) IN
       CASE s = "BUSY" -> UNCHANGED <<call, chip>>
         [] s = "NOT_BUSY" -> call' = [call EXCEPT !.pc = "verify"] /\ UNCHANGED chip
         [] s \in {"ABORT", "EXCEEDED"} ->
                /\ call' = [call EXCEPT !.pc = "idle", !.status = s]
                /\ chip' = AfterReset(s)
    /\ UNCHANGED <<mem, chunk, before>>

\* Mutant: the data are not advanced.
SameData(d, n) == SubSeq(d, 1, Len(d) - n)

Rest(d, n) == SubSeq(d, n + 1, Len(d))

\* The byte polled is compared, and lld_memcpy goes on behind the piece.
Verify ==
    /\ call.pc = "verify"
    /\ chip' = AfterRead
    /\ call' = IF ReadOf(Polled) = call.data[chunk.len]
               THEN [call EXCEPT !.pc = "next", !.offset = @ + chunk.len,
                                 !.data = Rest(@, chunk.len)]
               ELSE [call EXCEPT !.pc = "idle", !.status = "VERIFY"]
    /\ UNCHANGED <<mem, chunk, reads, before>>

Driver == Program \/ ReadStatus \/ Poll \/ Verify

Next == Start \/ Driver \/ Finish \/ TakeTooLong

\* The chip ends what it began, in time or not, and the alarm is not left.
Spec == Init /\ [][Next]_vars /\ WF_vars(Driver) /\ WF_vars(Finish \/ TakeTooLong)

-----------------------------------------------------------------------------
Range == before.at .. before.at + Len(before.data) - 1
WasErased == \A a \in Range : before.mem[a] = Blank

(* lld_memcpy reports success only once every byte of an erased area has   *)
(* been programmed, though it compares only the last of each piece, and    *)
(* whatever happens it changes nothing else (lld_S29GLxxxP.c:1219).        *)
Copied ==
    /\ \A a \in Addresses \ Range : mem[a] = before.mem[a]
    /\ call.pc = "idle" /\ call.status = "NOT_BUSY" /\ WasErased
           => \A a \in Range : mem[a] = before.data[a - before.at + 1]

(* An error is reported only if there was one: the chip took too long, or  *)
(* the area was not erased.  It may finish between two reads of the status,*)
(* and the data read then may look like an error (lld_S29GLxxxP.c:779 to 815).*)
NoFalseAlarm ==
    call.status # "NOT_BUSY" =>
        \/ call.status = "EXCEEDED" /\ before.late
        \/ call.status = "VERIFY" /\ ~WasErased

(* No piece crosses a border of the write buffer, at which the chip would  *)
(* abort (lld_S29GLxxxP.c:1231 to 1272).                                   *)
NeverAborted == chip.op # "aborted"

(* Whatever the outcome the chip can be read again, as the program that    *)
(* runs from it and the next block need (lld_S29GLxxxP.c:727 to 736).      *)
LeftReadable == call.pc = "idle" => chip.op = "ready"

(* The alarm gets out of lld_memcpy (lld_S29GLxxxP.c:718).                 *)
Returns == call.pc # "idle" ~> call.pc = "idle"
=============================================================================
