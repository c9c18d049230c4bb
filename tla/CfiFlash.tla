----------------------------- MODULE CfiFlash -----------------------------
(***************************************************************************)
(* Writing one block of the CFI flash from the main program, with the      *)
(* driver of the board support package (alt_flash_cfi_write and the AMD    *)
(* algorithm below it), while the KURS alarm writes blocks of a firmware   *)
(* image to the same chip with a driver of its own (lld_memcpy).  Nothing  *)
(* keeps the two apart.                                                    *)
(*                                                                         *)
(* The chip takes a command only when its unlock cycles were written just  *)
(* before, and none while it erases or programs.  A cell stands for as     *)
(* many bytes as a property tells apart; of a value only its top bit is    *)
(* looked at, on which the driver polls.                                   *)
(***************************************************************************)
EXTENDS Naturals, Sequences

CONSTANTS
    Cells,     \* number of cells written
    HighBit,   \* the values whose top bit is set
    Blank      \* an erased cell

CfiFlashAssumption == Cells \in Nat \ {0} /\ Blank \in HighBit

VARIABLES
    cells,     \* the contents of the block
    src,       \* the data to write, in the program's memory
    writer,    \* pc of the driver, the cell it is at, and the value it polls for
    chip,      \* the operation under way; armed: unlock cycles seen
    disturbed  \* history: since the block was last erased, the alarm used the chip
               \* in a write, or the power failed in an erase

flash == <<cells, src, writer, chip, disturbed>>

Idle == [pc |-> "idle", i |-> 0, value |-> Blank]
Ready == [op |-> "ready", armed |-> FALSE]
Erased == [k \in 1 .. Cells |-> Blank]

FlashTypeOK(Values) ==
    /\ cells \in [1 .. Cells -> Values \cup {Blank}]
    /\ src \in [1 .. Cells -> Values \cup {Blank}]
    /\ writer \in [pc : {"idle", "erase", "erase_cycle", "erase_wait", "program", "data", "wait", "done"},
                   i : 0 .. Cells, value : Values \cup {Blank}]
    /\ chip \in [op : {"ready", "erase", "program"}, armed : BOOLEAN]
    /\ disturbed \in BOOLEAN

-----------------------------------------------------------------------------
\* alt_flash_cfi_write.

\* A block that holds the data already is left alone.
StartWrite ==
    /\ writer.pc = "idle"
    /\ writer' = [writer EXCEPT !.pc = IF cells = src THEN "done" ELSE "erase"]
    /\ UNCHANGED <<cells, src, chip, disturbed>>

\* alt_erase_block_amd.
EraseUnlock ==
    /\ writer.pc = "erase"
    /\ writer' = [writer EXCEPT !.pc = "erase_cycle"]
    /\ chip' = [chip EXCEPT !.armed = chip.op = "ready"]
    /\ UNCHANGED <<cells, src, disturbed>>

EraseCycle ==
    /\ writer.pc = "erase_cycle"
    /\ writer' = [writer EXCEPT !.pc = "erase_wait"]
    /\ chip' = [op |-> IF chip.armed THEN "erase" ELSE chip.op, armed |-> FALSE]
    /\ UNCHANGED <<cells, src, disturbed>>

\* The driver polls the top bit of the first byte.
EraseWait ==
    /\ writer.pc = "erase_wait" /\ chip.op = "ready"
    /\ writer' = IF cells[1] \in HighBit
                 THEN [writer EXCEPT !.pc = "program", !.i = 1]
                 ELSE [writer EXCEPT !.pc = "done"]
    /\ UNCHANGED <<cells, src, chip, disturbed>>

\* alt_write_word_amd.
Unlock ==
    /\ writer.pc = "program"
    /\ writer' = [writer EXCEPT !.pc = "data", !.value = src[writer.i]]
    /\ chip' = [chip EXCEPT !.armed = chip.op = "ready"]
    /\ UNCHANGED <<cells, src, disturbed>>

Program ==
    /\ writer.pc = "data"
    /\ writer' = [writer EXCEPT !.pc = "wait"]
    /\ chip' = [op |-> IF chip.armed THEN "program" ELSE chip.op, armed |-> FALSE]
    /\ cells' = IF chip.armed THEN [cells EXCEPT ![writer.i] = src[writer.i]] ELSE cells
    /\ UNCHANGED <<src, disturbed>>

\* alt_wait_for_command_to_complete_amd: an error ends the write.
Wait ==
    /\ writer.pc = "wait" /\ chip.op = "ready"
    /\ writer' = IF (cells[writer.i] \in HighBit) = (writer.value \in HighBit) /\ writer.i < Cells
                 THEN [writer EXCEPT !.pc = "program", !.i = @ + 1]
                 ELSE [writer EXCEPT !.pc = "done"]
    /\ UNCHANGED <<cells, src, chip, disturbed>>

Write == EraseUnlock \/ EraseCycle \/ EraseWait \/ Unlock \/ Program \/ Wait

\* The contents at the end of the operation under way.
Completed == IF chip.op = "erase" THEN Erased ELSE cells

ChipDone ==
    /\ chip.op # "ready"
    /\ chip' = [chip EXCEPT !.op = "ready"]
    /\ cells' = Completed
    /\ disturbed' = (disturbed /\ chip.op # "erase")
    /\ UNCHANGED <<src, writer>>

\* The alarm erases or programs another block: its command is ignored by a busy
\* chip, but it polls until the chip is ready; a command of the main program
\* that was begun is forgotten.
ForeignCommand ==
    /\ chip' = Ready
    /\ cells' = Completed
    /\ disturbed' = (disturbed \/ writer.pc # "idle")
    /\ UNCHANGED <<src, writer>>

\* An erase cut short leaves any part of the block erased.
FlashLoss ==
    /\ writer' = Idle /\ chip' = Ready
    /\ cells' \in IF chip.op = "erase"
                  THEN {[k \in 1 .. Cells |-> IF k \in S THEN Blank ELSE cells[k]] : S \in SUBSET (1 .. Cells)}
                  ELSE {cells}
    /\ disturbed' = (disturbed \/ chip.op = "erase")
=============================================================================
