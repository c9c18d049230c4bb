----------------------------- MODULE LangPack -----------------------------
(***************************************************************************)
(* The language pack.  The control unit sends it block by block; block 0   *)
(* holds the number of the last one, whose arrival raises new_lng_file.    *)
(* task_2000 then writes the pack to the flash, straight from the memory   *)
(* the alarm stores blocks in.  The boot reads the pack back.              *)
(*                                                                         *)
(* A block's contents are the pack it belongs to.  The control unit        *)
(* (external) sends the blocks of a pack in order, repeats a block whose   *)
(* answer it missed, and may give up and start with another pack.  The     *)
(* command looks at no checksum, so that a block damaged on the line is    *)
(* stored as well, wherever its index says.                                *)
(***************************************************************************)
EXTENDS CfiFlash

CONSTANTS
    Packs,      \* the language packs
    Last,       \* Last[p]: the number block 0 of pack p holds
    Zero,       \* a block of zeros
    Garbled,    \* the contents of a damaged block, or of a pack with one
    MaxEvents   \* bound: packs begun, repeated and damaged blocks, uploads and power failures

LangPackAssumption ==
    /\ CfiFlashAssumption
    /\ Last \in [Packs -> 1 .. (Cells - 1)]
    /\ Zero \notin Packs \cup HighBit /\ Blank \notin Packs
    /\ Garbled \notin Packs \cup {Zero, Blank}
    /\ MaxEvents \in Nat

VARIABLES
    expected_blck_cnt, \* taken from block 0; Cells stands for the numbers no block has
    new_lng_file,      \* the flag for task_2000
    pc,                \* task_2000: "idle", "write" or "clear"
    cu,                \* the pack the control unit sends and the block to come
    damaged,           \* history: a damaged block was stored since the pack was begun
    pack,              \* history: the pack completed last since the boot, or Garbled
    raced,             \* history: a block was stored before the flag was lowered again
    events             \* counter for the bound

vars == <<flash, expected_blck_cnt, new_lng_file, pc, cu, damaged, pack, raced, events>>

None == [pack |-> Zero, next |-> 0]

TypeOK ==
    /\ FlashTypeOK(Packs \cup {Zero, Garbled})
    /\ expected_blck_cnt \in 0 .. Cells
    /\ new_lng_file \in BOOLEAN /\ raced \in BOOLEAN /\ damaged \in BOOLEAN
    /\ pc \in {"idle", "write", "clear"}
    /\ cu \in [pack : Packs \cup {Zero}, next : 0 .. Cells]
    /\ pack \in Packs \cup {Zero, Garbled}
    /\ events \in 0 .. MaxEvents

\* KURS_ReadLngFile fills the pack, KURS_profile_init clears it again.
KURS_profile_init == [k \in 1 .. Cells |-> Zero]

Booted(lngpack) ==
    /\ src' = lngpack
    /\ expected_blck_cnt' = 0
    /\ new_lng_file' = FALSE /\ pc' = "idle"
    /\ cu' = None /\ damaged' = FALSE /\ pack' = Zero /\ raced' = FALSE

Init ==
    /\ cells = Erased /\ src = KURS_profile_init
    /\ writer = Idle /\ chip = Ready /\ disturbed = FALSE
    /\ expected_blck_cnt = 0
    /\ new_lng_file = FALSE /\ pc = "idle"
    /\ cu = None /\ damaged = FALSE /\ pack = Zero /\ raced = FALSE
    /\ events = 0

Happens == events < MaxEvents /\ events' = events + 1

-----------------------------------------------------------------------------

\* HandleKursWriteLangPackCommand with block b of the right length; last is the number
\* it holds if it is block 0.  Clearing the old pack at block 0 clears four bytes of
\* that block, written next.
Store(p, b, last) ==
    /\ expected_blck_cnt' = IF b = 0 THEN last ELSE expected_blck_cnt
    /\ LET completes == b > 0 /\ b = expected_blck_cnt
       IN  /\ new_lng_file' = (new_lng_file \/ completes)
           /\ pack' = IF ~completes THEN pack ELSE IF damaged' THEN Garbled ELSE p
    /\ src' = [src EXCEPT ![b + 1] = p]

WriteBlock(p, b, last) ==
    /\ Store(p, b, last)
    /\ raced' = (new_lng_file \/ (raced /\ ~new_lng_file'))
    /\ UNCHANGED <<cells, writer, chip, disturbed, pc>>

Begin(p) ==
    /\ Happens
    /\ damaged' = FALSE
    /\ WriteBlock(p, 0, Last[p])
    /\ cu' = [pack |-> p, next |-> 1]

Continue ==
    /\ cu.pack \in Packs /\ cu.next <= Last[cu.pack]
    /\ UNCHANGED damaged
    /\ WriteBlock(cu.pack, cu.next, Last[cu.pack])
    /\ cu' = [cu EXCEPT !.next = @ + 1]
    /\ UNCHANGED events

Repeat ==
    /\ cu.pack \in Packs
    /\ Happens
    /\ UNCHANGED damaged
    /\ WriteBlock(cu.pack, cu.next - 1, Last[cu.pack])
    /\ UNCHANGED cu

\* A damaged block of the right length, with any index there is room for and, if that
\* is 0, any number.  The answer names the index: when it is that of the block to
\* come, the control unit goes on or, as at any time, repeats.
Damage(b, last) ==
    /\ cu.pack \in Packs
    /\ Happens
    /\ damaged' = TRUE
    /\ WriteBlock(Garbled, b, last)
    /\ cu' = IF b = cu.next /\ b <= Last[cu.pack] THEN [cu EXCEPT !.next = @ + 1] ELSE cu

\* The command is refused, with no change: parameters may not be set now, or the
\* block has not its length or an index without room.  The control unit tries again.
Refuse == cu.pack \in Packs /\ UNCHANGED vars

Upload ==
    /\ Happens
    /\ ForeignCommand
    /\ UNCHANGED <<expected_blck_cnt, new_lng_file, pc, cu, damaged, pack, raced>>

-----------------------------------------------------------------------------
\* KURS_WriteLngFileToFlash, called by task_2000.

rest == <<expected_blck_cnt, cu, damaged, pack, raced, events>>

WriteLng ==
    /\ pc = "idle" /\ new_lng_file
    /\ StartWrite
    /\ pc' = "write"
    /\ UNCHANGED <<new_lng_file, rest>>

Driver == pc = "write" /\ Write /\ UNCHANGED <<new_lng_file, pc, rest>>

\* Whether the write failed is not looked at.
Written ==
    /\ pc = "write" /\ writer.pc = "done"
    /\ writer' = Idle
    /\ pc' = "clear"
    /\ UNCHANGED <<cells, src, chip, disturbed, new_lng_file, rest>>

Clear ==
    /\ pc = "clear"
    /\ new_lng_file' = FALSE
    /\ pc' = "idle"
    /\ UNCHANGED <<flash, rest>>

task_2000 == WriteLng \/ Driver \/ Written \/ Clear

\* A turn of task_2000 that finds no new pack.
QuietTurn == pc = "idle" /\ ~new_lng_file /\ UNCHANGED vars

Chip == ChipDone /\ UNCHANGED <<new_lng_file, pc, rest>>

PowerFailure ==
    /\ Happens
    /\ FlashLoss
    /\ Booted(KURS_profile_init)

Next ==
    \/ \E p \in Packs : Begin(p)
    \/ Continue \/ Repeat
    \/ \E b \in 0 .. Cells - 1, last \in 0 .. Cells : Damage(b, last)
    \/ Refuse \/ Upload
    \/ task_2000 \/ QuietTurn \/ Chip
    \/ PowerFailure

\* The main loop runs task_2000 again and again, and the chip gets ready.
Spec == Init /\ [][Next]_vars /\ WF_vars(task_2000) /\ WF_vars(Chip)

-----------------------------------------------------------------------------
Holds(c, p) == \A k \in 0 .. Last[p] : c[k + 1] = p

\* A pack that came in whole, with no damaged block stored since it was begun, is in
\* the flash, whole, once the flag is lowered; unless a block came in between its
\* completion and the end of the write (the flag is lowered behind it, and the driver
\* takes what it finds), or an upload or a power failure cut into the write.
PackIsWritten ==
    ~new_lng_file /\ pack \in Packs /\ ~raced /\ ~disturbed => Holds(cells, pack)

\* The flash is touched only for a pack that came in whole since the boot, or that a
\* damaged block completed or spoiled.
WrittenForAPack == cells' # cells => pack \in Packs \cup {Garbled}
OnlyWholePacks == [][WrittenForAPack]_vars

\* The flag stands for "the new lng pack" (main.c:4432), one that came in whole.
OnlySentPacks == [][cells' # cells => pack \in Packs]_vars

\* The flag does not keep task_2000 busy for ever, whatever the chip answers.
WriteEnds == new_lng_file ~> ~new_lng_file

-----------------------------------------------------------------------------
\* "restore language file" (main.c:524): a pack that is whole in the flash is
\* what the control unit reads after a boot.
PackRestored ==
    cu = None => \A p \in Packs : Holds(cells, p) => Holds(src, p)
=============================================================================
