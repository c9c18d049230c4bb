----------------------------- MODULE BootCopier -----------------------------
(***************************************************************************)
(* The boot copier (bootloader/boot_src/advanced_boot_copier.c): picks one *)
(* of two images in flash, copies its boot records to memory one by one    *)
(* and jumps to its entry point; without an image it waits and goes back   *)
(* to the reset vector.  Power may fail at any step; the flash is written  *)
(* by others only while the copier does not run.                           *)
(***************************************************************************)
EXTENDS FlashImage, Sequences, FiniteSets

CONSTANTS
    Addr,       \* addresses of the memory image records are copied to
    Headers,    \* the headers an image may have
    Programs,   \* the boot records an image may have
    Entry,      \* the entry points jump records name
    RESET,      \* NIOS2_RESET_ADDR
    HALT,       \* 0xffffffff: the length of a halt record, and alt_u32 -1
    MaxPowerCycles  \* bound: power failures in a behaviour

\* Programs are sequences of copy records [at: first address, len: how many],
\* then an end: HALT or the entry point of a jump record.
ASSUME BootAssumption ==
    /\ Headers \subseteq Header
    /\ Programs \subseteq [recs : Seq([at : Nat, len : Nat]), end : Entry \cup {HALT}]
    /\ Addr \subseteq Nat
    /\ MaxPowerCycles \in Nat
    /\ RESET \notin Entry /\ HALT \notin Entry /\ RESET # HALT

VARIABLES
    flash,        \* image number -> [header, prog]
    pc,           \* where alt_main is
    boot_image,   \* what PickFlashImage returned
    next,         \* number of the next boot record
    memory,       \* address -> <<image, record>> that was copied there
    entry_point,  \* where LoadFlashImage said to go
    cycles        \* power failures so far

vars == <<flash, pc, boot_image, next, memory, entry_point, cycles>>

NoData == <<0, 0>>
Span(r) == r.at .. r.at + r.len - 1
Records == flash[boot_image].prog.recs

-----------------------------------------------------------------------------
Init ==
    /\ flash \in [1 .. 2 -> [header : Headers, prog : Programs]]
    /\ pc = "pick"
    /\ boot_image = 0
    /\ next = 1
    /\ memory = [a \in Addr |-> NoData]
    /\ entry_point = RESET
    /\ cycles = 0

\* Mutant: that no image was found is not looked at.
PickUnchecked ==
    /\ pc = "pick"
    /\ boot_image' = PickFlashImage(flash[1].header, flash[2].header)
    /\ pc' = "load"
    /\ next' = 1
    /\ UNCHANGED <<flash, memory, entry_point, cycles>>

\* alt_main up to the choice of the image.
Pick ==
    /\ pc = "pick"
    /\ boot_image' = PickFlashImage(flash[1].header, flash[2].header)
    /\ pc' = IF boot_image' = 0 THEN "wait" ELSE "load"
    /\ next' = 1
    /\ UNCHANGED <<flash, memory, entry_point, cycles>>

\* One turn of the loop of LoadFlashImage: an address and length bytes.
CopyRecord ==
    /\ pc = "load"
    /\ next <= Len(Records)
    /\ memory' = [a \in Addr |-> IF a \in Span(Records[next])
                                 THEN <<boot_image, next>> ELSE memory[a]]
    /\ next' = next + 1
    /\ UNCHANGED <<flash, pc, boot_image, entry_point, cycles>>

\* Mutant: an image is jumped to as soon as it is picked.
JumpAtOnce ==
    /\ pc = "load"
    /\ entry_point' = flash[boot_image].prog.end
    /\ pc' = "app"
    /\ UNCHANGED <<flash, boot_image, next, memory, cycles>>

\* The end of the records.  LoadFlashImage returns -1 for a halt record; its
\* type is unsigned, so entry_point >= 0 holds and the copier jumps there.
JumpToEntry ==
    /\ pc = "load"
    /\ next > Len(Records)
    /\ entry_point' = flash[boot_image].prog.end
    /\ pc' = "app"
    /\ UNCHANGED <<flash, boot_image, next, memory, cycles>>

\* Mutant: the copier waits again and again.
WaitAgain ==
    /\ pc = "wait"
    /\ entry_point' = RESET
    /\ UNCHANGED <<flash, pc, boot_image, next, memory, cycles>>

\* No image: wait five seconds, then jump to the reset vector.
JumpToReset ==
    /\ pc = "wait"
    /\ entry_point' = RESET
    /\ pc' = "pick"
    /\ UNCHANGED <<flash, boot_image, next, memory, cycles>>

\* The application returns: wait, then the reset vector.  What 0xffffffff
\* leads to is not known.
AppReturns ==
    /\ pc = "app"
    /\ entry_point # HALT
    /\ pc' = "wait"
    /\ UNCHANGED <<flash, boot_image, next, memory, entry_point, cycles>>

\* Power fails: memory is lost.  Before it comes back an image may have been
\* replaced (by the programmer, or by a remote update before the failure).
PowerCycle ==
    /\ cycles < MaxPowerCycles
    /\ cycles' = cycles + 1
    /\ \/ UNCHANGED flash
       \/ \E i \in 1 .. 2, h \in Headers, p \in Programs :
              flash' = [flash EXCEPT ![i] = [header |-> h, prog |-> p]]
    /\ pc' = "pick"
    /\ boot_image' = 0
    /\ next' = 1
    /\ memory' = [a \in Addr |-> NoData]
    /\ entry_point' = RESET

Next ==
    \/ Pick
    \/ CopyRecord
    \/ JumpToEntry
    \/ JumpToReset
    \/ AppReturns
    \/ PowerCycle

Spec == Init /\ [][Next]_vars

\* The copier is a sequential program: it takes every step it can.
FairSpec == Spec /\ WF_vars(Pick \/ CopyRecord \/ JumpToEntry \/ JumpToReset)

-----------------------------------------------------------------------------
TypeOK ==
    /\ flash \in [1 .. 2 -> [header : Headers, prog : Programs]]
    /\ pc \in {"pick", "load", "app", "wait"}
    /\ boot_image \in 0 .. 2
    /\ pc = "load" => boot_image # 0 /\ next \in 1 .. Len(Records) + 1
    /\ DOMAIN memory = Addr
    /\ entry_point \in Entry \cup {RESET, HALT}
    /\ cycles \in 0 .. MaxPowerCycles

(***************************************************************************)
(* The image being loaded or running is the one the comment above          *)
(* PickFlashImage calls for: the valid one of the latest version, then of  *)
(* the latest time stamp, then the second.  An image that fails one of its *)
(* three checks is never loaded, whatever its version says.                *)
(***************************************************************************)
PickIsBest ==
    pc \in {"load", "app"} =>
        IsBest([i \in 1 .. 2 |-> flash[i].header], boot_image)

(***************************************************************************)
(* When the copier jumps, memory is what the records of the picked image   *)
(* describe, a later record winning over an earlier one it overlaps, with  *)
(* nothing left of an image loaded before (LoadFlashImage).                *)
(***************************************************************************)
LastCovering(a) ==
    LET covering == {i \in DOMAIN Records : a \in Span(Records[i])}
    IN  IF covering = {} THEN NoData
        ELSE <<boot_image, CHOOSE i \in covering : \A j \in covering : j <= i>>

EntryIsWhole == pc = "app" => \A a \in Addr : memory[a] = LastCovering(a)

(***************************************************************************)
(* An application runs in the end whenever one of the images is valid and  *)
(* stays so, also after an application that returned (alt_main).           *)
(***************************************************************************)
HasImage == \E i \in 1 .. 2 : Valid(flash[i].header)
BootsIfItCan == HasImage ~> (pc = "app" \/ ~HasImage)

(***************************************************************************)
(* "If the entry point is not found, then we should jump back to the reset *)
(* vector" (comment in alt_main): the copier never jumps to the -1 that    *)
(* LoadFlashImage returns for a halt record.                               *)
(***************************************************************************)
NoEntryGoesToReset == pc = "app" => entry_point # HALT

-----------------------------------------------------------------------------
(* Values for TLC: three valid headers that differ in one field or the     *)
(* other, one header for each failing check, of the latest version; a      *)
(* program whose records overlap, one of a single record, and one without  *)
(* an entry point.                                                         *)

Hdr(s, h, d, v, t) ==
    [signature |-> s, header_crc |-> h, data_crc |-> d,
     version |-> v, timestamp |-> t]

MCHeaders ==
    {Hdr(TRUE, TRUE, TRUE, v, t) : v \in 1 .. 2, t \in 1 .. 2}
    \cup {Hdr(FALSE, TRUE, TRUE, 3, 3), Hdr(TRUE, FALSE, TRUE, 3, 3),
          Hdr(TRUE, TRUE, FALSE, 3, 3)}

Prog(recs, end) == [recs |-> recs, end |-> end]

Overlapping == Prog(<<[at |-> 0, len |-> 2], [at |-> 1, len |-> 2]>>, "main")
Single == Prog(<<[at |-> 2, len |-> 1]>>, "main")
Halting == Prog(<<[at |-> 0, len |-> 1]>>, "halt")

MCPrograms == {Overlapping, Single}
MCHaltPrograms == {Single, Halting}
=============================================================================
