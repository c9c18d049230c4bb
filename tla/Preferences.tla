---------------------------- MODULE Preferences ----------------------------
(***************************************************************************)
(* The user preferences (kurs_user_prefs.c).  The control unit changes     *)
(* settings and asks for them to be saved in the KURS alarm; task_2000     *)
(* copies the settings of the preferences list into a buffer, between two  *)
(* signatures, and writes the buffer to the flash.  The boot sequence sets *)
(* the defaults, then reads the preferences back if both signatures are    *)
(* there.  The power may fail at any time, and the alarm may write a       *)
(* firmware image to the same chip.                                        *)
(***************************************************************************)
EXTENDS CfiFlash, FiniteSets

CONSTANTS
    Settings,    \* the settings with write permission looked at
    List,        \* those of the preferences list, in its order
    Values,      \* their values; Default is one
    Default,
    Signature,
    MaxEvents    \* bound: requests, uploads and power failures

PreferencesAssumption ==
    /\ CfiFlashAssumption
    /\ List \in Seq(Settings)
    /\ Cells = Len(List) + 2
    /\ Default \in Values
    /\ Signature \notin HighBit
    /\ MaxEvents \in Nat

VARIABLES
    ram,       \* the settings
    save,      \* the flag profile_save_prefs raises
    pc,        \* task_2000: "idle", "copy", "write" or "clear"
    copied,    \* settings of the list copied so far
    asked,     \* history: a save was asked for since the boot
    raced,     \* history: the last one while task_2000 was carrying out another
    changed,   \* history: settings changed since
    snapshot,  \* history: the settings the block was last erased for
    events     \* counter for the bound

history == <<asked, raced, changed, snapshot>>
vars == <<flash, ram, save, pc, copied, history, events>>

Slots == 1 .. Len(List)

TypeOK ==
    /\ FlashTypeOK(Values \cup {Signature})
    /\ ram \in [Settings -> Values \cup {Blank}]
    /\ save \in BOOLEAN /\ asked \in BOOLEAN /\ raced \in BOOLEAN
    /\ pc \in {"idle", "copy", "write", "clear"}
    /\ copied \in 0 .. Len(List)
    /\ changed \subseteq Settings
    /\ snapshot \in [Slots -> Values \cup {Blank}]
    /\ events \in 0 .. MaxEvents

-----------------------------------------------------------------------------

\* The checks of read_user_settings; the size has one value.
Valid(c) == c[1] = Signature /\ c[Cells] = Signature

Data(c) == [k \in Slots |-> c[k + 1]]

\* The settings after a boot: defaults, then the list from the front.
Restored(c) ==
    [f \in Settings |->
        LET slots == {k \in Slots : List[k] = f}
        IN  IF ~Valid(c) \/ slots = {} THEN Default
            ELSE Data(c)[CHOOSE k \in slots : \A l \in slots : l <= k]]

Init ==
    /\ cells = Erased /\ src = Erased
    /\ writer = Idle /\ chip = Ready /\ disturbed = FALSE
    /\ ram = [f \in Settings |-> Default]
    /\ save = FALSE /\ pc = "idle" /\ copied = 0
    /\ asked = FALSE /\ raced = FALSE /\ changed = {}
    /\ snapshot = [k \in Slots |-> Blank]
    /\ events = 0

ErasedFor == IF chip.op = "erase" THEN Data(src) ELSE snapshot

Happens == events < MaxEvents /\ events' = events + 1

-----------------------------------------------------------------------------
\* The KURS alarm.

Change(f, v) ==
    /\ Happens
    /\ ram' = [ram EXCEPT ![f] = v]
    /\ changed' = changed \cup {f}
    /\ UNCHANGED <<flash, save, pc, copied, asked, raced, snapshot>>

profile_save_prefs ==
    /\ Happens
    /\ save' = TRUE
    /\ asked' = TRUE /\ raced' = (pc # "idle") /\ changed' = {}
    /\ UNCHANGED <<flash, ram, pc, copied, snapshot>>

Upload ==
    /\ Happens
    /\ ForeignCommand
    /\ snapshot' = ErasedFor
    /\ UNCHANGED <<ram, save, pc, copied, asked, raced, changed>>

-----------------------------------------------------------------------------
\* task_2000.

Commit ==
    /\ pc = "idle" /\ save
    /\ pc' = "copy" /\ copied' = 0
    /\ src' = [k \in 1 .. Cells |-> IF k \in {1, Cells} THEN Signature ELSE Blank]
    /\ UNCHANGED <<cells, writer, chip, disturbed, ram, save, history, events>>

\* list_to_array, one setting.
Copy ==
    /\ pc = "copy" /\ copied < Len(List)
    /\ copied' = copied + 1
    /\ src' = [src EXCEPT ![copied + 2] = ram[List[copied + 1]]]
    /\ UNCHANGED <<cells, writer, chip, disturbed, ram, save, pc, history, events>>

WritePrefs ==
    /\ pc = "copy" /\ copied = Len(List)
    /\ StartWrite
    /\ pc' = "write" /\ copied' = 0
    /\ UNCHANGED <<ram, save, history, events>>

\* Whether the write failed is not looked at.
Written ==
    /\ pc = "write" /\ writer.pc = "done"
    /\ writer' = Idle
    /\ pc' = "clear"
    /\ src' = Erased
    /\ UNCHANGED <<cells, chip, disturbed, ram, save, copied, history, events>>

Clear ==
    /\ pc = "clear"
    /\ pc' = "idle"
    /\ save' = FALSE
    /\ UNCHANGED <<flash, ram, copied, history, events>>

Driver == pc = "write" /\ Write /\ UNCHANGED <<ram, save, pc, copied, history, events>>

Chip ==
    /\ ChipDone
    /\ snapshot' = ErasedFor
    /\ UNCHANGED <<ram, save, pc, copied, asked, raced, changed, events>>

task_2000 == Commit \/ Copy \/ WritePrefs \/ Driver \/ Written \/ Clear

\* A turn of task_2000 that finds no request.
QuietTurn == pc = "idle" /\ ~save /\ UNCHANGED vars

\* Power fails, and comes back.
PowerFailure ==
    /\ Happens
    /\ FlashLoss
    /\ src' = Erased
    /\ ram' = Restored(cells')
    /\ save' = FALSE /\ pc' = "idle" /\ copied' = 0
    /\ asked' = FALSE /\ raced' = FALSE /\ changed' = {}
    /\ UNCHANGED snapshot

Next ==
    \/ \E f \in Settings, v \in Values : Change(f, v)
    \/ profile_save_prefs \/ Upload
    \/ task_2000 \/ QuietTurn \/ Chip
    \/ PowerFailure

Spec == Init /\ [][Next]_vars

\* The main loop runs task_2000 again and again, and the chip gets ready.
FairSpec == Spec /\ WF_vars(task_2000) /\ WF_vars(Chip)

-----------------------------------------------------------------------------
\* Settings that are valid in the flash are those of one commit, as a whole:
\* a power failure at any point of a write leaves the settings of one commit or
\* the defaults, never a mixture, as long as nobody else uses the chip and the
\* power does not fail in the middle of an erase.
AllOrNothing == Valid(cells) /\ ~disturbed => Data(cells) = snapshot

\* Once a save was carried out, every setting of the list is in the flash as
\* it was at the request, or was changed after it; the exceptions are a request
\* during a commit (see SaveIsKept) and an upload meanwhile.
SaveTakesEffect ==
    pc = "idle" /\ ~save /\ asked /\ ~raced /\ ~disturbed =>
        Valid(cells) /\ \A k \in Slots : Data(cells)[k] = ram[List[k]] \/ List[k] \in changed

\* Every request is carried out, also when the chip refuses: the unit does not
\* hang in the driver, and goes back to its other tasks.
CommitEnds == save ~> ~save

-----------------------------------------------------------------------------
\* What the comments say, and the program does not keep.

\* "This function saves all parameters with write permission to EEPROM"
\* (kurs_core.c:205): a save that was asked for is in the flash.
SaveIsKept ==
    pc = "idle" /\ ~save /\ asked /\ ~disturbed =>
        \A k \in Slots : Data(cells)[k] = ram[List[k]] \/ List[k] \in changed

\* All of them: after a save, those that did not change since are restored.
AllAreSaved ==
    pc = "idle" /\ ~save /\ asked /\ ~raced /\ ~disturbed =>
        \A f \in Settings : Restored(cells)[f] = ram[f] \/ f \in changed

\* "It also validates the data by checking for CRC and signature"
\* (kurs_user_prefs.c:148): what is accepted is what was written.
AcceptedIsWritten == Valid(cells) => Data(cells) = snapshot
=============================================================================
