-------------------------------- MODULE Als --------------------------------
(***************************************************************************)
(* Automatic laser shutdown (ALS) of one interface.  The control unit sets *)
(* the mode in the KURS alarm, which writes the register, reads its enable *)
(* bit back and keeps the mode in `control' if that succeeded.  The mode   *)
(* is saved with the preferences, and the boot sequence writes it again.   *)
(* The processor may restart, which leaves the registers as they are, and  *)
(* the power may fail.                                                     *)
(*                                                                         *)
(* The alarm runs only once the boot sequence is done (main.c:683) and is  *)
(* not interrupted, so that each of its requests is one step.  A line has  *)
(* no register: its io_enable is what malloc left.                         *)
(***************************************************************************)
EXTENDS Naturals

CONSTANTS
    Kinds,       \* kinds of interface looked at: "client", "line"
    Requested    \* values of the request, of which two bits are looked at

ALS_CONTROL_DISABLED == 0
ALS_CONTROL_LINE == 1
ALS_CONTROL_CLIENT == 2
ALS_CONTROL_REMOTE == 3
Modes == 0 .. 3

AlsAssumption == Kinds \subseteq {"client", "line"} /\ Requested \subseteq Nat

VARIABLES
    kind,      \* the kind of the interface
    enabled,   \* the enable bit of its ALS
    hwMode,    \* ALS_MODE of the register
    control,   \* als->control
    saved,     \* the mode in the preferences
    save,      \* the flag of task_2000
    restore,   \* the flag ID_3_RESET raises
    booting,   \* the boot sequence has not restored the settings
    failed,    \* history: the boot sequence could not set the mode
    restored   \* history: the defaults were restored; both until a request succeeds

registers == <<enabled, hwMode>>
vars == <<kind, registers, control, saved, save, restore, booting, failed, restored>>

TypeOK ==
    /\ kind \in Kinds
    /\ enabled \in BOOLEAN /\ hwMode \in 0 .. 2
    /\ control \in Modes /\ saved \in Modes
    /\ {save, restore, booting, failed, restored} \subseteq BOOLEAN

Init ==
    /\ kind \in Kinds
    /\ enabled = FALSE /\ hwMode = 0
    /\ control = ALS_CONTROL_DISABLED
    /\ saved \in Modes
    /\ save = FALSE /\ restore = FALSE /\ booting = TRUE
    /\ failed = FALSE /\ restored = FALSE

-----------------------------------------------------------------------------

\* map_als_from_kurs_value.
HardwareMode(mode) ==
    CASE mode = ALS_CONTROL_LINE -> 1
      [] mode = ALS_CONTROL_CLIENT -> 0
      [] mode = ALS_CONTROL_REMOTE -> 2

\* The enable bit after it was written; a write may not be taken.
Written(bit, taken) == IF taken THEN bit ELSE enabled

\* als_enable and als_disable: the bit reads as it was written.
Verified(bit, read) == bit = read

\* Writes the registers for a mode.  What a line writes and reads back is not its ALS.
set_port_als_mode(mode, taken) ==
    IF kind = "line"
    THEN UNCHANGED registers
    ELSE /\ enabled' = Written(mode # ALS_CONTROL_DISABLED, taken)
         /\ hwMode' = IF mode = ALS_CONTROL_DISABLED THEN hwMode ELSE HardwareMode(mode)

Succeeds(mode, taken) ==
    IF kind = "line" THEN taken
    ELSE Verified(mode # ALS_CONTROL_DISABLED, Written(mode # ALS_CONTROL_DISABLED, taken))

ModeOf(value) == value % 4

SetAlsMode(value, taken) ==
    LET mode == ModeOf(value) IN
    /\ ~booting
    /\ set_port_als_mode(mode, taken)
    /\ IF Succeeds(mode, taken)
       THEN /\ control' = mode
            /\ save' = TRUE
            /\ failed' = FALSE /\ restored' = FALSE
       ELSE UNCHANGED <<control, save, failed, restored>>
    /\ UNCHANGED <<kind, saved, restore, booting>>

AskRestore ==
    /\ ~booting
    /\ restore' = TRUE /\ save' = TRUE
    /\ UNCHANGED <<kind, registers, control, saved, booting, failed, restored>>

-----------------------------------------------------------------------------
\* The main program.

SetDefault ==
    /\ ~booting
    /\ restore
    /\ restore' = FALSE
    /\ control' = ALS_CONTROL_DISABLED
    /\ restored' = TRUE
    /\ UNCHANGED <<kind, registers, saved, save, booting, failed>>

\* commit_user_settings; what it does step by step is in Preferences.
Save ==
    /\ ~booting
    /\ save
    /\ save' = FALSE
    /\ saved' = control
    /\ UNCHANGED <<kind, registers, control, restore, booting, failed, restored>>

Boot(taken) ==
    /\ booting
    /\ booting' = FALSE
    /\ control' = saved
    /\ set_port_als_mode(saved, taken)
    /\ failed' = ~Succeeds(saved, taken)
    /\ UNCHANGED <<kind, saved, save, restore, restored>>

Restart ==
    /\ booting' = TRUE
    /\ save' = FALSE /\ restore' = FALSE /\ failed' = FALSE /\ restored' = FALSE
    /\ UNCHANGED <<kind, registers, control, saved>>

PowerFailure ==
    /\ booting' = TRUE
    /\ enabled' = FALSE /\ hwMode' = 0
    /\ save' = FALSE /\ restore' = FALSE /\ failed' = FALSE /\ restored' = FALSE
    /\ UNCHANGED <<kind, control, saved>>

Next ==
    \/ \E value \in Requested, taken \in BOOLEAN : SetAlsMode(value, taken)
    \/ AskRestore
    \/ SetDefault
    \/ Save
    \/ \E taken \in BOOLEAN : Boot(taken)
    \/ Restart
    \/ PowerFailure

Spec == Init /\ [][Next]_vars

-----------------------------------------------------------------------------
\* What the hardware does.
InForce(mode) == enabled = (mode # ALS_CONTROL_DISABLED) /\ (enabled => hwMode = HardwareMode(mode))

(* The mode kept and saved is the one in force, whatever writes were not    *)
(* taken: a request that fails, at als_enable after ALS_MODE is written or  *)
(* at als_disable, leaves the hardware as it was (main.c:3819, 5019 to      *)
(* 5048).  The boot sequence does not look at the result (main.c:618), and  *)
(* SetDefault is the subject of ResetReachesHardware.                       *)
ControlInForce == kind = "client" /\ ~booting /\ ~failed /\ ~restored => InForce(control)

(* main.c:3863 on ID_3_RESET: the main loop "has to update the HW to        *)
(* reflect the new settings".                                               *)
ResetReachesHardware == kind = "client" /\ ~booting /\ restored => InForce(control)

(* main.c:5053: a line runs in LINE mode, "which is automatically done in   *)
(* HW once ALS is enabled".  So a mode that was acknowledged enables it.    *)
LineIsEnabled ==
    kind = "line" /\ ~booting /\ ~failed /\ ~restored
        => enabled = (control # ALS_CONTROL_DISABLED)
=============================================================================
