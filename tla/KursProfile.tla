---------------------------- MODULE KursProfile ----------------------------
(***************************************************************************)
(* The profile the control unit reads and writes: sections of parameters,  *)
(* the colours of those of section 2, and the requests that kurs_core.c    *)
(* serves in the KURS alarm, one at a time.  The main program measures the *)
(* values, saves the settings and computes the colour of the block.        *)
(*                                                                         *)
(* Two parameters stand for those of section 2 that have a colour: the     *)
(* alarm, a DC_BOOL, and the power of a port, coloured by the program      *)
(* (COLOR_TIP_GET).  Of a section that can be written there is one item to *)
(* write, the first, and one that is only read.  Formats and the text of   *)
(* replies are left out.                                                   *)
(***************************************************************************)
EXTENDS Naturals, FiniteSetsExt

CONSTANTS
    Asked,         \* the numbers of sections the control unit asks for
    Colours,       \* the colours it sets
    MaxRequests    \* bound: requests that change something, between two saves

Sections == {1, 2, 3, 4, 5, 8, 103}    \* those that have parameters
Writable == {1, 3, 4, 103}             \* and of these, some that can be written
COLOR_NA == 0
COLOR_NO == 1
COLOR_Normal == 3
COLOR_Minor == 5
COLOR_Critical == 7
Values == 0 .. 2                       \* 2 is above the maximum of a parameter

KursProfileAssumption ==
    /\ Asked \subseteq Nat /\ Colours \subseteq 0 .. 9
    /\ MaxRequests \in Nat

VARIABLES
    enabled,   \* set_param_enabled
    value,     \* the first item of each writable section
    level,     \* section 2: 0 normal, 1 degraded, 2 failed
    monitored, \* the interface of the power is in service
    degrade,   \* COLOR_Degrade of each coloured item
    failure,   \* COLOR_Failure
    colour,    \* COLOR
    block,     \* block_color
    save,      \* the flag of task_2000
    reply,     \* the last reply: to what, whether it is NA, and the section asked for
    unsaved,   \* history: what was changed and acknowledged since the last save
    requests   \* counter for the bound

settings == <<value, degrade, failure>>
plant == <<level, monitored>>
history == <<unsaved, requests>>
vars == <<enabled, settings, plant, colour, block, save, reply, history>>

Coloured == {"alarm", "power"}
Reply(command, verdict) ==
    [to |-> command, verdict |-> verdict, section |-> 0]

TypeOK ==
    /\ enabled \in BOOLEAN
    /\ value \in [Writable -> Values]
    /\ monitored \in BOOLEAN
    /\ level \in [Coloured -> 0 .. 2] /\ level["alarm"] < 2
    /\ degrade \in [Coloured -> 0 .. 7] /\ failure \in [Coloured -> 0 .. 7]
    /\ colour \in [Coloured -> COLOR_NO .. COLOR_Critical]
    /\ block \in {0} \cup (COLOR_Normal .. COLOR_Critical)
    /\ {save, unsaved} \subseteq BOOLEAN
    /\ reply.verdict \in {"OK", "NA"}
    /\ requests \in 0 .. MaxRequests

\* KURS_profile_init and SetDefault, after the colours of kurs_sections.h.
Init ==
    /\ enabled = FALSE
    /\ value = [s \in Writable |-> 0]
    /\ monitored = TRUE
    /\ level = [i \in Coloured |-> IF i = "alarm" THEN 1 ELSE 0]
    /\ degrade = [i \in Coloured |-> COLOR_Minor]
    /\ failure = [i \in Coloured |-> IF i = "alarm" THEN COLOR_NA ELSE COLOR_Critical]
    /\ colour = [i \in Coloured |-> COLOR_Normal]
    /\ block = 0
    /\ save = FALSE /\ unsaved = FALSE
    /\ reply = Reply("none", "OK")
    /\ requests = 0

-----------------------------------------------------------------------------
\* Requests that only inform: class, lines of the profile, colours set, and those
\* of the extended protocol, which list every section as changed, for
\* section_param_changed is set at the start and nothing lowers it.

Inform ==
    /\ reply' = Reply("inform", "OK")
    /\ UNCHANGED <<enabled, settings, plant, colour, block, save, history>>

HandleKursUnknownCommand ==
    /\ reply' = Reply("inform", "NA")
    /\ UNCHANGED <<enabled, settings, plant, colour, block, save, history>>

HandleKursEnableSetParams ==
    /\ enabled' = TRUE
    /\ reply' = Reply("inform", "OK")
    /\ UNCHANGED <<settings, plant, colour, block, save, history>>

-----------------------------------------------------------------------------
\* Reading a section.

\* TestProg for the alarm.
AlarmColour ==
    IF level["alarm"] = 0 THEN COLOR_Normal
    ELSE IF degrade["alarm"] # COLOR_NA THEN degrade["alarm"]
    ELSE IF failure["alarm"] # COLOR_NA THEN failure["alarm"]
    ELSE COLOR_Normal

\* user_get_color and KURS_userget_color for the power.
PowerColour ==
    IF ~monitored THEN COLOR_NO
    ELSE CASE level["power"] = 0 -> COLOR_Normal
           [] level["power"] = 1 -> degrade["power"]
           [] level["power"] = 2 -> failure["power"]

\* What the values deserve.
Deserved == [i \in Coloured |-> IF i = "alarm" THEN AlarmColour ELSE PowerColour]

HandleKursRdStrValueAndColor ==
    \E n \in Asked, coloured \in BOOLEAN :
        /\ reply' = [Reply("read", "OK") EXCEPT !.section = n]
        /\ colour' = IF n = 2 /\ coloured THEN Deserved ELSE colour
        /\ UNCHANGED <<enabled, settings, plant, block, save, history>>

-----------------------------------------------------------------------------
\* Writing.

\* A request is carried out; now: something is different.
Change(now) ==
    /\ requests < MaxRequests
    /\ requests' = requests + 1
    /\ save' = TRUE
    /\ unsaved' = (unsaved \/ now)

Refuse ==
    /\ reply' = Reply("set", "NA")
    /\ UNCHANGED <<enabled, settings, plant, colour, block, save, history>>

\* What SetStrValueItem and KURS_userset_value take: a text may be anything,
\* a number has bounds, and one of section 3 may need a module to be ready.
Accepted(s, v, ready) ==
    /\ s # 1 => v < 2
    /\ s = 3 => ready

\* Mutant: the value is stored before it is checked.
StoreFirst(s, v, ready) == [value EXCEPT ![s] = v]

SetStrValueItem(s, v, ready) ==
    IF Accepted(s, v, ready) THEN [value EXCEPT ![s] = v] ELSE value

\* Refused without a look at the value: the CRC is wrong, a field cannot be
\* parsed, setting is not enabled, the command is not the one of the section, or
\* the item is not there or read only.
HandleKursSetParamValue ==
    \/ \E s \in Asked \cap Writable, v \in Values, ready \in BOOLEAN :
          /\ enabled
          /\ value' = SetStrValueItem(s, v, ready)
          /\ IF Accepted(s, v, ready)
             THEN /\ Change(value[s] # v)
                  /\ reply' = [Reply("set", "OK") EXCEPT !.section = s]
             ELSE /\ reply' = Reply("set", "NA")
                  /\ UNCHANGED <<save, history>>
          /\ UNCHANGED <<enabled, degrade, failure, plant, colour, block>>
    \/ Refuse

\* What becomes of a colour the control unit sets.
Recoloured(old, new) ==
    IF old # COLOR_NA /\ new # COLOR_NA /\ new <= COLOR_Critical THEN new ELSE old

HandleKursSetColorDegradeAndFailure ==
    \/ \E item \in Coloured, c1, c2 \in Colours :
          /\ enabled
          /\ Change(Recoloured(degrade[item], c1) # degrade[item]
                    \/ Recoloured(failure[item], c2) # failure[item])
          /\ degrade' = [degrade EXCEPT ![item] = Recoloured(@, c1)]
          /\ failure' = [failure EXCEPT ![item] = Recoloured(@, c2)]
          /\ reply' = [Reply("set", "OK") EXCEPT !.section = 2]
          /\ UNCHANGED <<enabled, value, plant, colour, block>>
    \/ Refuse

-----------------------------------------------------------------------------
\* The main program.

Measure ==
    /\ \/ monitored' = ~monitored /\ UNCHANGED level
       \/ level' = [level EXCEPT !["alarm"] = 1 - @] /\ UNCHANGED monitored
       \/ \E l \in 0 .. 2 : level' = [level EXCEPT !["power"] = l] /\ UNCHANGED monitored
    /\ UNCHANGED <<enabled, settings, colour, block, save, reply, history>>

\* get_block_color, in task_100.
ColorDynamicParameters ==
    /\ block' = Max({COLOR_Normal} \cup {colour[i] : i \in Coloured})
    /\ UNCHANGED <<enabled, settings, plant, colour, save, reply, history>>

\* task_2000; what comes between the writing and the flag is in Preferences.
Save ==
    /\ save
    /\ save' = FALSE
    /\ unsaved' = FALSE /\ requests' = 0
    /\ UNCHANGED <<enabled, settings, plant, colour, block, reply>>

Next ==
    \/ Inform
    \/ HandleKursUnknownCommand
    \/ HandleKursEnableSetParams
    \/ HandleKursRdStrValueAndColor
    \/ HandleKursSetParamValue
    \/ HandleKursSetColorDegradeAndFailure
    \/ Measure
    \/ ColorDynamicParameters
    \/ Save

Spec == Init /\ [][Next]_vars /\ WF_vars(ColorDynamicParameters) /\ WF_vars(Save)
-----------------------------------------------------------------------------
(* A request answered NA has changed no setting, at whatever of its checks  *)
(* it failed (kurs_core.c:507 to 514 and 604, 1289).                        *)
RefusedKeepsAll == reply'.verdict = "NA" => UNCHANGED settings
RefusedChangesNothing == [][RefusedKeepsAll]_vars

(* The alarm keeps exactly one colour, whatever the control unit sets:      *)
(* kurs_core.c:1089 relies on it, "in case of booleans, one of degrade or   *)
(* failure should be COLOR_NA".                                             *)
OneSeverity == (degrade["alarm"] = COLOR_NA) # (failure["alarm"] = COLOR_NA)

(* What was changed and acknowledged is saved (kurs_core.c:527, 614).       *)
ChangesAreSaved == unsaved ~> ~unsaved

(* kurs_core.c:356: a section that is "not found or empty" is answered NA.  *)
UnknownIsNotAnswered ==
    reply.to = "read" /\ reply.section \notin Sections => reply.verdict = "NA"

(* kurs_core.c:1384 of ColorDynamicParameters: "This function colors all    *)
(* dynamic parameters."  So a failure that stays shows in the block.        *)
FailureShows ==
    (level["power"] = 2 /\ monitored)
        ~> (block >= failure["power"] \/ level["power"] # 2 \/ ~monitored)
=============================================================================
