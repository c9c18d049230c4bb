------------------------------ MODULE ClockGen ------------------------------
(***************************************************************************)
(* The clock generators: configured one after the other at start           *)
(* (configure_board_clocks, ipg_si5338.c, ipg_si5375.c), their frequency   *)
(* stepped by task_10 as the clients ask for it (task_ppm_adjustment).     *)
(*                                                                         *)
(* Two of the six si5338 and one port of an si5375 are modelled: the       *)
(* generator of the clients, that of the line and an attenuator.  A write  *)
(* is a call of the I2C driver as I2cCall promises it, of one byte, and in *)
(* time: these chips are taken not to hold the clock.                      *)
(***************************************************************************)
EXTENDS Naturals, Sequences

CONSTANTS
    Outputs,        \* clock outputs of an si5338, 4 on the board
    Clients,        \* CLIENTS_IF_COUNT, 16 on the board
    MaxRefusals     \* bound: bytes refused by the generators

ClockGenAssumption ==
    /\ Outputs \in Nat \ {0}
    /\ Clients \in Nat \ {0}
    /\ MaxRefusals \in Nat

VARIABLES
    pc,         \* "reset", "config", "retry" at start; "disable", "enable", "adjust" in task_10
    chip,       \* position in Order
    k,          \* register in the loop of the configuration, or client in that of adjust_ppm
    mem,        \* what the registers hold, from chip to register to value
    excused,    \* history: registers that may stay unwritten
    refusals    \* counter for the bound

vars == <<pc, chip, k, mem, excused, refusals>>

I2c == INSTANCE I2cCall WITH
    Register <- {0}, New <- 0, call <- 0, mem <- mem, result <- 0, buff <- <<>>, late <- FALSE

Chip == {"clients", "line", "attenuator"}

\* The order in which they are configured.
Order == <<"clients", "line", "attenuator">>

\* The speed registers of the outputs, then the step size registers.
Reg == 0 .. 2 * Outputs - 1
Last == 2 * Outputs - 1
Speed == 0 .. Outputs - 1

Value == {"reset", "configured", "stop", "run", "up", "down"}

Init ==
    /\ pc = "reset"
    /\ chip = 1
    /\ k = 0
    /\ mem = [c \in Chip |-> [r \in Reg |-> "reset"]]
    /\ excused = {}
    /\ refusals = 0

\* A register may stay unwritten if the driver reports no error, if the write
\* is the second, or if it is one that is made only once.
Excused(c, r, o) == o.result = "OK" \/ pc # "config" \/ (c = "attenuator" /\ r = Last)

\* A write of one register: taken or not, and what the driver says of it.
Wr(c, r, v, o) ==
    /\ mem' = IF o.taken = 1 THEN [mem EXCEPT ![c][r] = v] ELSE mem
    /\ refusals' = IF o.taken = 1 THEN refusals ELSE refusals + 1
    /\ refusals' <= MaxRefusals
    /\ excused' = CASE o.taken = 1 -> excused \ {<<c, r>>}
                    [] o.taken = 0 /\ Excused(c, r, o) -> excused \cup {<<c, r>>}
                    [] OTHER -> excused

Outcome == I2c!Outcomes(1)

-----------------------------------------------------------------------------
\* The configuration at start.

Refused(o) == o.result = "FAIL"

\* A register that is refused is written once more; the last of a port of an
\* si5375 starts its calibration and is written once.
OnceMore(c) == c # "attenuator" \/ k < Last

ipg_si5338_hardreset ==
    /\ pc = "reset"
    /\ pc' = "config" /\ k' = 0
    /\ IF Order[chip] = "attenuator" THEN UNCHANGED <<mem, excused, refusals>>
       ELSE \/ /\ mem' = [mem EXCEPT ![Order[chip]] = [r \in Reg |-> "reset"]]
               /\ UNCHANGED <<excused, refusals>>
            \/ /\ refusals < MaxRefusals /\ refusals' = refusals + 1
               /\ UNCHANGED <<mem, excused>>
    /\ UNCHANGED chip

LastRegister == k = Last

Advance ==
    /\ k' = IF LastRegister THEN 0 ELSE k + 1
    /\ chip' = IF LastRegister /\ chip < 3 THEN chip + 1 ELSE chip
    /\ pc' = CASE ~LastRegister -> "config"
               [] LastRegister /\ chip < 3 -> "reset"
               [] LastRegister /\ chip = 3 -> "disable"

ConfigRegister ==
    /\ pc = "config"
    /\ \E o \in Outcome :
          /\ Wr(Order[chip], k, "configured", o)
          /\ IF Refused(o) /\ OnceMore(Order[chip])
             THEN pc' = "retry" /\ UNCHANGED <<chip, k>>
             ELSE Advance

RetryRegister ==
    /\ pc = "retry"
    /\ \E o \in Outcome : Wr(Order[chip], k, "configured", o)
    /\ Advance

-----------------------------------------------------------------------------
\* task_10: the steps made before are taken back, then each client is served.

Disable ==
    /\ pc = "disable"
    /\ \E o \in Outcome : Wr("line", 0, "stop", o)
    /\ pc' = "enable"
    /\ UNCHANGED <<chip, k>>

EnabledOutput == 0

Enable ==
    /\ pc = "enable"
    /\ \E o \in Outcome : Wr("line", EnabledOutput, "run", o)
    /\ pc' = "adjust" /\ k' = 0
    /\ UNCHANGED chip

\* clk_speed_registers[client]: behind its end lie the step size registers,
\* and behind these what the linker put there.
SpeedRegister(client) == IF client \in Reg THEN {client} ELSE Reg

ChangeSpeed(v) ==
    \E r \in SpeedRegister(k), o \in Outcome : Wr("clients", r, v, o)

adjust_ppm ==
    /\ pc = "adjust"
    /\ \/ ChangeSpeed("up")
       \/ ChangeSpeed("down")
       \/ UNCHANGED <<mem, excused, refusals>>
    /\ IF k + 1 = Clients THEN pc' = "disable" /\ k' = 0 ELSE k' = k + 1 /\ UNCHANGED pc
    /\ UNCHANGED chip

Next == \/ ipg_si5338_hardreset \/ ConfigRegister \/ RetryRegister
        \/ Disable \/ Enable \/ adjust_ppm

Spec == Init /\ [][Next]_vars

-----------------------------------------------------------------------------
Started == pc \in {"disable", "enable", "adjust"}

TypeOK ==
    /\ pc \in {"reset", "config", "retry", "disable", "enable", "adjust"}
    /\ chip \in 1 .. 3
    /\ k \in Nat /\ k < IF pc = "adjust" THEN Clients ELSE 2 * Outputs
    /\ mem \in [Chip -> [Reg -> Value]]
    /\ excused \subseteq Chip \X Reg
    /\ refusals \in 0 .. MaxRefusals

(***************************************************************************)
(* Once the generators are configured, a register that still holds its     *)
(* reset value is one the generator refused without an error, or refused   *)
(* twice, or the calibration of an attenuator: no register is passed over, *)
(* none that is reported refused is tried only once, and none is lost to   *)
(* the reset of another (ipg_si5338_config, ipg_si5375_config).            *)
(***************************************************************************)
NoneForgotten ==
    Started => \A c \in Chip, r \in Reg : mem[c][r] = "reset" => <<c, r>> \in excused

(***************************************************************************)
(* While the clients are served the frequency steps of the line are not    *)
(* left disabled, unless the generator refused to enable them              *)
(* (task_ppm_adjustment).                                                  *)
(***************************************************************************)
LineStepsAgain == pc = "adjust" /\ mem["line"][0] = "stop" => <<"line", 0>> \in excused

\* Line 151 of ipg_si5338.c: the configuration returns "RET_SUCCESS on success".
SuccessIsConfigured == Started => \A r \in Reg : mem["line"][r] # "reset"

\* Line 44 of ipg_si5338.c: the array holds "the registers used for clock speed control".
OnlySpeedIsStepped == \A r \in Reg \ Speed : mem["clients"][r] \notin {"up", "down"}
=============================================================================
