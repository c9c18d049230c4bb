---------------------------- MODULE KursNumbers ----------------------------
(***************************************************************************)
(* The numbers in a KURS request (kurs_helper.c).  A field is spaces, then *)
(* digits, then a delimiter; the next field follows.  Four functions read  *)
(* one, a character at each step, and none of them knows where the field   *)
(* or the request ends: they stop at what they find.                       *)
(*                                                                         *)
(* What the functions call 32 bits is 16 bits wide here.  Both 2^32 - 1    *)
(* and 2^16 - 1 have one digit 5 after the value the code compares with    *)
(* (429496729 and 6553), ten and five digits, and both of these begin a    *)
(* larger number that does not fit.                                        *)
(***************************************************************************)
EXTENDS Integers

CONSTANTS
    Parsers,    \* the functions in use
    Digits,     \* the digits a request is made of
    MaxDigits   \* bound: the longest number

KursNumbersAssumption ==
    /\ Parsers \subseteq {"StrToU16", "StrToU32Def", "StrToU32", "Str4HexToU16"}
    /\ Digits \subseteq 0 .. 15 /\ MaxDigits \in Nat

VARIABLES
    parser,     \* the function called
    tm,         \* tm32 or tm16: the number so far
    digit_cnt,  \* digits counted (StrToU32 and Str4HexToU16 do)
    detect,     \* a digit has been seen
    res,        \* "reading", "refused", or "returned": the number is tm
    exact,      \* history: the number the digits stand for
    over        \* history: the delimiter has been read

vars == <<parser, tm, digit_cnt, detect, res, exact, over>>

Width == 65536
Edge == 6553            \* 429496729
MAX_DIGIT_CNT == 5      \* MAX_U32_DIGIT_CNT is 10, MAX_U16_DIGIT_CNT is 5

\* A digit is its value.  The other characters are a space, a delimiter of a
\* lower code than the digit 6 (the carriage return, and the 0 at the end of
\* what was received) and one of a higher code.
SP == -1
CR == -2
Semicolon == -3
Delimiters == {CR, Semicolon}
Base == IF parser = "Str4HexToU16" THEN 16 ELSE 10
IsDigit(ch) == ch >= 0
FromSix(ch) == ch >= 6 \/ ch = Semicolon

Init ==
    /\ parser \in Parsers
    /\ tm = 0 /\ digit_cnt = 0 /\ detect = FALSE
    /\ res = "reading"
    /\ exact = 0 /\ over = FALSE

-----------------------------------------------------------------------------
Stop(result) == res' = result /\ UNCHANGED <<tm, digit_cnt, detect>>
Skip == UNCHANGED <<tm, digit_cnt, detect, res>>

\* Mutant: the number is not looked at.
StrToU16Unlimited(ch) ==
    \/ ~detect /\ ch = SP /\ Skip
    \/ IsDigit(ch) /\ tm' = tm * 10 + ch /\ detect' = TRUE /\ UNCHANGED <<digit_cnt, res>>
    \/ ~IsDigit(ch) /\ detect /\ Stop("returned")
    \/ ~IsDigit(ch) /\ ~detect /\ ch # SP /\ Stop("refused")

\* A number of 16 bits in a wider register, looked at before each character.
StrToU16(ch) ==
    \/ tm > 65535 /\ Stop("refused")
    \/ /\ tm <= 65535
       /\ \/ ~detect /\ ch = SP /\ Skip
          \/ IsDigit(ch) /\ tm' = tm * 10 + ch /\ detect' = TRUE /\ UNCHANGED <<digit_cnt, res>>
          \/ ~IsDigit(ch) /\ detect /\ Stop("returned")
          \/ ~IsDigit(ch) /\ ~detect /\ ch # SP /\ Stop("refused")

\* The default is what the caller takes for a refusal.
StrToU32Def(ch) ==
    LET tooLarge == tm > Edge \/ (tm = Edge /\ FromSix(ch))
    IN  \/ tooLarge /\ Stop("refused")
        \/ /\ ~tooLarge
           /\ \/ ~detect /\ ch = SP /\ Skip
              \/ IsDigit(ch) /\ tm' = tm * 10 + ch /\ detect' = TRUE /\ UNCHANGED <<digit_cnt, res>>
              \/ ~IsDigit(ch) /\ detect /\ Stop("returned")
              \/ ~IsDigit(ch) /\ ~detect /\ ch # SP /\ Stop("refused")

\* StrToU32 and Str4HexToU16 differ in the base alone, and compare with the
\* same number: what is neither a digit nor the end of one is passed over.
Counting(ch) ==
    \/ tm = Edge /\ FromSix(ch) /\ Stop("refused")
    \/ /\ ~(tm = Edge /\ FromSix(ch))
       /\ \/ IsDigit(ch) /\ digit_cnt = MAX_DIGIT_CNT /\ Stop("refused")
          \/ /\ IsDigit(ch) /\ digit_cnt < MAX_DIGIT_CNT
             /\ tm' = (tm * Base + ch) % Width
             /\ digit_cnt' = digit_cnt + 1
             /\ detect' = TRUE
             /\ UNCHANGED res
          \/ ~IsDigit(ch) /\ detect /\ Stop("returned")
          \/ ~IsDigit(ch) /\ ~detect /\ Skip

StrToU32(ch) == Counting(ch)
Str4HexToU16(ch) == Counting(ch)

\* The function called is given the next character.
Read(ch) ==
    /\ res = "reading"
    /\ CASE parser = "StrToU16" -> StrToU16(ch)
         [] parser = "StrToU32Def" -> StrToU32Def(ch)
         [] parser = "StrToU32" -> StrToU32(ch)
         [] parser = "Str4HexToU16" -> Str4HexToU16(ch)
    /\ UNCHANGED parser

Space == ~over /\ ~detect /\ Read(SP) /\ UNCHANGED <<exact, over>>

Digit ==
    /\ ~over
    /\ \E d \in Digits :
          /\ d < Base
          /\ exact * Base + d < Base ^ MaxDigits
          /\ Read(d)
          /\ exact' = exact * Base + d
    /\ UNCHANGED over

\* The delimiter, and then the first one of the field behind it.
Delimiter == \E ch \in Delimiters : Read(ch) /\ over' = TRUE /\ UNCHANGED exact

Next == Space \/ Digit \/ Delimiter

Spec == Init /\ [][Next]_vars

-----------------------------------------------------------------------------
TypeOK ==
    /\ parser \in Parsers
    /\ tm \in 0 .. 10 * Width + 9
    /\ digit_cnt \in 0 .. MAX_DIGIT_CNT
    /\ detect \in BOOLEAN /\ over \in BOOLEAN
    /\ exact \in Nat
    /\ res \in {"reading", "refused", "returned"}

\* A number that is returned is the one in the request, however long and with
\* whatever zeros before it: the register never wraps around.
AcceptsTheValue == res = "returned" => tm = exact

\* A function has stopped by the end of its field, also of an empty one; it
\* never reads the number of the next.
EndsInField == over => res # "reading"

\* Every number of the width is read, up to the largest: none is lost to the
\* comparison that keeps the larger ones out.
EveryU16IsRead == parser = "StrToU16" /\ over /\ detect /\ exact <= 65535 => res = "returned"
EveryU32IsRead == parser \in {"StrToU32Def", "StrToU32"} /\ over /\ detect /\ exact < Width => res = "returned"
=============================================================================
