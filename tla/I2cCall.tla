------------------------------ MODULE I2cCall ------------------------------
(***************************************************************************)
(* What a call of the I2C driver does to the registers of a device, seen   *)
(* from its caller: a read that returns OK delivers the registers asked    *)
(* for; a write that returns OK wrote all of its bytes or none at all.  A   *)
(* call whose bytes were late promises nothing, the next one everything.   *)
(***************************************************************************)
EXTENDS Naturals, Sequences

CONSTANTS
    Register,   \* the registers of the device, 0 .. n
    New         \* the value a write brings

VARIABLES
    call,       \* what is asked for: op, off, len
    mem,        \* the registers of the device
    result,     \* what the call returned, "none" while it is under way
    buff,       \* what a read delivered
    late        \* the call did not wait for its bytes

\* What a caller may ask for.
Calls == {c \in [op : {"write", "read"}, off : Register, len : 1 .. 2] :
             c.off + c.len - 1 \in Register}

\* The outcomes of a write of len bytes: how many of them the device took.
Outcomes(len) == {o \in [taken : 0 .. len, result : {"OK", "FAIL"}] :
                     IF o.result = "OK" THEN o.taken \in {0, len} ELSE o.taken < len}

Written(m, off, n) == [r \in Register |-> IF r \in off .. off + n - 1 THEN New ELSE m[r]]

Bytes(m, off, len) == [k \in 1 .. len |-> m[off + k - 1]]

Value == Register \cup {New}

Init ==
    /\ call \in Calls
    /\ mem \in [Register -> Register]
    /\ result = "FAIL"
    /\ buff = <<>>
    /\ late = FALSE

Ask ==
    /\ result # "none"
    /\ call' \in Calls
    /\ result' = "none"
    /\ buff' = <<>>
    /\ late' = FALSE
    /\ UNCHANGED mem

Write ==
    /\ result = "none" /\ call.op = "write"
    /\ \E o \in Outcomes(call.len) :
          /\ mem' = Written(mem, call.off, o.taken)
          /\ result' = o.result
    /\ UNCHANGED <<call, buff, late>>

ReadOk ==
    /\ result = "none" /\ call.op = "read"
    /\ buff' = Bytes(mem, call.off, call.len)
    /\ result' = "OK"
    /\ UNCHANGED <<call, mem, late>>

ReadFail ==
    /\ result = "none" /\ call.op = "read"
    /\ result' = "FAIL"
    /\ UNCHANGED <<call, mem, buff, late>>

\* A call that was over before its bytes were.
Late ==
    /\ result = "none"
    /\ late' = TRUE
    /\ mem' \in [Register -> Value]
    /\ result' \in {"OK", "FAIL"}
    /\ buff' \in {<<>>} \cup [1 .. call.len -> Value]
    /\ UNCHANGED call

Spec == Init /\ [][Ask \/ Write \/ ReadOk \/ ReadFail \/ Late]_<<call, mem, result, buff, late>>
=============================================================================
