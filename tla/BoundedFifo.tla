---------------------------- MODULE BoundedFifo ----------------------------
(***************************************************************************)
(* A queue of bounded length that is emptied in the order it was filled.   *)
(* The transmit queue to the ARM (queue_data_to_arm and                    *)
(* callback_uart_trdy in main.c) promises FifoSpec: every character it     *)
(* accepts is put on the line exactly once, in the order of acceptance.    *)
(* The link to the control unit promises LossySpec: requests are acted on  *)
(* in the order they were made; any may be lost, but none is acted on      *)
(* twice and none is made up.                                              *)
(***************************************************************************)
EXTENDS Naturals, Sequences

CONSTANTS
    Element,    \* what is queued
    Capacity,   \* the length of a full queue
    Nothing,    \* what has been taken at first
    Note(_, _)  \* what has been taken, with one element more

VARIABLES
    queue,      \* put and not yet taken, the oldest first
    taken       \* what is known of the elements taken

fifoVars == <<queue, taken>>

FifoInit ==
    /\ queue = <<>>
    /\ taken = Nothing

Put ==
    /\ Len(queue) < Capacity
    /\ \E e \in Element : queue' = Append(queue, e)
    /\ UNCHANGED taken

Take ==
    /\ queue # <<>>
    /\ taken' = Note(taken, Head(queue))
    /\ queue' = Tail(queue)

\* One or more in a row.
Lose ==
    /\ \E i, j \in 1 .. Len(queue) :
          i <= j /\ queue' = SubSeq(queue, 1, i - 1) \o SubSeq(queue, j + 1, Len(queue))
    /\ UNCHANGED taken

FifoSpec == FifoInit /\ [][Put \/ Take]_fifoVars

LossySpec == FifoInit /\ [][Put \/ Take \/ Lose]_fifoVars
=============================================================================
