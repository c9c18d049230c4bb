------------------------------ MODULE MCLinks -------------------------------
(***************************************************************************)
(* The requests of the control unit and of the DVT client, the numbers in them*)
(* and the messages between tasks, on small instances.  The components share*)
(* no variable; in every behaviour one of them, `part', moves (MCSettings).*)
(***************************************************************************)
EXTENDS Naturals

VARIABLES
    part,   \* the component that moves
    \* of KursLink
    processor, rx, serving, slow, made, kursLine, kursNumber, kursAnswer, acted,
    intact, disturbed, kursFaults,
    \* of DvtLink
    dvt_processor, pc, write, taken, dvtAnswer, client, dvtNumber, dvtLine,
    gap, clean, checked, crossed, dvtFaults,
    \* of KursNumbers
    parser, tm, digit_cnt, detect, res, exact, over,
    \* of Mailbox
    tasks, mailbox_head, mailbox_tail, mailbox_count, next, previous, dst,
    data_size, room, allocated, s_task_msg, scnr, msg_tail, caller

Kurs == INSTANCE KursLink WITH
    Cap <- 9, Noise <- {"sop", "eop", "free", "data"}, Length <- 3, Packets <- 2,
    Free <- {2}, MaxFaults <- 2, line <- kursLine, number <- kursNumber,
    answer <- kursAnswer, faults <- kursFaults

Dvt == INSTANCE DvtLink WITH
    Cap <- 12, Noise <- {0, 3, 6}, Packets <- 2, MaxFaults <- 1,
    answer <- dvtAnswer, number <- dvtNumber, line <- dvtLine,
    faults <- dvtFaults

Number == INSTANCE KursNumbers WITH
    Parsers <- {"StrToU16", "StrToU32Def"}, Digits <- {0, 3, 5, 6, 9},
    MaxDigits <- 7

Mail == INSTANCE Mailbox WITH
    Handles <- {"t1", "t2"}, Messages <- {"m1", "m2", "m3"}, NULL <- "null",
    Sizes <- {2}

ASSUME LinksAssumption ==
    /\ Kurs!KursLinkAssumption
    /\ Dvt!DvtLinkAssumption
    /\ Number!KursNumbersAssumption
    /\ Mail!MailboxAssumption

kursVars == <<processor, rx, serving, slow, made, kursLine, kursNumber,
              kursAnswer, acted, intact, disturbed, kursFaults>>
dvtVars == <<dvt_processor, pc, write, taken, dvtAnswer, client, dvtNumber,
             dvtLine, gap, clean, checked, crossed, dvtFaults>>
numbersVars == <<parser, tm, digit_cnt, detect, res, exact, over>>
mailboxVars == <<tasks, mailbox_head, mailbox_tail, mailbox_count, next,
                 previous, dst, data_size, room, allocated, s_task_msg, scnr,
                 msg_tail, caller>>
vars == <<part, kursVars, dvtVars, numbersVars, mailboxVars>>

Parts == {"kurs", "dvt", "numbers", "mailbox"}

TypeOK ==
    CASE part = "kurs" -> Kurs!TypeOK
      [] part = "dvt" -> Dvt!TypeOK
      [] part = "numbers" -> Number!TypeOK
      [] part = "mailbox" -> Mail!TypeOK

-----------------------------------------------------------------------------
\* A component that does not move begins in one of its initial states.
Init ==
    /\ part \in Parts
    /\ Kurs!Init
    /\ Dvt!Init
    /\ Number!Init
    /\ part # "numbers" => parser = "StrToU16"
    /\ Mail!Init
    /\ part # "mailbox" => tasks = {} /\ dst["m1"] = "t1"

\* The others stay as they are.
OnlyPartMoves ==
    /\ UNCHANGED part
    /\ part # "kurs" => UNCHANGED kursVars
    /\ part # "dvt" => UNCHANGED dvtVars
    /\ part # "numbers" => UNCHANGED numbersVars
    /\ part # "mailbox" => UNCHANGED mailboxVars

Next ==
    /\ \/ part = "kurs" /\ Kurs!Next
       \/ part = "dvt" /\ Dvt!Next
       \/ part = "numbers" /\ Number!Next
       \/ part = "mailbox" /\ Mail!Next
    /\ OnlyPartMoves

\* That of each component, while it moves.
Fairness ==
    /\ WF_kursVars(part = "kurs" /\ Kurs!Receive)
    /\ WF_kursVars(part = "kurs" /\ Kurs!Serve)
    /\ WF_kursVars(part = "kurs" /\ Kurs!Reply)
    /\ WF_kursVars(part = "kurs" /\ Kurs!Deliver)
    /\ WF_kursVars(part = "kurs" /\ Kurs!GiveUp)
    /\ SF_kursVars(part = "kurs" /\ Kurs!Poll)
    /\ WF_dvtVars(part = "dvt" /\ Dvt!Main)
    /\ WF_dvtVars(part = "dvt" /\ Dvt!ReceiveByte)
    /\ WF_dvtVars(part = "dvt" /\ Dvt!Request)
    /\ WF_dvtVars(part = "dvt" /\ Dvt!GiveUp)

Spec == Init /\ [][Next]_vars /\ Fairness

-----------------------------------------------------------------------------
\* What a request says is understood: after one packet that came whole, or a
\* request that found the receiver at rest, the client is answered, and from what
\* it sent (kurs_processor.c, ipglb_prot2_processor.c); a number is the one its
\* digits stand for, read within its field (kurs_helper.c).  And no message between
\* tasks is lost in the links of the mailbox (scheduler.c).
RequestsAreUnderstood ==
    CASE part = "kurs" -> Kurs!NextRequestAnswered /\ Kurs!MadeUpByFaults /\ Kurs!NoOverrun
      [] part = "dvt" -> Dvt!CleanRequestUnderWay /\ Dvt!AnswersChecked
      [] part = "numbers" -> Number!AcceptsTheValue /\ Number!EndsInField /\ Number!EveryU16IsRead
      [] part = "mailbox" -> Mail!NothingLost

\* No request is acted on twice, whatever was lost, damaged or overrun: the KURS
\* link implements LossySpec for the requests that come whole, a DVT answer is to
\* the request that waits, and the mailbox implements a queue for every task, each
\* called with all that was sent to it.
ActsAtMostOnce ==
    /\ Kurs!ActsAtMostOnce
    /\ Dvt!CleanAnswer
    /\ Mail!AllAreDelivered /\ Mail!IsFifo

\* After the faults of the line the unit answers again for ever, to the control
\* unit (kurs_processor.c), and to the client of the test port unless a length
\* under four made the port deaf or shifted requests go on cutting into packets
\* (ipglb_prot2_processor.c): nothing else can keep either from an answer.
KeepsAnswering ==
    /\ part = "kurs" => Kurs!KeepsAnswering
    /\ part = "dvt" => Dvt!KeepsAnswering
=============================================================================
