------------------------- MODULE RemoteUpdateProofs -------------------------
(***************************************************************************)
(* Proofs about the remote update, for every size of the area, every set   *)
(* of images and any number of uploads, repeats, losses and failures.      *)
(***************************************************************************)
EXTENDS RemoteUpdate, FiniteSetTheorems, TLAPS

-----------------------------------------------------------------------------
(* Types *)

\* The boot copier chooses the area only if its header is that of an image.
LEMMA ChosenIsImage ==
    ASSUME NEW a, PickFlashImage(FactoryHeader, AreaHeader(a)) = 2
    PROVE  a[1][1] \in Images
  <1>1. Valid(AreaHeader(a))
    BY DEF PickFlashImage
  <1>2. AreaHeader(a).signature
    BY <1>1 DEF Valid, ValidateFlashImage, CRCS_VALID, SIGNATURE_INVALID
  <1>3. \E img \in Images : a[1] = <<img, 1>>
    BY <1>2 DEF AreaHeader
  <1>4. QED
    BY <1>3

\* What the program starts with.
Fresh ==
    /\ running' \in {"factory"} \cup Images
    /\ bFwUpdateStarted' = FALSE /\ bVerifyIdent' = TRUE
    /\ dwCurFwAddr' = 1 /\ since' = 2 /\ dwLastTimeout' = 0
    /\ reboot_nios' = FALSE /\ main' = "scan" /\ request' = None

LEMMA BootsFresh ==
    ASSUME NEW a, Boots(a)
    PROVE  Fresh
  BY ChosenIsImage DEF Boots, StaticsInit, Fresh

\* A reply that is put on the line is typed.
LEMMA AnswersTypes ==
    ASSUME TypeOK, NEW r \in Reply, Answers(r)
    PROVE  replies' \in Seq(Reply) /\ Len(replies') <= MaxReplies
  BY RemoteUpdateAssumption DEF TypeOK, Answers

\* The flash keeps its contents, and what it refused, in their types.
FlashTypes ==
    /\ area' \in [1 .. NBlocks -> Content]
    /\ refused' \subseteq 1 .. NBlocks /\ faults' \in 0 .. MaxFaults

LEMMA ErasesTypes ==
    ASSUME TypeOK, Erases
    PROVE  FlashTypes
  <1> USE RemoteUpdateAssumption
  <1>1. PICK left \in SUBSET (1 .. ErasedBlocks), part \in SUBSET (1 .. ErasedBlocks) :
            /\ refused' = left \cup part
            /\ faults' = faults + Cardinality(left \cup part)
            /\ faults' <= MaxFaults
            /\ area' = EraseProgCopy(area, left, part)
    BY DEF Erases
  <1>2. left \cup part \subseteq 1 .. ErasedBlocks /\ 1 .. ErasedBlocks \subseteq 1 .. NBlocks
    OBVIOUS
  <1>3. Cardinality(left \cup part) \in Nat
    <2>1. IsFiniteSet(1 .. ErasedBlocks)
      BY FS_Interval
    <2>2. IsFiniteSet(left \cup part)
      BY <1>2, <2>1, FS_Subset
    <2>3. QED
      BY <2>2, FS_CardinalityType
  <1>4. faults' \in 0 .. MaxFaults
    BY <1>1, <1>3 DEF TypeOK
  <1>5. area' \in [1 .. NBlocks -> Content]
    BY <1>1 DEF TypeOK, EraseProgCopy, Content
  <1>6. QED
    BY <1>1, <1>2, <1>4, <1>5 DEF FlashTypes

LEMMA WritesTypes ==
    ASSUME TypeOK, NEW b \in 1 .. NBlocks, NEW new \in Content, Writes(b, new)
    PROVE  FlashTypes
  <1> USE RemoteUpdateAssumption
  <1>1. Programmed(area[b], new) \in Content /\ Garbage \in Content
    BY DEF Programmed, Content
  <1>2. area' \in [1 .. NBlocks -> Content]
    BY <1>1 DEF TypeOK, Writes
  <1>3. refused' \subseteq 1 .. NBlocks
    BY DEF TypeOK, Writes
  <1>4. faults' \in 0 .. MaxFaults
    BY DEF TypeOK, Writes
  <1>5. QED
    BY <1>2, <1>3, <1>4 DEF FlashTypes

\* A power failure leaves blocks of the area as they were, erased or garbage.
LEMMA TornTypes ==
    ASSUME TypeOK, NEW a \in TornErase \cup TornWrite
    PROVE  a \in [1 .. NBlocks -> Content]
  BY RemoteUpdateAssumption DEF TypeOK, TornErase, TornWrite, Content

LEMMA InitTypeOK == Init => TypeOK
  <1> SUFFICES ASSUME Init PROVE TypeOK
    OBVIOUS
  <1>1. area \in [1 .. NBlocks -> Content]
    BY DEF Init, Content
  <1>2. /\ bFwUpdateStarted = FALSE /\ bVerifyIdent = TRUE
        /\ dwCurFwAddr = 1 /\ since = 2 /\ dwLastTimeout = 0
    BY DEF Init, StaticsInit
  <1>3. replies \in Seq(Reply) /\ Len(replies) <= MaxReplies
    BY RemoteUpdateAssumption DEF Init
  <1>4. 1 \in 1 .. NBlocks + 1
    BY RemoteUpdateAssumption
  <1>5. /\ cu.phase = "idle"
        /\ cu \in [phase : {"idle"}, img : {None}, pos : {1}]
    BY DEF Init
  <1>6. /\ bFwUpdateStarted \in BOOLEAN /\ bVerifyIdent \in BOOLEAN /\ reboot_nios \in BOOLEAN
    BY <1>2 DEF Init
  <1>7. refused \subseteq 1 .. NBlocks /\ faults \in 0 .. MaxFaults
    BY RemoteUpdateAssumption DEF Init
  <1>8. QED
    BY <1>1, <1>2, <1>3, <1>4, <1>5, <1>6, <1>7 DEF Init, TypeOK

LEMMA NextTypeOK == TypeOK /\ [Next]_vars => TypeOK'
  <1> SUFFICES ASSUME TypeOK, [Next]_vars PROVE TypeOK'
    OBVIOUS
  <1> USE RemoteUpdateAssumption
  <1>1. CASE Reject
    <2>1. CASE UNCHANGED replies
      BY <1>1, <2>1 DEF TypeOK, Reject, Handles, statics, flash, counters
    <2>2. CASE Answers([kind |-> "NA"])
      <3>1. [kind |-> "NA"] \in Reply
        BY DEF Reply
      <3>2. QED
        BY <1>1, <2>2, <3>1, AnswersTypes DEF TypeOK, Reject, Handles, statics, flash, counters
    <2>3. QED
      BY <1>1, <2>1, <2>2 DEF Reject
  <1>2. CASE Inform
    <2>1. [kind |-> "INFO"] \in Reply
      BY DEF Reply
    <2>2. QED
      BY <1>2, <2>1, AnswersTypes DEF TypeOK, Inform, Handles, statics, flash, counters
  <1>3. CASE DisableSignature
    <2>1. [kind |-> "INFO"] \in Reply
      BY DEF Reply
    <2>2. QED
      BY <1>3, <2>1, AnswersTypes DEF TypeOK, DisableSignature, Handles, flash, counters
  <1>4. CASE HexLoad
    <2>1. [kind |-> "ADDR", addr |-> 1] \in Reply
      BY DEF Reply
    <2>2. FlashTypes
      BY <1>4, ErasesTypes DEF HexLoad
    <2>3. QED
      BY <1>4, <2>1, <2>2, AnswersTypes DEF TypeOK, HexLoad, Handles, FlashTypes
  <1>5. CASE Expire
    <2>1. [kind |-> "EFINISH"] \in Reply
      BY DEF Reply
    <2>2. QED
      BY <1>5, <2>1, AnswersTypes DEF TypeOK, Expire, Handles, flash, counters
  <1>6. CASE Finish
    <2>1. [kind |-> "EFINISH"] \in Reply /\ [kind |-> "COMPLETE"] \in Reply
      BY DEF Reply
    <2>2. replies' \in Seq(Reply) /\ Len(replies') <= MaxReplies
      BY <1>6, <2>1, AnswersTypes DEF Finish
    <2>3. FlashTypes
      <3>1. CASE UNCHANGED <<flash, faults>>
        BY <3>1 DEF TypeOK, FlashTypes, flash
      <3>2. CASE Writes(NBlocks, Garbage)
        BY <3>2, WritesTypes DEF Content
      <3>3. QED
        BY <1>6, <3>1, <3>2 DEF Finish
    <2>4. QED
      BY <1>6, <2>2, <2>3 DEF TypeOK, Finish, Handles, FlashTypes
  <1>7. CASE Block
    <2>1. request \in Request /\ request.cmd = "BLOCK"
      BY <1>7 DEF TypeOK, Block, Handles
    <2>2. request.img \in Images /\ request.addr \in 1 .. NBlocks + 1
      BY <2>1 DEF Request
    <2>3. dwCurFwAddr' \in 1 .. NBlocks + 1
      <3>1. dwCurFwAddr' = dwCurFwAddr \/ (dwCurFwAddr <= NBlocks /\ dwCurFwAddr' = dwCurFwAddr + 1)
        BY <1>7 DEF Block
      <3>2. dwCurFwAddr \in 1 .. NBlocks + 1
        BY DEF TypeOK
      <3>3. QED
        BY <3>1, <3>2
    <2>4. replies' \in Seq(Reply) /\ Len(replies') <= MaxReplies
      <3>1. [kind |-> "EFINISH"] \in Reply
        BY DEF Reply
      <3>2. [kind |-> "ADDR", addr |-> dwCurFwAddr] \in Reply
        BY DEF Reply, TypeOK
      <3>3. [kind |-> "ADDR", addr |-> dwCurFwAddr'] \in Reply
        BY <2>3 DEF Reply
      <3>4. QED
        BY <1>7, <3>1, <3>2, <3>3, AnswersTypes DEF Block
    <2>5. FlashTypes
      <3>1. CASE UNCHANGED <<flash, faults>>
        BY <3>1 DEF TypeOK, FlashTypes, flash
      <3>2. CASE /\ request.addr = dwCurFwAddr
                 /\ dwCurFwAddr <= NBlocks
                 /\ Writes(dwCurFwAddr, <<request.img, request.addr>>)
        <4>1. <<request.img, request.addr>> \in Content /\ dwCurFwAddr \in 1 .. NBlocks
          BY <2>2, <3>2 DEF Content
        <4>2. QED
          BY <3>2, <4>1, WritesTypes
      <3>3. QED
        BY <1>7, <3>1, <3>2 DEF Block
    <2>6. request' = None /\ bFwUpdateStarted' \in BOOLEAN /\ since' = 0 /\ dwLastTimeout' = 0
      BY <1>7 DEF Block, Handles, TypeOK
    <2>7. UNCHANGED <<bVerifyIdent, reboot_nios, main, running, cu>>
      BY <1>7 DEF Block
    <2>8. QED
      BY <2>3, <2>4, <2>5, <2>6, <2>7 DEF TypeOK, FlashTypes
  <1>8. CASE NoSession
    <2>1. [kind |-> "NA"] \in Reply
      BY DEF Reply
    <2>2. QED
      BY <1>8, <2>1, AnswersTypes DEF TypeOK, NoSession, Handles, statics, flash, counters
  <1>9. CASE TimePasses
    BY <1>9 DEF TypeOK, TimePasses, flash, counters
  <1>10. CASE CheckImage
    BY <1>10 DEF TypeOK, CheckImage, statics, flash, counters
  <1>11. CASE ResetNios
    <2>1. Boots(area) /\ UNCHANGED <<area, refused, faults, replies, cu>>
      BY <1>11 DEF ResetNios, flash, counters
    <2>2. 1 \in 1 .. NBlocks + 1
      OBVIOUS
    <2>3. Fresh
      BY <2>1, BootsFresh
    <2>4. bFwUpdateStarted' \in BOOLEAN /\ bVerifyIdent' \in BOOLEAN /\ reboot_nios' \in BOOLEAN
      BY <2>3 DEF Fresh
    <2>5. QED
      BY <2>1, <2>2, <2>3, <2>4 DEF TypeOK, Fresh
  <1>12. CASE PowerFails
    <2>1. area' \in [1 .. NBlocks -> Content]
      BY <1>12, TornTypes DEF TypeOK, PowerFails
    <2>2. QED
      <3>1. /\ Boots(area') /\ replies' = <<>> /\ UNCHANGED <<refused, cu>>
            /\ faults' \in 0 .. MaxFaults
        BY <1>12 DEF TypeOK, PowerFails
      <3>2. 1 \in 1 .. NBlocks + 1
        OBVIOUS
      <3>3. replies' \in Seq(Reply) /\ Len(replies') <= MaxReplies
        BY <3>1
      <3>4. Fresh
        BY <3>1, BootsFresh
      <3>5. bFwUpdateStarted' \in BOOLEAN /\ bVerifyIdent' \in BOOLEAN /\ reboot_nios' \in BOOLEAN
        BY <3>4 DEF Fresh
      <3>6. QED
        BY <2>1, <3>1, <3>2, <3>3, <3>4, <3>5 DEF TypeOK, Fresh
  <1>13. CASE CuStart
    <2>1. cu' \in [phase : {"load"}, img : Images, pos : {1}]
      BY <1>13 DEF CuStart
    <2>2. QED
      BY <1>13, <2>1 DEF TypeOK, CuStart, UnitUnchanged, statics, flash
  <1>14. CASE CuAsk
    <2>1. request' \in Request
      BY <1>14 DEF CuAsk, Request
    <2>2. QED
      BY <1>14, <2>1 DEF TypeOK, CuAsk, UnitUnchanged, statics, flash, counters
  <1>15. CASE CuSend
    <2>1. request' \in Request
      BY <1>15 DEF CuSend, Request, TypeOK
    <2>2. QED
      BY <1>15, <2>1 DEF TypeOK, CuSend, UnitUnchanged, statics, flash, counters
  <1>16. CASE CuReceive
    <2>1. replies' \in Seq(Reply) /\ Len(replies') <= MaxReplies /\ Head(replies) \in Reply
      BY <1>16 DEF TypeOK, CuReceive
    <2>2. /\ cu' \in [phase : {"idle", "load", "blocks", "finish", "complete", "failed"},
                      img : Images \cup {None}, pos : 1 .. NBlocks + 1]
          /\ cu'.phase = "idle" \/ cu'.img \in Images
      BY <1>16, <2>1 DEF TypeOK, CuReceive, After, Reply, Resting
    <2>3. QED
      BY <1>16, <2>1, <2>2 DEF TypeOK, CuReceive, UnitUnchanged, statics, flash, counters
  <1>17. CASE CuGivesUp
    BY <1>17 DEF TypeOK, CuGivesUp, Resting, UnitUnchanged, statics, flash, counters
  <1>18. CASE LineFails
    <2>1. request' \in Request \cup {None}
      BY <1>18 DEF TypeOK, LineFails, Request
    <2>2. replies' \in Seq(Reply) /\ Len(replies') <= MaxReplies
      <3>1. replies' = replies \/ (replies # <<>> /\ replies' = Tail(replies))
        BY <1>18 DEF LineFails
      <3>2. replies \in Seq(Reply) /\ Len(replies) <= MaxReplies /\ MaxReplies \in Nat
        BY DEF TypeOK
      <3>3. replies # <<>> => Tail(replies) \in Seq(Reply) /\ Len(Tail(replies)) = Len(replies) - 1
        BY <3>2
      <3>4. Len(replies) \in Nat
        BY <3>2
      <3>5. QED
        BY <3>1, <3>2, <3>3, <3>4
    <2>3. QED
      BY <1>18, <2>1, <2>2 DEF TypeOK, LineFails, UnitUnchanged, statics, flash, counters
  <1>19. CASE UNCHANGED vars
    BY <1>19 DEF TypeOK, vars, statics, flash, counters
  <1>20. QED
    BY <1>1, <1>2, <1>3, <1>4, <1>5, <1>6, <1>7, <1>8, <1>9, <1>10, <1>11, <1>12,
       <1>13, <1>14, <1>15, <1>16, <1>17, <1>18, <1>19 DEF Next, Handle

\* The handler and the boot keep their state in its types; above all the
\* number of the next block stays within the area and one behind it.
THEOREM TypeCorrect == Spec => []TypeOK
  BY InitTypeOK, NextTypeOK, PTL DEF Spec

-----------------------------------------------------------------------------
(* What a CU is told is written: the inductive invariant.  It speaks of    *)
(* the upload the CU is at, if its image fits the sectors that are erased. *)

Fits == cu.img \in Images /\ Attr[cu.img].len <= ErasedBlocks
Length == Attr[cu.img].len

\* The blocks that replies still on the line ask for.
Told == {n \in 1 .. NBlocks + 1 :
            \E i \in DOMAIN replies : replies[i].kind = "ADDR" /\ replies[i].addr = n}

NoComplete == \A i \in DOMAIN replies : replies[i].kind # "COMPLETE"

\* The request that waits is one of cmds, or damaged.
Asks(cmds) == request # None => request.cmd \in {"SHORT", "CORRUPT"} \cup cmds

Pending(cmd) == request # None /\ request.cmd = cmd

\* The image is in the flash up to block n; the flash from n on is erased.
\* What the flash refused is excepted.
Upto(n) == \A b \in 1 .. n - 1 : b \in refused \/ area[b] = <<cu.img, b>>
Blank(n) == \A b \in n .. ErasedBlocks : b \in refused \/ area[b] = Erased

\* While an answer to HEXLOAD is on the line an open session is a fresh one.
LoadInv ==
    /\ Asks({"HEXLOAD"})
    /\ NoComplete
    /\ Told \subseteq {1}
    /\ (Told # {} /\ bFwUpdateStarted) => (dwCurFwAddr = 1 /\ Blank(1))

\* Where the unit is: not behind the CU nor behind what it told it.
SessionInv ==
    bFwUpdateStarted =>
        /\ cu.pos <= dwCurFwAddr /\ dwCurFwAddr <= Length + 1
        /\ \A n \in Told : n <= dwCurFwAddr
        /\ Upto(dwCurFwAddr) /\ Blank(dwCurFwAddr)

TransferInv ==
    /\ SessionInv
    /\ Upto(cu.pos)
    /\ \A n \in Told : n <= Length + 1 /\ Upto(n)
    /\ Pending("BLOCK") => (request.img = cu.img /\ request.addr <= Length)

\* A HEXLOAD that was repeated is handled before the CU is past block 1.
BlocksInv ==
    /\ TransferInv
    /\ cu.pos <= Length
    /\ Asks({"HEXLOAD", "BLOCK"})
    /\ Pending("HEXLOAD") => (cu.pos = 1 /\ Told \subseteq {1})
    /\ NoComplete

\* A block that was repeated is handled before a FINISH.
FinishInv ==
    /\ TransferInv
    /\ cu.pos = Length + 1
    /\ Asks({"BLOCK", "FINISH"})
    /\ Pending("BLOCK") => NoComplete

CompleteInv ==
    /\ Upto(Length + 1)
    /\ Asks({"FINISH", "FWCONFIG", "DISABLESIGNATURE"})

UInv ==
    Fits =>
        /\ cu.phase = "load" => LoadInv
        /\ cu.phase = "blocks" => BlocksInv
        /\ cu.phase = "finish" => FinishInv
        /\ cu.phase = "complete" => CompleteInv

-----------------------------------------------------------------------------
(* The replies on the line *)

\* An answer that names block n adds n to what the CU is told.
LEMMA AnswersAddr ==
    ASSUME TypeOK, NEW n \in 1 .. NBlocks + 1, Answers([kind |-> "ADDR", addr |-> n])
    PROVE  Told' = Told \cup {n} /\ (NoComplete => NoComplete')
  <1> DEFINE r == [kind |-> "ADDR", addr |-> n]
  <1>1. /\ DOMAIN replies' = 1 .. Len(replies) + 1
        /\ DOMAIN replies = 1 .. Len(replies) /\ Len(replies) \in Nat
        /\ replies'[Len(replies) + 1] = r
        /\ \A i \in 1 .. Len(replies) : replies'[i] = replies[i]
    BY DEF TypeOK, Answers
  <1>2. r.kind = "ADDR" /\ r.addr = n
    OBVIOUS
  <1> HIDE DEF r
  <1>3. Told' = Told \cup {n}
    BY <1>1, <1>2 DEF Told
  <1>4. NoComplete => NoComplete'
    BY <1>1, <1>2 DEF NoComplete
  <1>5. QED
    BY <1>3, <1>4

\* Any other answer tells it no block.
LEMMA AnswersOther ==
    ASSUME TypeOK, NEW k \in {"NA", "INFO", "EFINISH", "COMPLETE"}, Answers([kind |-> k])
    PROVE  Told' = Told /\ (NoComplete /\ k # "COMPLETE" => NoComplete')
  <1> DEFINE r == [kind |-> k]
  <1>1. /\ DOMAIN replies' = 1 .. Len(replies) + 1
        /\ DOMAIN replies = 1 .. Len(replies) /\ Len(replies) \in Nat
        /\ replies'[Len(replies) + 1] = r
        /\ \A i \in 1 .. Len(replies) : replies'[i] = replies[i]
    BY DEF TypeOK, Answers
  <1>2. r.kind = k
    OBVIOUS
  <1> HIDE DEF r
  <1>3. Told' = Told
    BY <1>1, <1>2 DEF Told
  <1>4. NoComplete /\ k # "COMPLETE" => NoComplete'
    BY <1>1, <1>2 DEF NoComplete
  <1>5. QED
    BY <1>3, <1>4

\* A reply that is taken, or lost, leaves the others.
LEMMA TakesReply ==
    ASSUME TypeOK, replies # <<>>, replies' = Tail(replies)
    PROVE  /\ Told' \subseteq Told /\ (NoComplete => NoComplete')
           /\ Head(replies) \in Reply
           /\ Head(replies).kind = "ADDR" => Head(replies).addr \in Told
           /\ NoComplete => Head(replies).kind # "COMPLETE"
  <1>1. /\ DOMAIN replies' = 1 .. Len(replies) - 1
        /\ DOMAIN replies = 1 .. Len(replies) /\ Len(replies) \in Nat \ {0}
        /\ \A i \in 1 .. Len(replies) - 1 : replies'[i] = replies[i + 1]
        /\ Head(replies) = replies[1]
        /\ replies[1] \in Reply
    BY DEF TypeOK
  <1>2. Told' \subseteq Told
    BY <1>1 DEF Told
  <1>3. NoComplete => NoComplete' /\ replies[1].kind # "COMPLETE"
    BY <1>1 DEF NoComplete
  <1>4. replies[1].kind = "ADDR" => replies[1].addr \in 1 .. NBlocks + 1
    BY <1>1 DEF Reply
  <1>5. replies[1].kind = "ADDR" => replies[1].addr \in Told
    BY <1>1, <1>4 DEF Told
  <1>6. QED
    BY <1>1, <1>2, <1>3, <1>5

LEMMA NoReplies == replies = <<>> => Told = {} /\ NoComplete
  BY DEF Told, NoComplete

\* Numbers of the upload, typed.
LEMMA Numbers ==
    ASSUME TypeOK, Fits
    PROVE  /\ Length \in 1 .. ErasedBlocks /\ ErasedBlocks \in Nat /\ NBlocks \in Nat
           /\ ErasedBlocks < NBlocks
           /\ cu.pos \in 1 .. NBlocks + 1 /\ dwCurFwAddr \in 1 .. NBlocks + 1
  BY RemoteUpdateAssumption DEF TypeOK, Fits, Length

-----------------------------------------------------------------------------
(* The steps *)

\* Steps that leave the CU and the flash alone, open no session, tell no
\* new block and send no new command.
Quiet ==
    /\ cu' = cu /\ UNCHANGED flash
    /\ bFwUpdateStarted' => (bFwUpdateStarted /\ dwCurFwAddr' = dwCurFwAddr)
    /\ request' = request \/ request' = None \/ request'.cmd \in {"SHORT", "CORRUPT"}
    /\ Told' \subseteq Told
    /\ NoComplete => NoComplete'

LEMMA QuietKeeps == UInv /\ Quiet => UInv'
  <1> SUFFICES ASSUME UInv, Quiet, Fits' PROVE UInv'
    BY DEF UInv
  <1>1. Fits /\ Length' = Length
    BY DEF Fits, Length, Quiet
  <1>2. \A n : (Upto(n)' <=> Upto(n)) /\ (Blank(n)' <=> Blank(n))
    BY DEF Upto, Blank, Quiet, flash
  <1>3. \A cmds : Asks(cmds) => Asks(cmds)'
    BY DEF Asks, Quiet
  <1>4. \A cmd \in {"BLOCK", "HEXLOAD"} : Pending(cmd)' => Pending(cmd) /\ request' = request
    BY DEF Pending, Quiet
  <1>5. CASE cu.phase = "load"
    BY <1>1, <1>2, <1>3, <1>5 DEF UInv, LoadInv, Quiet
  <1>6. TransferInv => TransferInv'
    BY <1>1, <1>2, <1>4 DEF TransferInv, SessionInv, Quiet
  <1>7. CASE cu.phase = "blocks"
    BY <1>1, <1>3, <1>4, <1>6, <1>7 DEF UInv, BlocksInv, Quiet
  <1>8. CASE cu.phase = "finish"
    BY <1>1, <1>3, <1>4, <1>6, <1>8 DEF UInv, FinishInv, Quiet
  <1>9. CASE cu.phase = "complete"
    BY <1>1, <1>2, <1>3, <1>9 DEF UInv, CompleteInv, Quiet
  <1>10. QED
    BY <1>5, <1>7, <1>8, <1>9 DEF UInv, Quiet

\* An answer that is no block leaves what the CU is told.
LEMMA QuietAnswer ==
    ASSUME TypeOK, NEW k \in {"NA", "INFO", "EFINISH"}, Answers([kind |-> k])
    PROVE  Told' \subseteq Told /\ (NoComplete => NoComplete')
  BY AnswersOther

LEMMA SameReplies ==
    ASSUME replies' = replies
    PROVE  Told' \subseteq Told /\ (NoComplete => NoComplete')
  BY DEF Told, NoComplete

LEMMA RejectQuiet == TypeOK /\ Reject => Quiet
  <1> SUFFICES ASSUME TypeOK, Reject PROVE Quiet
    OBVIOUS
  <1>1. Told' \subseteq Told /\ (NoComplete => NoComplete')
    BY QuietAnswer, SameReplies DEF Reject
  <1>2. QED
    BY <1>1 DEF Reject, Handles, Quiet, statics

LEMMA InformQuiet == TypeOK /\ (Inform \/ DisableSignature) => Quiet
  <1> SUFFICES ASSUME TypeOK, Inform \/ DisableSignature PROVE Quiet
    OBVIOUS
  <1>1. Told' \subseteq Told /\ (NoComplete => NoComplete')
    BY QuietAnswer DEF Inform, DisableSignature
  <1>2. QED
    BY <1>1 DEF Inform, DisableSignature, Handles, Quiet, statics

LEMMA ExpireQuiet == TypeOK /\ (Expire \/ NoSession) => Quiet
  <1> SUFFICES ASSUME TypeOK, Expire \/ NoSession PROVE Quiet
    OBVIOUS
  <1>1. Told' \subseteq Told /\ (NoComplete => NoComplete')
    BY QuietAnswer DEF Expire, NoSession
  <1>2. QED
    BY <1>1 DEF Expire, NoSession, Handles, Quiet, statics

LEMMA MainQuiet ==
    TypeOK /\ (TimePasses \/ CheckImage \/ ResetNios \/ UNCHANGED vars) => Quiet
  <1> SUFFICES ASSUME TypeOK, TimePasses \/ CheckImage \/ ResetNios \/ UNCHANGED vars
               PROVE  Quiet
    OBVIOUS
  <1>1. replies' = replies /\ cu' = cu /\ UNCHANGED flash
    BY DEF TimePasses, CheckImage, ResetNios, vars
  <1>2. ResetNios => Fresh
    BY BootsFresh DEF ResetNios
  <1>3. QED
    BY <1>1, <1>2, SameReplies DEF TimePasses, CheckImage, vars, statics, Fresh, Quiet

LEMMA LineQuiet == TypeOK /\ LineFails => Quiet
  <1> SUFFICES ASSUME TypeOK, LineFails PROVE Quiet
    OBVIOUS
  <1>1. Told' \subseteq Told /\ (NoComplete => NoComplete')
    BY SameReplies, TakesReply DEF LineFails
  <1>2. QED
    BY <1>1 DEF LineFails, UnitUnchanged, statics, Quiet

LEMMA HexLoadKeeps == TypeOK /\ UInv /\ HexLoad => UInv'
  <1> SUFFICES ASSUME TypeOK, UInv, HexLoad, Fits' PROVE UInv'
    BY DEF UInv
  <1>1. /\ cu' = cu /\ bFwUpdateStarted' = TRUE /\ dwCurFwAddr' = 1 /\ request' = None
        /\ Pending("HEXLOAD") /\ Answers([kind |-> "ADDR", addr |-> 1])
    BY DEF HexLoad, Handles, Pending
  <1>2. Fits /\ Length' = Length
    BY <1>1 DEF Fits, Length
  <1>3. Told' = Told \cup {1} /\ (NoComplete => NoComplete')
    BY <1>1, <1>2, Numbers, AnswersAddr
  <1>4. Blank(1)' /\ Upto(1)'
    <2>1. PICK left \in SUBSET (1 .. ErasedBlocks), part \in SUBSET (1 .. ErasedBlocks) :
              refused' = left \cup part /\ area' = EraseProgCopy(area, left, part)
      BY DEF HexLoad, Erases
    <2>2. QED
      BY <1>2, <2>1, Numbers DEF EraseProgCopy, Blank, Upto
  <1>5. \A cmds : Asks(cmds)'
    BY <1>1 DEF Asks
  <1>6. cu.phase # "finish" /\ cu.phase # "complete"
    BY <1>1, <1>2 DEF UInv, FinishInv, CompleteInv, Asks, Pending
  <1>7. CASE cu.phase = "load"
    BY <1>1, <1>2, <1>3, <1>4, <1>5, <1>7 DEF UInv, LoadInv
  <1>8. CASE cu.phase = "blocks"
    <2>1. cu.pos = 1 /\ Told' \subseteq {1} /\ NoComplete'
      BY <1>1, <1>2, <1>3, <1>8 DEF UInv, BlocksInv
    <2>2. TransferInv'
      BY <1>1, <1>2, <1>4, <2>1, Numbers DEF TransferInv, SessionInv, Pending
    <2>3. QED
      BY <1>1, <1>2, <1>5, <1>8, <2>1, <2>2, Numbers DEF UInv, BlocksInv, Pending
  <1>9. QED
    BY <1>1, <1>6, <1>7, <1>8 DEF UInv

LEMMA FinishKeeps == TypeOK /\ UInv /\ Finish => UInv'
  <1> SUFFICES ASSUME TypeOK, UInv, Finish, Fits' PROVE UInv'
    BY DEF UInv
  <1>1. /\ cu' = cu /\ bFwUpdateStarted' = FALSE /\ request' = None /\ Pending("FINISH")
    BY DEF Finish, Handles, Pending
  <1>2. Fits /\ Length' = Length
    BY <1>1 DEF Fits, Length
  <1>3. refused \subseteq refused' /\ \A b \in 1 .. ErasedBlocks : area'[b] = area[b]
    BY <1>2, Numbers DEF Finish, Writes, TypeOK, flash
  <1>4. \A n \in 1 .. Length + 1 : Upto(n) => Upto(n)'
    BY <1>1, <1>2, <1>3, Numbers DEF Upto
  <1>5. Told' = Told
    BY AnswersOther DEF Finish
  <1>6. \A cmds : Asks(cmds)'
    BY <1>1 DEF Asks
  <1>7. cu.phase # "load" /\ cu.phase # "blocks"
    BY <1>1, <1>2 DEF UInv, LoadInv, BlocksInv, Asks, Pending
  <1>8. CASE cu.phase = "finish"
    <2>1. FinishInv
      BY <1>2, <1>8 DEF UInv
    <2>2. \A n \in Told : n \in 1 .. Length + 1
      BY <1>2, <2>1, Numbers DEF FinishInv, TransferInv, Told
    <2>3. TransferInv'
      BY <1>1, <1>2, <1>4, <1>5, <2>1, <2>2, Numbers
         DEF FinishInv, TransferInv, SessionInv, Pending
    <2>4. QED
      BY <1>1, <1>2, <1>6, <1>8, <2>1, <2>3 DEF UInv, FinishInv, Pending
  <1>9. CASE cu.phase = "complete"
    BY <1>1, <1>2, <1>4, <1>6, <1>9, Numbers DEF UInv, CompleteInv
  <1>10. QED
    BY <1>1, <1>7, <1>8, <1>9 DEF UInv

LEMMA BlockKeeps == TypeOK /\ UInv /\ Block => UInv'
  <1> SUFFICES ASSUME TypeOK, UInv, Block, Fits' PROVE UInv'
    BY DEF UInv
  <1>1. /\ cu' = cu /\ bFwUpdateStarted /\ request' = None /\ Pending("BLOCK")
    BY DEF Block, Handles, Pending
  <1>2. Fits /\ Length' = Length
    BY <1>1 DEF Fits, Length
  <1>3. \A cmds : Asks(cmds)'
    BY <1>1 DEF Asks
  <1>4. cu.phase # "load" /\ cu.phase # "complete"
    BY <1>1, <1>2 DEF UInv, LoadInv, CompleteInv, Asks, Pending
  <1>5. CASE cu.phase \in {"blocks", "finish"}
    <2>1. TransferInv
      BY <1>2, <1>5 DEF UInv, BlocksInv, FinishInv
    <2>2. request.img = cu.img /\ request.addr <= Length
      BY <1>1, <2>1 DEF TransferInv
    <2>3. /\ cu.pos <= dwCurFwAddr /\ dwCurFwAddr <= Length + 1
          /\ \A n \in Told : n <= dwCurFwAddr
          /\ Upto(dwCurFwAddr) /\ Blank(dwCurFwAddr)
      BY <1>1, <2>1 DEF TransferInv, SessionInv
    <2>4. TransferInv' /\ (NoComplete => NoComplete')
      <3>1. CASE request.addr # dwCurFwAddr
        <4>1. UNCHANGED <<area, refused>> /\ dwCurFwAddr' = dwCurFwAddr
              /\ Answers([kind |-> "ADDR", addr |-> dwCurFwAddr])
          BY <3>1 DEF Block, flash
        <4>2. Told' = Told \cup {dwCurFwAddr} /\ (NoComplete => NoComplete')
          BY <1>2, <4>1, Numbers, AnswersAddr
        <4>3. \A n : (Upto(n)' <=> Upto(n)) /\ (Blank(n)' <=> Blank(n))
          BY <1>1, <4>1 DEF Upto, Blank
        <4>4. TransferInv'
          BY <1>1, <1>2, <2>1, <2>3, <4>1, <4>2, <4>3, Numbers
             DEF TransferInv, SessionInv, Pending
        <4>5. QED
          BY <4>2, <4>4
      <3>2. CASE request.addr = dwCurFwAddr
        <4>1. dwCurFwAddr <= Length /\ dwCurFwAddr <= ErasedBlocks /\ dwCurFwAddr <= NBlocks
          BY <1>2, <2>2, <3>2, Numbers
        <4>2. /\ Writes(dwCurFwAddr, <<cu.img, dwCurFwAddr>>)
              /\ dwCurFwAddr' = dwCurFwAddr + 1
              /\ Answers([kind |-> "ADDR", addr |-> dwCurFwAddr + 1])
          <5>1. ~(dwCurFwAddr > NBlocks) /\ dwCurFwAddr \in Nat
            BY <1>2, <4>1, Numbers
          <5>2. /\ Writes(dwCurFwAddr, <<request.img, request.addr>>)
                /\ dwCurFwAddr' = dwCurFwAddr + 1
                /\ Answers([kind |-> "ADDR", addr |-> dwCurFwAddr'])
            BY <3>2, <5>1 DEF Block
          <5>3. QED
            BY <2>2, <3>2, <5>2
        <4>3. dwCurFwAddr \in refused \/ area[dwCurFwAddr] = Erased
          BY <1>2, <2>3, <4>1, Numbers DEF Blank
        <4>4. dwCurFwAddr \in 1 .. NBlocks /\ area \in [1 .. NBlocks -> Content]
          BY <1>2, <4>1, Numbers DEF TypeOK
        <4>5. /\ refused \subseteq refused'
              /\ dwCurFwAddr \in refused' \/ area'[dwCurFwAddr] = <<cu.img, dwCurFwAddr>>
              /\ \A b \in 1 .. NBlocks : b # dwCurFwAddr => area'[b] = area[b]
          BY <4>2, <4>3, <4>4 DEF Writes, Programmed
        <4>6. Upto(dwCurFwAddr)' /\ Blank(dwCurFwAddr)'
          <5>1. \A b \in 1 .. dwCurFwAddr : b \in refused' \/ area'[b] = <<cu.img, b>>
            BY <1>2, <2>3, <4>1, <4>5, Numbers DEF Upto
          <5>2. \A b \in dwCurFwAddr + 1 .. ErasedBlocks : b \in refused' \/ area'[b] = Erased
            BY <1>2, <2>3, <4>1, <4>5, Numbers DEF Blank
          <5>3. (dwCurFwAddr + 1) - 1 = dwCurFwAddr
            BY <1>2, Numbers
          <5>4. dwCurFwAddr' = dwCurFwAddr + 1 /\ dwCurFwAddr' - 1 = dwCurFwAddr
            BY <4>2, <5>3
          <5>5. QED
            BY <1>1, <5>1, <5>2, <5>4 DEF Upto, Blank
        <4>7. \A n \in 1 .. dwCurFwAddr + 1 : Upto(n)'
          BY <1>1, <1>2, <4>2, <4>6, Numbers DEF Upto
        <4>8. Told' = Told \cup {dwCurFwAddr + 1} /\ (NoComplete => NoComplete')
          BY <1>2, <4>1, <4>2, Numbers, AnswersAddr
        <4>9. \A n \in Told' : n \in 1 .. dwCurFwAddr + 1
          BY <1>2, <2>3, <4>8, Numbers DEF Told
        <4>10. SessionInv'
          BY <1>1, <1>2, <2>3, <4>1, <4>2, <4>6, <4>9, Numbers DEF SessionInv
        <4>11. TransferInv'
          BY <1>1, <1>2, <2>3, <4>1, <4>7, <4>9, <4>10, Numbers DEF TransferInv, Pending
        <4>12. QED
          BY <4>8, <4>11
      <3>3. QED
        BY <3>1, <3>2
    <2>5. cu.phase = "blocks" => BlocksInv'
      BY <1>1, <1>2, <1>3, <2>4 DEF UInv, BlocksInv, Pending
    <2>6. cu.phase = "finish" => FinishInv'
      BY <1>1, <1>2, <1>3, <2>4 DEF UInv, FinishInv, Pending
    <2>7. QED
      BY <1>1, <1>4, <2>5, <2>6 DEF UInv
  <1>6. QED
    BY <1>1, <1>4, <1>5 DEF UInv

LEMMA PowerKeeps == TypeOK /\ UInv /\ PowerFails => UInv'
  <1> SUFFICES ASSUME TypeOK, UInv, PowerFails, Fits' PROVE UInv'
    BY DEF UInv
  <1>1. cu' = cu /\ refused' = refused /\ replies' = <<>> /\ Fresh
    BY BootsFresh DEF PowerFails
  <1>2. Fits /\ Length' = Length
    BY <1>1 DEF Fits, Length
  <1>3. Told' = {} /\ NoComplete' /\ (\A cmds : Asks(cmds)') /\ (\A cmd : ~Pending(cmd)')
    BY <1>1 DEF Told, NoComplete, Asks, Pending, Fresh
  <1>4. ~bFwUpdateStarted'
    BY <1>1 DEF Fresh
  <1>5. CASE cu.phase = "load"
    BY <1>1, <1>3, <1>5 DEF UInv, LoadInv
  <1>6. CASE cu.phase \in {"blocks", "finish"}
    <2>1. TransferInv
      BY <1>2, <1>6 DEF UInv, BlocksInv, FinishInv
    <2>2. Upto(cu.pos)'
      <3>1. CASE area' = area
        BY <1>1, <2>1, <3>1 DEF TransferInv, Upto
      <3>2. CASE Pending("HEXLOAD")
        BY <1>1, <1>2, <1>6, <3>2, Numbers DEF UInv, BlocksInv, FinishInv, Asks, Pending, Upto
      <3>3. CASE bFwUpdateStarted /\ area' \in TornWrite
        BY <1>1, <1>2, <2>1, <3>3, Numbers DEF TransferInv, SessionInv, TornWrite, Upto, TypeOK
      <3>4. QED
        BY <3>1, <3>2, <3>3 DEF PowerFails, Pending
    <2>3. TransferInv'
      BY <1>3, <1>4, <2>2 DEF TransferInv, SessionInv
    <2>4. QED
      BY <1>1, <1>2, <1>3, <1>6, <2>3 DEF UInv, BlocksInv, FinishInv
  <1>7. CASE cu.phase = "complete"
    <2>1. area' = area
      BY <1>2, <1>7 DEF PowerFails, UInv, CompleteInv, Asks
    <2>2. QED
      BY <1>1, <1>2, <1>3, <1>7, <2>1 DEF UInv, CompleteInv, Upto
  <1>8. QED
    BY <1>1, <1>5, <1>6, <1>7 DEF UInv

LEMMA StartKeeps == TypeOK /\ UInv /\ CuStart => UInv'
  <1> SUFFICES ASSUME CuStart PROVE UInv'
    OBVIOUS
  <1>1. cu'.phase = "load" /\ request' = None /\ replies' = <<>>
    BY DEF CuStart
  <1>2. LoadInv'
    BY <1>1 DEF LoadInv, Asks, Told, NoComplete
  <1>3. QED
    BY <1>1, <1>2 DEF UInv

LEMMA AskKeeps == TypeOK /\ UInv /\ CuAsk => UInv'
  <1> SUFFICES ASSUME UInv, CuAsk, Fits' PROVE UInv'
    BY DEF UInv
  <1>1. cu' = cu /\ UNCHANGED <<area, refused>> /\ cu.phase \in {"idle", "complete", "failed"}
    BY DEF CuAsk, Resting, UnitUnchanged, flash
  <1>2. Asks({"FINISH", "FWCONFIG", "DISABLESIGNATURE"})'
    BY DEF CuAsk, Asks
  <1>3. QED
    BY <1>1, <1>2 DEF UInv, CompleteInv, Upto, Length, Fits

LEMMA SendKeeps == TypeOK /\ UInv /\ CuSend => UInv'
  <1> SUFFICES ASSUME TypeOK, UInv, CuSend, Fits' PROVE UInv'
    BY DEF UInv
  <1>1. /\ cu' = cu /\ UNCHANGED <<area, refused>> /\ replies' = replies
        /\ bFwUpdateStarted' = bFwUpdateStarted /\ dwCurFwAddr' = dwCurFwAddr
    BY DEF CuSend, UnitUnchanged, statics, flash
  <1>2. Fits /\ Length' = Length /\ Told' = Told /\ NoComplete' = NoComplete
    BY <1>1 DEF Fits, Length, Told, NoComplete
  <1>3. \A n : (Upto(n)' <=> Upto(n)) /\ (Blank(n)' <=> Blank(n))
    BY <1>1 DEF Upto, Blank
  <1>4. SessionInv => SessionInv'
    BY <1>1, <1>2, <1>3 DEF SessionInv
  <1>5. CASE cu.phase = "load"
    <2>1. Asks({"HEXLOAD"})'
      BY <1>5 DEF CuSend, Asks
    <2>2. QED
      BY <1>1, <1>2, <1>3, <1>5, <2>1 DEF UInv, LoadInv
  <1>6. CASE cu.phase = "blocks"
    <2>1. request' = [cmd |-> "BLOCK", img |-> cu.img, addr |-> cu.pos]
      BY <1>6 DEF CuSend
    <2>2. Asks({"HEXLOAD", "BLOCK"})' /\ ~Pending("HEXLOAD")'
      BY <2>1 DEF Asks, Pending
    <2>3. request'.img = cu.img /\ request'.addr = cu.pos
      BY <2>1
    <2>4. BlocksInv
      BY <1>2, <1>6 DEF UInv
    <2>5. TransferInv'
      BY <1>1, <1>2, <1>3, <1>4, <2>3, <2>4 DEF BlocksInv, TransferInv
    <2>6. QED
      BY <1>1, <1>2, <1>6, <2>2, <2>4, <2>5 DEF UInv, BlocksInv
  <1>7. CASE cu.phase = "finish"
    <2>1. Asks({"BLOCK", "FINISH"})' /\ ~Pending("BLOCK")'
      BY <1>7 DEF CuSend, Asks, Pending
    <2>2. FinishInv
      BY <1>2, <1>7 DEF UInv
    <2>3. TransferInv'
      BY <1>1, <1>2, <1>3, <1>4, <2>1, <2>2 DEF FinishInv, TransferInv
    <2>4. QED
      BY <1>1, <1>2, <1>7, <2>1, <2>2, <2>3 DEF UInv, FinishInv
  <1>8. QED
    BY <1>5, <1>6, <1>7 DEF CuSend

LEMMA ReceiveKeeps == TypeOK /\ UInv /\ CuReceive => UInv'
  <1> SUFFICES ASSUME TypeOK, UInv, CuReceive, Fits' PROVE UInv'
    BY DEF UInv
  <1> DEFINE r == Head(replies)
  <1>1. /\ Told' \subseteq Told /\ (NoComplete => NoComplete')
        /\ r \in Reply
        /\ r.kind = "ADDR" => r.addr \in Told
        /\ NoComplete => r.kind # "COMPLETE"
    BY TakesReply DEF CuReceive
  <1>2. /\ cu' = After(r) /\ UNCHANGED <<area, refused>> /\ request' = request
        /\ bFwUpdateStarted' = bFwUpdateStarted /\ dwCurFwAddr' = dwCurFwAddr
    BY DEF CuReceive, UnitUnchanged, statics, flash
  <1> HIDE DEF r
  <1>3. CASE cu' = cu
    BY <1>1, <1>2, <1>3, QuietKeeps DEF Quiet, flash
  <1>4. CASE cu'.phase = "failed"
    BY <1>4 DEF UInv
  <1>5. cu'.img = cu.img
    BY <1>2 DEF After, TypeOK
  <1>6. Fits /\ Length' = Length
    BY <1>5 DEF Fits, Length
  <1>7. \A n : (Upto(n)' <=> Upto(n)) /\ (Blank(n)' <=> Blank(n))
    BY <1>2, <1>5 DEF Upto, Blank
  <1>8. \A cmds : Asks(cmds)' <=> Asks(cmds)
    BY <1>2 DEF Asks
  <1>9. \A cmd : Pending(cmd)' <=> Pending(cmd)
    BY <1>2 DEF Pending
  <1>10. CASE r.kind = "ADDR" /\ cu.phase = "load" /\ r.addr = 1
    <2>1. cu'.phase = "blocks" /\ cu'.pos = 1
      BY <1>2, <1>10 DEF After, TypeOK
    <2>2. LoadInv
      BY <1>6, <1>10 DEF UInv
    <2>3. Told' \subseteq {1} /\ Told # {} /\ NoComplete'
      BY <1>1, <1>10, <2>2 DEF LoadInv
    <2>4. SessionInv'
      BY <1>2, <1>6, <1>7, <2>1, <2>2, <2>3, Numbers DEF LoadInv, SessionInv, Upto
    <2>5. ~Pending("BLOCK")'
      BY <1>9, <2>2 DEF LoadInv, Asks, Pending
    <2>6. TransferInv'
      BY <1>6, <2>1, <2>3, <2>4, <2>5, Numbers DEF TransferInv, Upto
    <2>7. Asks({"HEXLOAD", "BLOCK"})'
      BY <1>8, <2>2 DEF LoadInv, Asks
    <2>8. QED
      BY <1>6, <2>1, <2>3, <2>6, <2>7, Numbers DEF UInv, BlocksInv
  <1>11. CASE r.kind = "ADDR" /\ cu.phase = "blocks"
    <2>1. /\ cu'.pos = r.addr
          /\ cu'.phase = (IF r.addr > Length THEN "finish" ELSE "blocks")
      BY <1>2, <1>11 DEF After, TypeOK, Length
    <2>2. BlocksInv
      BY <1>6, <1>11 DEF UInv
    <2>3. r.addr \in Told /\ r.addr \in Nat /\ r.addr <= Length + 1 /\ Upto(r.addr)
      BY <1>1, <1>11, <2>2 DEF BlocksInv, TransferInv, Told
    <2>4. SessionInv'
      BY <1>1, <1>2, <1>6, <1>7, <2>1, <2>2, <2>3 DEF BlocksInv, TransferInv, SessionInv
    <2>5. Upto(cu.pos)'
      BY <1>2, <1>5, <2>1, <2>3 DEF Upto
    <2>6. TransferInv'
      BY <1>1, <1>2, <1>5, <1>6, <1>7, <1>9, <2>2, <2>4, <2>5 DEF BlocksInv, TransferInv
    <2>7. CASE r.addr > Length
      <3>1. cu'.phase = "finish" /\ cu'.pos = Length + 1
        BY <1>6, <2>1, <2>3, <2>7, Numbers
      <3>2. ~Pending("HEXLOAD")
        BY <1>6, <2>2, <2>3, <2>7, Numbers DEF BlocksInv
      <3>3. Asks({"BLOCK", "FINISH"})'
        BY <1>8, <2>2, <3>2 DEF BlocksInv, Asks, Pending
      <3>4. QED
        BY <1>1, <1>6, <2>2, <2>6, <3>1, <3>3 DEF UInv, FinishInv, BlocksInv
    <2>8. CASE ~(r.addr > Length)
      <3>1. cu'.phase = "blocks" /\ cu'.pos <= Length
        BY <1>6, <2>1, <2>3, <2>8, Numbers
      <3>2. Pending("HEXLOAD")' => cu'.pos = 1 /\ Told' \subseteq {1}
        BY <1>1, <1>9, <2>1, <2>2, <2>3 DEF BlocksInv
      <3>3. QED
        BY <1>1, <1>6, <1>8, <2>2, <2>6, <3>1, <3>2 DEF UInv, BlocksInv
    <2>9. QED
      BY <2>7, <2>8
  <1>12. CASE r.kind = "COMPLETE" /\ cu.phase = "finish"
    <2>1. cu'.phase = "complete"
      BY <1>2, <1>12 DEF After, TypeOK
    <2>2. FinishInv
      BY <1>6, <1>12 DEF UInv
    <2>3. Upto(Length + 1)'
      BY <1>6, <1>7, <2>2 DEF FinishInv, TransferInv
    <2>4. ~Pending("BLOCK")
      BY <1>1, <1>12, <2>2 DEF FinishInv
    <2>5. Asks({"FINISH", "FWCONFIG", "DISABLESIGNATURE"})'
      BY <1>8, <2>2, <2>4 DEF FinishInv, Asks, Pending
    <2>6. QED
      BY <2>1, <2>3, <2>5 DEF UInv, CompleteInv
  <1>13. QED
    <2>1. CASE r.kind \in {"NA", "EFINISH"} /\ ~Resting
      <3>1. cu'.phase = "failed"
        BY <1>2, <2>1 DEF After, TypeOK
      <3>2. QED
        BY <1>4, <3>1
    <2>2. CASE /\ ~(r.kind = "ADDR" /\ cu.phase = "load" /\ r.addr = 1)
               /\ ~(r.kind = "ADDR" /\ cu.phase = "blocks")
               /\ ~(r.kind = "COMPLETE" /\ cu.phase = "finish")
               /\ ~(r.kind \in {"NA", "EFINISH"} /\ ~Resting)
      BY <1>2, <1>3, <2>2 DEF After
    <2>3. QED
      BY <1>10, <1>11, <1>12, <2>1, <2>2

LEMMA NextUInv == TypeOK /\ UInv /\ [Next]_vars => UInv'
  <1> SUFFICES ASSUME TypeOK, UInv, [Next]_vars PROVE UInv'
    OBVIOUS
  <1>1. CASE Quiet
    BY <1>1, QuietKeeps
  <1>2. CASE CuGivesUp
    BY <1>2 DEF CuGivesUp, UInv, TypeOK
  <1>3. QED
    BY <1>1, <1>2, RejectQuiet, InformQuiet, ExpireQuiet, MainQuiet, LineQuiet,
       HexLoadKeeps, FinishKeeps, BlockKeeps, PowerKeeps, StartKeeps, AskKeeps,
       SendKeeps, ReceiveKeeps DEF Next, Handle

\* For an area of any size, any images, any number of uploads, repeats,
\* losses and power failures: the flash holds what the CU was told it holds,
\* but for the blocks it refused to erase or to write (the block handler and
\* FINISH of HandleKursSafeReprogramming).
THEOREM AcknowledgedIsWritten == Spec => []AckedIsWritten
  <1>1. Init => UInv
    BY DEF Init, UInv
  <1>2. TypeOK /\ UInv => AckedIsWritten
    <2> SUFFICES ASSUME TypeOK, UInv, NEW b \in Acknowledged, b \notin refused
                 PROVE  area[b] = <<cu.img, b>>
      BY DEF AckedIsWritten
    <2>1. Fits
      <3>1. Acknowledged # {}
        OBVIOUS
      <3>2. ~(cu.img = None \/ Attr[cu.img].len > ErasedBlocks)
        BY <3>1 DEF Acknowledged
      <3>3. cu.img \in Images
        BY <3>2 DEF TypeOK
      <3>4. Attr[cu.img].len \in Nat /\ ErasedBlocks \in Nat
        BY <3>3, RemoteUpdateAssumption
      <3>5. QED
        BY <3>2, <3>3, <3>4 DEF Fits
    <2>2. CASE cu.phase \in {"blocks", "finish"}
      <3>1. b \in 1 .. cu.pos - 1
        BY <2>1, <2>2 DEF Acknowledged, Fits
      <3>2. Upto(cu.pos)
        BY <2>1, <2>2 DEF UInv, BlocksInv, FinishInv, TransferInv
      <3>3. QED
        BY <3>1, <3>2 DEF Upto
    <2>3. CASE cu.phase = "complete"
      <3>1. b \in 1 .. Length
        BY <2>1, <2>3 DEF Acknowledged, Fits, Length
      <3>2. Upto(Length + 1)
        BY <2>1, <2>3 DEF UInv, CompleteInv
      <3>3. (Length + 1) - 1 = Length
        BY <2>1, Numbers
      <3>4. QED
        BY <3>1, <3>2, <3>3 DEF Upto
    <2>4. QED
      BY <2>2, <2>3 DEF Acknowledged
  <1>3. QED
    BY <1>1, <1>2, InitTypeOK, NextTypeOK, NextUInv, PTL DEF Spec

-----------------------------------------------------------------------------
(* Every boot is safe *)

\* An area whose header passes the checks holds a whole, sound image.
LEMMA ValidIsWhole ==
    ASSUME NEW a, Valid(AreaHeader(a))
    PROVE  \E img \in Images :
              /\ a[1] = <<img, 1>> /\ Whole(a, img) /\ Attr[img].sound
              /\ AreaHeader(a).version = Attr[img].version
              /\ AreaHeader(a).timestamp = Attr[img].timestamp
  <1>1. AreaHeader(a).signature /\ AreaHeader(a).data_crc
    BY DEF Valid, ValidateFlashImage, CRCS_VALID, SIGNATURE_INVALID,
           HEADER_CRC_INVALID, DATA_CRC_INVALID
  <1>2. \E img \in Images : a[1] = <<img, 1>>
    BY <1>1 DEF AreaHeader
  <1> DEFINE i == CHOOSE img \in Images : a[1] = <<img, 1>>
             intact == Whole(a, i) /\ Attr[i].sound
  <1>3. i \in Images /\ a[1] = <<i, 1>>
    BY <1>2
  <1>4. AreaHeader(a) =
          [signature |-> TRUE, header_crc |-> TRUE,
           data_crc |-> intact,
           version |-> Attr[i].version, timestamp |-> Attr[i].timestamp]
    BY <1>2 DEF AreaHeader
  <1> HIDE DEF i, intact
  <1>5. AreaHeader(a).data_crc = intact
    BY <1>4
  <1>6. Whole(a, i) /\ Attr[i].sound
    BY <1>1, <1>5, Zenon DEF intact
  <1>7. AreaHeader(a).version = Attr[i].version /\ AreaHeader(a).timestamp = Attr[i].timestamp
    BY <1>4
  <1>8. QED
    BY <1>3, <1>6, <1>7

\* And the other way round.
LEMMA WholeIsValid ==
    ASSUME NEW a, NEW img \in Images, Whole(a, img), Attr[img].sound
    PROVE  /\ Valid(AreaHeader(a)) /\ a[1] = <<img, 1>>
           /\ AreaHeader(a).version = Attr[img].version
           /\ AreaHeader(a).timestamp = Attr[img].timestamp
  <1>1. Attr[img].len \in 1 .. NBlocks + 1
    BY RemoteUpdateAssumption
  <1>2. a[1] = <<img, 1>>
    BY <1>1 DEF Whole
  <1> DEFINE i == CHOOSE j \in Images : a[1] = <<j, 1>>
             intact == Whole(a, i) /\ Attr[i].sound
  <1>3. i \in Images /\ a[1] = <<i, 1>>
    BY <1>2
  <1>4. i = img
    BY <1>2, <1>3
  <1>5. AreaHeader(a) =
          [signature |-> TRUE, header_crc |-> TRUE,
           data_crc |-> intact,
           version |-> Attr[i].version, timestamp |-> Attr[i].timestamp]
    BY <1>2 DEF AreaHeader
  <1> HIDE DEF i
  <1>6. AreaHeader(a).signature /\ AreaHeader(a).header_crc /\ AreaHeader(a).data_crc
    <2>1. intact
      BY <1>4
    <2> HIDE DEF intact
    <2>2. QED
      BY <1>5, <2>1
  <1>7. Valid(AreaHeader(a))
    BY <1>6 DEF Valid, ValidateFlashImage
  <1>8. QED
    BY <1>2, <1>4, <1>5, <1>7

\* Between a valid factory image and the area the copier takes the area
\* exactly if its image is valid and not older.
LEMMA Decision ==
    ASSUME NEW h, Valid(h), h.version \in Nat, h.timestamp \in Nat
    PROVE  PickFlashImage(FactoryHeader, h) = 2 <=>
              \/ h.version > FactoryHeader.version
              \/ h.version = FactoryHeader.version /\ h.timestamp >= FactoryHeader.timestamp
  <1>1. /\ Valid(FactoryHeader)
        /\ FactoryHeader.version \in Nat /\ FactoryHeader.timestamp \in Nat
    BY RemoteUpdateAssumption DEF Header
  <1>2. PickFlashImage(FactoryHeader, h) =
          IF FactoryHeader.version = h.version
          THEN IF FactoryHeader.timestamp > h.timestamp THEN 1 ELSE 2
          ELSE IF FactoryHeader.version > h.version THEN 1 ELSE 2
    BY <1>1 DEF PickFlashImage
  <1>3. QED
    BY <1>1, <1>2

LEMMA BootIsSafe ==
    ASSUME NEW a, Boots(a)
    PROVE  /\ running' # "factory" => Whole(a, running') /\ Fit(running')
           /\ running' = "factory" => ~ \E img \in Images : Whole(a, img) /\ Fit(img)
  <1> DEFINE pick == PickFlashImage(FactoryHeader, AreaHeader(a))
  <1>1. running' = IF pick = 2 THEN a[1][1] ELSE "factory"
    BY DEF Boots
  <1>2. CASE pick = 2
    <2>1. Valid(AreaHeader(a))
      BY <1>2 DEF PickFlashImage
    <2>2. PICK img \in Images :
              /\ a[1] = <<img, 1>> /\ Whole(a, img) /\ Attr[img].sound
              /\ AreaHeader(a).version = Attr[img].version
              /\ AreaHeader(a).timestamp = Attr[img].timestamp
      BY <2>1, ValidIsWhole
    <2>3. Attr[img].version \in Nat /\ Attr[img].timestamp \in Nat
      BY RemoteUpdateAssumption
    <2>4. Fit(img)
      BY <1>2, <2>1, <2>2, <2>3, Decision DEF Fit
    <2>5. running' = img /\ img # "factory"
      BY <1>1, <1>2, <2>2, RemoteUpdateAssumption
    <2>6. QED
      BY <2>2, <2>4, <2>5
  <1>3. CASE pick # 2
    <2>1. ASSUME NEW img \in Images, Whole(a, img), Fit(img) PROVE FALSE
      <3>1. /\ Valid(AreaHeader(a))
            /\ AreaHeader(a).version = Attr[img].version
            /\ AreaHeader(a).timestamp = Attr[img].timestamp
        BY <2>1, WholeIsValid DEF Fit
      <3>2. Attr[img].version \in Nat /\ Attr[img].timestamp \in Nat
        BY RemoteUpdateAssumption
      <3>3. QED
        BY <1>3, <2>1, <3>1, <3>2, Decision DEF Fit
    <2>2. QED
      BY <1>1, <1>3, <2>1
  <1>4. QED
    BY <1>2, <1>3

\* For every state of the area a reset or a power failure can leave: the unit
\* runs the factory image or a whole, sound, not older one, and passes over
\* none (PickFlashImage and main's check).
THEOREM EveryBootIsSafe == Spec => BootSafe
  <1>1. [Next]_vars =>
          [PowerFails \/ ResetNios =>
             /\ running' # "factory" => Whole(area', running') /\ Fit(running')
             /\ running' = "factory" =>
                   ~ \E img \in Images : Whole(area', img) /\ Fit(img)]_vars
    <2>1. ASSUME PowerFails \/ ResetNios
          PROVE  /\ running' # "factory" => Whole(area', running') /\ Fit(running')
                 /\ running' = "factory" =>
                       ~ \E img \in Images : Whole(area', img) /\ Fit(img)
      <3>1. Boots(area') \/ (Boots(area) /\ area' = area)
        BY <2>1 DEF PowerFails, ResetNios, flash
      <3>2. QED
        BY <3>1, BootIsSafe
    <2>2. QED
      BY <2>1
  <1>2. QED
    BY <1>1, PTL DEF Spec, BootSafe
=============================================================================
