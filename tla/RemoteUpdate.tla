---------------------------- MODULE RemoteUpdate ----------------------------
(***************************************************************************)
(* The remote update of the firmware.  The control unit (CU) sends an      *)
(* image block by block; HandleKursSafeReprogramming, in the 15 ms alarm,  *)
(* writes the blocks to the second image area of the flash and on FINISH   *)
(* asks the main loop for a reset, after which the boot copier chooses     *)
(* between the factory image and the area.                                 *)
(*                                                                         *)
(* One block stands for the 64 bytes of FWHEX_PACKET_SIZE; the two address *)
(* counters of the code advance together and are one block number.  Time   *)
(* since the last step of a session is kept as a class: up to 3 s, up to   *)
(* 30 s, longer.  The CU is external; it asks for the block the last reply *)
(* named, repeats a request that is not answered, and gives up at will.    *)
(*                                                                         *)
(* The flash may refuse to erase a sector or to write a block, when the    *)
(* chip times out; the results of cfi_flash_erase and lld_memcpy are       *)
(* dropped and the handler answers as if it had not.                       *)
(***************************************************************************)
EXTENDS FlashImage, FiniteSets, Sequences

CONSTANTS
    Images,        \* the images the CU may send
    Attr,          \* image -> its [version, timestamp, len, sound]
    FactoryHeader, \* header of the first image, which is never written
    NBlocks,       \* blocks of the area: FLASH_PROG_SIZE
    ErasedBlocks,  \* blocks PrepareEraseProgCopy erases: 10 sectors
    None, Erased, Garbage,
    MaxUploads,    \* bound: uploads the CU starts
    MaxFaults,     \* bound: power failures and calls the flash refuses
    MaxReplies     \* bound: replies on their way to the CU

\* The copy area is larger than what is erased of it: 16 sectors and 10.
ASSUME RemoteUpdateAssumption ==
    /\ NBlocks \in Nat \ {0, 1} /\ ErasedBlocks \in 1 .. NBlocks - 1
    /\ FactoryHeader \in Header /\ Valid(FactoryHeader)
    /\ "factory" \notin Images
    /\ \A i \in Images : Attr[i] \in [version : Nat, timestamp : Nat,
                                    len : 1 .. NBlocks + 1, sound : BOOLEAN]
    /\ MaxUploads \in Nat /\ MaxFaults \in Nat /\ MaxReplies \in Nat

VARIABLES
    area,              \* flash: block -> Erased, <<image, block>> or Garbage
    bFwUpdateStarted,
    dwCurFwAddr,       \* number of the next block, with dwCurCopyAddr
    bVerifyIdent,
    since,             \* class of alt_nticks() - dwLastActionTime
    dwLastTimeout,     \* class of the timeout: 0 for 3 s, 1 for 30 s
    reboot_nios,
    main,              \* main loop: "scan", or "reset" once the image is valid
    running,           \* the image that runs: "factory" or one of Images
    request,           \* the request kurs_service will handle next, or None
    replies,           \* replies on the line to the CU
    cu,                \* the CU: its phase, image and next block
    refused,           \* history: blocks the flash refused to erase or to write
                       \* since the last HEXLOAD
    uploads, faults    \* counters for the bounds

statics == <<bFwUpdateStarted, dwCurFwAddr, bVerifyIdent, since, dwLastTimeout>>
flash == <<area, refused>>
counters == <<uploads, faults>>
vars == <<flash, statics, reboot_nios, main, running, request, replies, cu, counters>>

-----------------------------------------------------------------------------
(* The flash.                                                              *)

\* NOR flash only clears bits: a block that is not erased keeps its contents
\* if they are the same and is garbage otherwise.
Programmed(old, new) ==
    CASE old = Erased -> new [] old = new -> new [] OTHER -> Garbage

Whole(a, img) ==
    /\ Attr[img].len <= NBlocks
    /\ \A b \in 1 .. Attr[img].len : a[b] = <<img, b>>

\* What the header in the first block says of the area.
AreaHeader(a) ==
    IF \E img \in Images : a[1] = <<img, 1>>
    THEN LET img == CHOOSE i \in Images : a[1] = <<i, 1>>
         IN  [signature |-> TRUE, header_crc |-> TRUE,
              data_crc |-> Whole(a, img) /\ Attr[img].sound,
              version |-> Attr[img].version, timestamp |-> Attr[img].timestamp]
    ELSE [signature |-> FALSE, header_crc |-> FALSE, data_crc |-> FALSE,
          version |-> 0, timestamp |-> 0]

\* PrepareEraseProgCopy: ten sectors from the start of the area, but for those
\* the flash leaves as they are or erases in part.
EraseProgCopy(a, left, part) ==
    [b \in 1 .. NBlocks |-> IF b \in part THEN Garbage
                            ELSE IF b \in left \/ b > ErasedBlocks THEN a[b]
                            ELSE Erased]

Erases ==
    \E left, part \in SUBSET (1 .. ErasedBlocks) :
        /\ refused' = left \cup part
        /\ faults' = faults + Cardinality(left \cup part)
        /\ faults' <= MaxFaults
        /\ area' = EraseProgCopy(area, left, part)

\* lld_memcpy of a block: written, or refused, perhaps after a piece of it.
Writes(b, new) ==
    \/ /\ area' = [area EXCEPT ![b] = Programmed(@, new)]
       /\ UNCHANGED <<refused, faults>>
    \/ /\ faults < MaxFaults
       /\ faults' = faults + 1
       /\ refused' = refused \cup {b}
       /\ area' \in {area, [area EXCEPT ![b] = Garbage]}

\* What a power failure may leave of an erase or of the write of a block.
TornErase ==
    {[b \in 1 .. NBlocks |-> IF b <= k THEN Erased
                             ELSE IF b = k + 1 THEN torn ELSE area[b]] :
        k \in 0 .. ErasedBlocks - 1, torn \in {Garbage, Erased}}

TornWrite == {[area EXCEPT ![dwCurFwAddr] = Garbage]}

-----------------------------------------------------------------------------
(* The unit.                                                               *)

\* Statics of the program as it starts: the first request is always late.
StaticsInit(started, cur, verify, quiet, timeout) ==
    /\ started = FALSE
    /\ cur = 1
    /\ verify = TRUE
    /\ quiet = 2
    /\ timeout = 0

Init ==
    /\ area = [b \in 1 .. NBlocks |-> Erased]
    /\ StaticsInit(bFwUpdateStarted, dwCurFwAddr, bVerifyIdent, since, dwLastTimeout)
    /\ reboot_nios = FALSE
    /\ main = "scan"
    /\ running = "factory"
    /\ request = None
    /\ replies = <<>>
    /\ cu = [phase |-> "idle", img |-> None, pos |-> 1]
    /\ refused = {}
    /\ uploads = 0
    /\ faults = 0

TimedOut == since > dwLastTimeout

\* kurs_service hands the request to the handler, which leaves a reply.
Handles(cmd) ==
    /\ request # None
    /\ request.cmd = cmd
    /\ request' = None

Answers(r) ==
    /\ Len(replies) < MaxReplies
    /\ replies' = Append(replies, r)

\* Too short, or the CRC does not match.  In a session the second gets no
\* answer, so that the CU repeats the request instead of giving up.
Reject ==
    /\ \/ Handles("SHORT") /\ Answers([kind |-> "NA"])
       \/ Handles("CORRUPT") /\ ~bFwUpdateStarted /\ Answers([kind |-> "NA"])
       \/ Handles("CORRUPT") /\ bFwUpdateStarted /\ UNCHANGED replies
    /\ UNCHANGED <<flash, statics, reboot_nios, main, running, cu, counters>>

\* FWCONFIG and SOFTRESET are answered and change nothing.
Inform ==
    /\ Handles("FWCONFIG")
    /\ Answers([kind |-> "INFO"])
    /\ UNCHANGED <<flash, statics, reboot_nios, main, running, cu, counters>>

DisableSignature ==
    /\ Handles("DISABLESIGNATURE")
    /\ bVerifyIdent' = FALSE
    /\ Answers([kind |-> "INFO"])
    /\ UNCHANGED <<flash, bFwUpdateStarted, dwCurFwAddr, since, dwLastTimeout,
                   reboot_nios, main, running, cu, counters>>

HexLoad ==
    /\ Handles("HEXLOAD")
    /\ bFwUpdateStarted' = TRUE
    /\ since' = 0
    /\ dwLastTimeout' = 1
    /\ dwCurFwAddr' = 1
    /\ Erases
    /\ Answers([kind |-> "ADDR", addr |-> 1])
    /\ UNCHANGED <<bVerifyIdent, reboot_nios, main, running, cu, uploads>>

\* A request of the session that comes too late ends it.
Expire ==
    /\ \/ Handles("FINISH")
       \/ Handles("BLOCK")
    /\ TimedOut
    /\ bFwUpdateStarted' = FALSE
    /\ Answers([kind |-> "EFINISH"])
    /\ UNCHANGED <<flash, dwCurFwAddr, bVerifyIdent, since, dwLastTimeout,
                   reboot_nios, main, running, cu, counters>>

\* Mutant: the main loop is not told.
FinishSilently ==
    /\ Handles("FINISH")
    /\ ~TimedOut
    /\ bFwUpdateStarted
    /\ bFwUpdateStarted' = FALSE
    /\ bVerifyIdent' = TRUE
    /\ Answers([kind |-> "COMPLETE"])
    /\ UNCHANGED <<flash, dwCurFwAddr, since, dwLastTimeout, reboot_nios, main,
                   running, cu, counters>>

\* WriteToProgCopy with bFinishLoad: behind the area it fails, elsewhere it
\* programs four stray bytes at its end; bTestIdent is not used.
Finish ==
    /\ Handles("FINISH")
    /\ ~TimedOut
    /\ bFwUpdateStarted
    /\ bFwUpdateStarted' = FALSE
    /\ bVerifyIdent' = TRUE
    /\ \/ /\ dwCurFwAddr > NBlocks
          /\ Answers([kind |-> "EFINISH"])
          /\ UNCHANGED <<flash, faults, reboot_nios>>
       \/ /\ dwCurFwAddr <= NBlocks
          /\ Writes(NBlocks, Garbage)
          /\ reboot_nios' = TRUE
          /\ Answers([kind |-> "COMPLETE"])
    /\ UNCHANGED <<dwCurFwAddr, since, dwLastTimeout, main, running, cu, uploads>>

\* Mutant: whatever block comes is written at the current address.
BlockUnchecked ==
    /\ Handles("BLOCK")
    /\ ~TimedOut
    /\ bFwUpdateStarted
    /\ since' = 0
    /\ dwLastTimeout' = 0
    /\ Writes(dwCurFwAddr, <<request.img, request.addr>>)
    /\ dwCurFwAddr' = dwCurFwAddr + 1
    /\ Answers([kind |-> "ADDR", addr |-> dwCurFwAddr'])
    /\ UNCHANGED <<bFwUpdateStarted, bVerifyIdent, reboot_nios, main, running, cu, uploads>>

\* A block: written if it is the next one and inside the area; the reply
\* names the block wanted now.
Block ==
    /\ Handles("BLOCK")
    /\ ~TimedOut
    /\ bFwUpdateStarted
    /\ since' = 0
    /\ dwLastTimeout' = 0
    /\ \/ /\ request.addr = dwCurFwAddr
          /\ dwCurFwAddr <= NBlocks
          /\ Writes(dwCurFwAddr, <<request.img, request.addr>>)
          /\ dwCurFwAddr' = dwCurFwAddr + 1
          /\ Answers([kind |-> "ADDR", addr |-> dwCurFwAddr'])
          /\ UNCHANGED bFwUpdateStarted
       \/ /\ request.addr = dwCurFwAddr
          /\ dwCurFwAddr > NBlocks
          /\ bFwUpdateStarted' = FALSE
          /\ Answers([kind |-> "EFINISH"])
          /\ UNCHANGED <<flash, faults, dwCurFwAddr>>
       \/ /\ request.addr # dwCurFwAddr
          /\ Answers([kind |-> "ADDR", addr |-> dwCurFwAddr])
          /\ UNCHANGED <<flash, faults, dwCurFwAddr, bFwUpdateStarted>>
    /\ UNCHANGED <<bVerifyIdent, reboot_nios, main, running, cu, uploads>>

\* No session: neither a block nor FINISH is understood.
NoSession ==
    /\ \/ Handles("FINISH")
       \/ Handles("BLOCK")
    /\ ~TimedOut
    /\ ~bFwUpdateStarted
    /\ Answers([kind |-> "NA"])
    /\ UNCHANGED <<flash, statics, reboot_nios, main, running, cu, counters>>

TimePasses ==
    /\ since < 2
    /\ since' = since + 1
    /\ UNCHANGED <<flash, bFwUpdateStarted, dwCurFwAddr, bVerifyIdent, dwLastTimeout,
                   reboot_nios, main, running, request, replies, cu, counters>>

-----------------------------------------------------------------------------
(* The main loop and the boot copier.                                      *)

\* The boot copier runs and the program starts afresh.
Boots(a) ==
    /\ running' = (IF PickFlashImage(FactoryHeader, AreaHeader(a)) = 2
                   THEN a[1][1] ELSE "factory")
    /\ StaticsInit(bFwUpdateStarted', dwCurFwAddr', bVerifyIdent', since', dwLastTimeout')
    /\ reboot_nios' = FALSE
    /\ main' = "scan"
    /\ request' = None

\* The main loop finds the flag and validates the area.
CheckImage ==
    /\ main = "scan"
    /\ reboot_nios
    /\ \/ /\ Valid(AreaHeader(area))
          /\ main' = "reset"
          /\ UNCHANGED reboot_nios
       \/ /\ ~Valid(AreaHeader(area))
          /\ reboot_nios' = FALSE
          /\ UNCHANGED main
    /\ UNCHANGED <<flash, statics, running, request, replies, cu, counters>>

\* reset_nios; the alarm may have handled a request since the image was read.
ResetNios ==
    /\ main = "reset"
    /\ Boots(area)
    /\ UNCHANGED <<flash, replies, cu, counters>>

\* The power fails, perhaps while the alarm erases or writes.
PowerFails ==
    /\ faults < MaxFaults
    /\ faults' = faults + 1
    /\ \/ UNCHANGED area
       \/ /\ request # None /\ request.cmd = "HEXLOAD"
          /\ area' \in TornErase
       \/ /\ request # None /\ request.cmd = "BLOCK"
          /\ bFwUpdateStarted /\ ~TimedOut
          /\ request.addr = dwCurFwAddr /\ dwCurFwAddr <= NBlocks
          /\ area' \in TornWrite
    /\ Boots(area')
    /\ replies' = <<>>
    /\ UNCHANGED <<refused, cu, uploads>>

-----------------------------------------------------------------------------
(* The CU and the line, both external.                                     *)

UnitUnchanged == UNCHANGED <<flash, statics, reboot_nios, main, running>>

Resting == cu.phase \in {"idle", "complete", "failed"}

\* An operator starts an upload; the line is quiet by then.
CuStart ==
    /\ Resting /\ request = None /\ replies = <<>>
    /\ uploads < MaxUploads
    /\ uploads' = uploads + 1
    /\ \E img \in Images : cu' = [phase |-> "load", img |-> img, pos |-> 1]
    /\ UnitUnchanged /\ UNCHANGED <<request, replies, faults>>

\* Commands outside an upload.
CuAsk ==
    /\ Resting /\ request = None /\ replies = <<>>
    /\ \E cmd \in {"FWCONFIG", "DISABLESIGNATURE"} : request' = [cmd |-> cmd]
    /\ UnitUnchanged /\ UNCHANGED <<replies, cu, counters>>

\* The request the CU is at, for the first time or again.  A request that
\* was not handled yet is overwritten in the buffer of kurs_processor.
CuSend ==
    /\ \/ cu.phase = "load" /\ request' = [cmd |-> "HEXLOAD"]
       \/ /\ cu.phase = "blocks"
          /\ request' = [cmd |-> "BLOCK", img |-> cu.img, addr |-> cu.pos]
       \/ cu.phase = "finish" /\ request' = [cmd |-> "FINISH"]
    /\ UnitUnchanged /\ UNCHANGED <<replies, cu, counters>>

\* Where a reply takes the CU.
After(r) ==
    CASE r.kind = "ADDR" /\ cu.phase = "load" /\ r.addr = 1 ->
            [cu EXCEPT !.phase = "blocks", !.pos = 1]
      [] r.kind = "ADDR" /\ cu.phase = "blocks" ->
            [cu EXCEPT !.pos = r.addr,
                       !.phase = IF r.addr > Attr[cu.img].len THEN "finish" ELSE @]
      [] r.kind = "COMPLETE" /\ cu.phase = "finish" -> [cu EXCEPT !.phase = "complete"]
      [] r.kind \in {"NA", "EFINISH"} /\ ~Resting -> [cu EXCEPT !.phase = "failed"]
      [] OTHER -> cu

CuReceive ==
    /\ replies # <<>>
    /\ replies' = Tail(replies)
    /\ cu' = After(Head(replies))
    /\ UnitUnchanged /\ UNCHANGED <<request, counters>>

CuGivesUp ==
    /\ ~Resting
    /\ cu' = [cu EXCEPT !.phase = "failed"]
    /\ UnitUnchanged /\ UNCHANGED <<request, replies, counters>>

LineFails ==
    /\ \/ /\ request # None
          /\ request' \in {None, [cmd |-> "CORRUPT"], [cmd |-> "SHORT"]}
          /\ UNCHANGED replies
       \/ /\ replies # <<>>
          /\ replies' = Tail(replies)
          /\ UNCHANGED request
    /\ UnitUnchanged /\ UNCHANGED <<cu, counters>>

Handle == Reject \/ Inform \/ DisableSignature \/ HexLoad \/ Expire \/ Finish
          \/ Block \/ NoSession

Next ==
    \/ Handle
    \/ TimePasses
    \/ CheckImage
    \/ ResetNios
    \/ PowerFails
    \/ CuStart
    \/ CuAsk
    \/ CuSend
    \/ CuReceive
    \/ CuGivesUp
    \/ LineFails

Spec == Init /\ [][Next]_vars

\* The main loop goes round; nothing else need ever happen.
FairSpec == Spec /\ WF_vars(CheckImage) /\ WF_vars(ResetNios)

-----------------------------------------------------------------------------
Content == {Erased, Garbage} \cup (Images \X (1 .. NBlocks))

Request == [cmd : {"SHORT", "CORRUPT", "FWCONFIG", "DISABLESIGNATURE", "HEXLOAD", "FINISH"}]
           \cup [cmd : {"BLOCK"}, img : Images, addr : 1 .. NBlocks + 1]

Reply == [kind : {"NA", "INFO", "EFINISH", "COMPLETE"}]
         \cup [kind : {"ADDR"}, addr : 1 .. NBlocks + 1]

TypeOK ==
    /\ area \in [1 .. NBlocks -> Content]
    /\ bFwUpdateStarted \in BOOLEAN /\ bVerifyIdent \in BOOLEAN
    /\ dwCurFwAddr \in 1 .. NBlocks + 1
    /\ since \in 0 .. 2 /\ dwLastTimeout \in 0 .. 1
    /\ refused \subseteq 1 .. NBlocks /\ faults \in 0 .. MaxFaults
    /\ reboot_nios \in BOOLEAN
    /\ main \in {"scan", "reset"}
    /\ running \in {"factory"} \cup Images
    /\ request \in Request \cup {None}
    /\ replies \in Seq(Reply) /\ Len(replies) <= MaxReplies
    /\ cu.phase = "idle" \/ cu.img \in Images
    /\ cu \in [phase : {"idle", "load", "blocks", "finish", "complete", "failed"},
               img : Images \cup {None}, pos : 1 .. NBlocks + 1]

(***************************************************************************)
(* What the CU goes past is in the flash: each block before the one it is  *)
(* at, and the whole image once it was told COMPLETE, whatever requests    *)
(* and replies were lost, repeated, damaged or late and whenever the power *)
(* failed (the address check and the reply of the block handler).  It is   *)
(* claimed of images that fit in the sectors the upload erases, and of the *)
(* blocks the flash did not refuse to erase or to write.                   *)
(***************************************************************************)
Acknowledged ==
    IF cu.img = None \/ Attr[cu.img].len > ErasedBlocks THEN {}
    ELSE CASE cu.phase \in {"blocks", "finish"} -> 1 .. cu.pos - 1
           [] cu.phase = "complete" -> 1 .. Attr[cu.img].len
           [] OTHER -> {}

AckedIsWritten == \A b \in Acknowledged \ refused : area[b] = <<cu.img, b>>

(***************************************************************************)
(* "reply about success in case of correctly writing the received block":  *)
(* every block acknowledged is in the flash (the results of lld_memcpy and *)
(* cfi_flash_erase in WriteToProgCopy and PrepareEraseProgCopy).           *)
(***************************************************************************)
SuccessIsWritten == \A b \in Acknowledged : area[b] = <<cu.img, b>>

(***************************************************************************)
(* Whatever state of the area a boot meets, torn by a power failure,       *)
(* loaded in part or erased after it was validated, the unit comes up with *)
(* the factory image or with a whole, sound image no older than it, and    *)
(* never passes over such an image (PickFlashImage, main's check).         *)
(***************************************************************************)
Fit(img) ==
    /\ Attr[img].sound
    /\ \/ Attr[img].version > FactoryHeader.version
       \/ /\ Attr[img].version = FactoryHeader.version
          /\ Attr[img].timestamp >= FactoryHeader.timestamp

BootSafe ==
    [][PowerFails \/ ResetNios =>
        /\ running' # "factory" => Whole(area', running') /\ Fit(running')
        /\ running' = "factory" => ~ \E img \in Images : Whole(area', img) /\ Fit(img)]_vars

(***************************************************************************)
(* An upload that was answered COMPLETE takes effect: the unit comes up    *)
(* with the image if it is sound and not older than the factory's, unless  *)
(* the operator starts over (reboot_nios and the main loop) or the flash   *)
(* refused a block of it.                                                  *)
(***************************************************************************)
CompleteTakesEffect ==
    (cu.phase = "complete" /\ Fit(cu.img) /\ Acknowledged # {} /\ Acknowledged \cap refused = {})
        ~> (running = cu.img \/ cu.phase # "complete")

(***************************************************************************)
(* "Function that erases the external flash memory reserved for the        *)
(* program copy" (PrepareEraseProgCopy): an upload starts on blank flash.  *)
(***************************************************************************)
ReservedSpaceErased ==
    [][HexLoad => \A b \in 1 .. NBlocks : area'[b] = Erased]_vars

(***************************************************************************)
(* "flag of signature check request of the over-written program (in case   *)
(* of unsuccessful check, writing is not executed)" (WriteToProgCopy): an  *)
(* upload completes under the check only if the image is sound.            *)
(***************************************************************************)
SignatureChecked ==
    [][Finish /\ bVerifyIdent /\ reboot_nios' => Valid(AreaHeader(area))]_vars

-----------------------------------------------------------------------------
(* Values for TLC: images older and newer than the factory's, of the same  *)
(* version, damaged in the file, filling the area and too large for it.    *)

MCFactory == [signature |-> TRUE, header_crc |-> TRUE, data_crc |-> TRUE,
              version |-> 1, timestamp |-> 1]

Image(v, t, n, s) == [version |-> v, timestamp |-> t, len |-> n, sound |-> s]

MCAttr == [new |-> Image(2, 0, 2, TRUE), old |-> Image(1, 0, 1, TRUE),
           bad |-> Image(2, 2, 1, FALSE), full |-> Image(2, 0, 3, TRUE),
           large |-> Image(2, 0, 4, TRUE)]
=============================================================================
