-------------------------- MODULE BootCopierProofs --------------------------
(***************************************************************************)
(* Proofs about the boot copier, for every set of headers, programs and    *)
(* addresses and every number of power failures.                           *)
(***************************************************************************)
EXTENDS BootCopier, TLAPS

-----------------------------------------------------------------------------
(* The choice of the image *)

\* PickFlashImage computes what the comment above it describes: its nested
\* comparisons agree with the order of version, time stamp and number.
LEMMA PickMeetsCriteria ==
    ASSUME NEW h \in [1 .. 2 -> Header]
    PROVE  IsBest(h, PickFlashImage(h[1], h[2]))
  <1> DEFINE valid == {i \in 1 .. 2 : Valid(h[i])}
  <1>1. \A i \in 1 .. 2 : h[i].version \in Nat /\ h[i].timestamp \in Nat
    BY DEF Header
  <1>2. CASE ~Valid(h[1]) /\ ~Valid(h[2])
    BY <1>2 DEF IsBest, PickFlashImage
  <1>3. CASE ~Valid(h[1]) /\ Valid(h[2])
    BY <1>3 DEF IsBest, PickFlashImage
  <1>4. CASE Valid(h[1]) /\ ~Valid(h[2])
    BY <1>4 DEF IsBest, PickFlashImage
  <1>5. CASE Valid(h[1]) /\ Valid(h[2])
    <2>1. valid = {1, 2}
      BY <1>5
    <2>2. PickFlashImage(h[1], h[2]) \in {1, 2}
      BY <1>5 DEF PickFlashImage
    <2>3. \A i \in valid \ {PickFlashImage(h[1], h[2])} :
              LaterThan(h, PickFlashImage(h[1], h[2]), i)
      BY <1>1, <1>5, <2>1, <2>2 DEF PickFlashImage, LaterThan
    <2>4. QED
      BY <2>1, <2>2, <2>3 DEF IsBest
  <1>6. QED
    BY <1>2, <1>3, <1>4, <1>5

\* The number of an image, or 0; a number only of a valid image.
LEMMA PickRange ==
    ASSUME NEW h1, NEW h2
    PROVE  PickFlashImage(h1, h2) \in 0 .. 2
  BY DEF PickFlashImage

-----------------------------------------------------------------------------
(* The invariant *)

Picked == PickFlashImage(flash[1].header, flash[2].header)

\* What is loading or running is what PickFlashImage picks from the flash as
\* it is: the flash is replaced only while the power is off.
Choice == pc \in {"load", "app"} => boot_image = Picked /\ boot_image # 0

\* TypeOK with Choice is inductive.
TInv == TypeOK /\ Choice

LEMMA InitTInv == Init => TInv
  BY BootAssumption DEF Init, TInv, TypeOK, Choice

LEMMA NextTInv == TInv /\ [Next]_vars => TInv'
  <1> SUFFICES ASSUME TInv, [Next]_vars PROVE TInv'
    OBVIOUS
  <1> USE DEF TInv, TypeOK, Choice, Picked
  <1>1. CASE Pick
    <2>1. boot_image' \in 0 .. 2
      BY <1>1, PickRange DEF Pick
    <2>2. pc' = "load" => boot_image' # 0
      BY <1>1 DEF Pick
    <2>3. pc' = "load" => Records' \in Seq([at : Nat, len : Nat])
      BY <1>1, <2>1, <2>2, BootAssumption DEF Pick, Records
    <2>4. QED
      BY <1>1, <2>1, <2>2, <2>3 DEF Pick
  <1>2. CASE CopyRecord
    <2>1. Records \in Seq([at : Nat, len : Nat])
      BY <1>2, BootAssumption DEF CopyRecord, Records
    <2>2. next' \in 1 .. Len(Records) + 1
      BY <1>2, <2>1 DEF CopyRecord
    <2>3. Records' = Records
      BY <1>2 DEF CopyRecord, Records
    <2>4. QED
      BY <1>2, <2>2, <2>3 DEF CopyRecord
  <1>3. CASE JumpToEntry
    <2>1. flash[boot_image].prog \in Programs
      BY <1>3 DEF JumpToEntry
    <2>2. entry_point' \in Entry \cup {RESET, HALT}
      BY <1>3, <2>1, BootAssumption DEF JumpToEntry
    <2>3. QED
      BY <1>3, <2>2 DEF JumpToEntry
  <1>4. CASE JumpToReset
    BY <1>4 DEF JumpToReset
  <1>5. CASE AppReturns
    BY <1>5 DEF AppReturns
  <1>6. CASE PowerCycle
    <2>1. flash' \in [1 .. 2 -> [header : Headers, prog : Programs]]
      BY <1>6 DEF PowerCycle
    <2>2. QED
      BY <1>6, <2>1, BootAssumption DEF PowerCycle
  <1>7. CASE UNCHANGED vars
    BY <1>7 DEF vars, Records
  <1>8. QED
    BY <1>1, <1>2, <1>3, <1>4, <1>5, <1>6, <1>7 DEF Next

\* Type correctness: a record that is copied exists, and the copier never
\* loads image 0 (alt_main, LoadFlashImage).
THEOREM TypeCorrect == Spec => []TypeOK
  <1>1. TInv => TypeOK
    BY DEF TInv
  <1>2. QED
    BY <1>1, InitTInv, NextTInv, PTL DEF Spec

\* For every pair of images the one that is loaded or runs is the one the
\* comment above PickFlashImage calls for, through power failures and
\* reprogramming.
THEOREM PicksTheBest == Spec => []PickIsBest
  <1>1. TInv => PickIsBest
    <2> SUFFICES ASSUME TInv, pc \in {"load", "app"}
                 PROVE  IsBest([i \in 1 .. 2 |-> flash[i].header], boot_image)
      BY DEF PickIsBest
    <2> DEFINE h == [i \in 1 .. 2 |-> flash[i].header]
    <2>1. h \in [1 .. 2 -> Header]
      BY BootAssumption DEF TInv, TypeOK
    <2>2. h[1] = flash[1].header /\ h[2] = flash[2].header
      OBVIOUS
    <2>3. boot_image = PickFlashImage(h[1], h[2])
      BY <2>2 DEF TInv, Choice, Picked
    <2> HIDE DEF h
    <2>4. IsBest(h, boot_image)
      BY <2>1, <2>3, PickMeetsCriteria
    <2>5. QED
      BY <2>4 DEF h
  <1>2. QED
    BY <1>1, InitTInv, NextTInv, PTL DEF Spec

-----------------------------------------------------------------------------
(* What memory holds *)

\* Of the records before the n-th those that cover a, and the last of them.
Covering(recs, n, a) == {i \in DOMAIN recs : i < n /\ a \in Span(recs[i])}
IsLast(recs, n, a, i) ==
    i \in Covering(recs, n, a) /\ \A j \in Covering(recs, n, a) : j <= i

\* While an image is loaded each address holds the last record copied to it.
LastWins ==
    pc \in {"load", "app"} =>
        \A a \in Addr : Covering(Records, next, a) # {} =>
            \E i \in Nat : IsLast(Records, next, a, i) /\ memory[a] = <<boot_image, i>>

\* Memory is written only where the picked image has a record, also by the
\* loads before this one: they were of the same image.
Footprint(a) ==
    /\ Picked # 0
    /\ \E i \in DOMAIN flash[Picked].prog.recs : a \in Span(flash[Picked].prog.recs[i])

NothingElse == \A a \in Addr : memory[a] = NoData \/ Footprint(a)

AllCopied == pc = "app" => next \in Nat /\ next > Len(Records)

MInv == TInv /\ LastWins /\ NothingElse /\ AllCopied

LEMMA InitMInv == Init => MInv
  BY InitTInv DEF Init, MInv, LastWins, NothingElse, AllCopied

\* One turn of the copy loop.
LEMMA CopyStep ==
    ASSUME MInv, TInv', CopyRecord
    PROVE  LastWins' /\ NothingElse'
  <1>1. /\ Records' = Records /\ boot_image' = boot_image /\ Picked' = Picked
        /\ flash' = flash
        /\ Records \in Seq([at : Nat, len : Nat])
        /\ next \in 1 .. Len(Records) /\ next' = next + 1
        /\ boot_image = Picked /\ Picked # 0 /\ pc = "load" /\ pc' = "load"
        /\ Records = flash[Picked].prog.recs
    BY BootAssumption DEF CopyRecord, Records, Picked, MInv, TInv, TypeOK, Choice
  <1>2. \A a \in Addr : memory'[a] = IF a \in Span(Records[next])
                                     THEN <<boot_image, next>> ELSE memory[a]
    BY DEF CopyRecord
  <1>3. ASSUME NEW a \in Addr, a \in Span(Records[next])
        PROVE  /\ IsLast(Records, next + 1, a, next)
               /\ memory'[a] = <<boot_image, next>>
    BY <1>1, <1>2, <1>3 DEF IsLast, Covering
  <1>4. ASSUME NEW a \in Addr, a \notin Span(Records[next])
        PROVE  /\ Covering(Records, next + 1, a) = Covering(Records, next, a)
               /\ memory'[a] = memory[a]
    <2>1. \A i \in DOMAIN Records : i \in Nat /\ (i = next => a \notin Span(Records[i]))
      BY <1>1, <1>4
    <2>2. \A i \in DOMAIN Records :
              i < next + 1 /\ a \in Span(Records[i]) <=> i < next /\ a \in Span(Records[i])
      BY <1>1, <2>1, SMTT(40)
    <2>3. QED
      BY <1>2, <1>4, <2>2 DEF Covering
  <1>5. ASSUME NEW a \in Addr, Covering(Records, next + 1, a) # {}
        PROVE  \E i \in Nat : IsLast(Records, next + 1, a, i)
                              /\ memory'[a] = <<boot_image, i>>
    <2>1. CASE a \in Span(Records[next])
      BY <1>1, <1>3, <2>1
    <2>2. CASE a \notin Span(Records[next])
      <3>1. PICK i \in Nat : IsLast(Records, next, a, i) /\ memory[a] = <<boot_image, i>>
        BY <1>1, <1>4, <1>5, <2>2 DEF MInv, LastWins
      <3>2. QED
        BY <1>4, <2>2, <3>1 DEF IsLast
    <2>3. QED
      BY <2>1, <2>2
  <1>6. LastWins'
    BY <1>1, <1>5 DEF LastWins
  <1>7. ASSUME NEW a \in Addr
        PROVE  memory'[a] = NoData \/ Footprint(a)
    <2>1. CASE a \in Span(Records[next])
      BY <1>1, <2>1 DEF Footprint
    <2>2. CASE a \notin Span(Records[next])
      BY <1>4, <2>2 DEF MInv, NothingElse
    <2>3. QED
      BY <2>1, <2>2
  <1>8. \A a \in Addr : Footprint(a)' <=> Footprint(a)
    BY <1>1 DEF Footprint
  <1>9. QED
    BY <1>6, <1>7, <1>8 DEF NothingElse

LEMMA NextMInv == MInv /\ [Next]_vars => MInv'
  <1> SUFFICES ASSUME MInv, [Next]_vars PROVE MInv'
    OBVIOUS
  <1>0. TInv'
    BY NextTInv DEF MInv
  <1>1. CASE Pick
    <2>1. ASSUME pc' = "load" PROVE \A a \in Addr : Covering(Records', next', a) = {}
      <3>1. Records' \in Seq([at : Nat, len : Nat])
        BY <1>0, <1>1, <2>1, BootAssumption DEF Pick, TInv, TypeOK, Records
      <3>2. QED
        BY <1>1, <3>1 DEF Pick, Covering
    <2>2. LastWins'
      BY <1>1, <2>1 DEF Pick, LastWins
    <2>3. NothingElse'
      BY <1>1 DEF Pick, MInv, NothingElse, Footprint, Picked
    <2>4. QED
      BY <1>0, <1>1, <2>2, <2>3 DEF Pick, MInv, AllCopied
  <1>2. CASE CopyRecord
    BY <1>0, <1>2, CopyStep DEF CopyRecord, MInv, AllCopied
  <1>3. CASE JumpToEntry
    <2>1. NothingElse'
      BY <1>3 DEF JumpToEntry, MInv, NothingElse, Footprint, Picked
    <2>2. LastWins' /\ AllCopied'
      BY <1>3 DEF JumpToEntry, MInv, TInv, TypeOK, LastWins, AllCopied, Records
    <2>3. QED
      BY <1>0, <2>1, <2>2 DEF MInv
  <1>4. CASE JumpToReset
    BY <1>0, <1>4 DEF JumpToReset, MInv, NothingElse, Footprint, Picked, LastWins, AllCopied
  <1>5. CASE AppReturns
    BY <1>0, <1>5 DEF AppReturns, MInv, NothingElse, Footprint, Picked, LastWins, AllCopied
  <1>6. CASE PowerCycle
    BY <1>0, <1>6 DEF PowerCycle, MInv, NothingElse, LastWins, AllCopied
  <1>7. CASE UNCHANGED vars
    <2>1. NothingElse'
      BY <1>7 DEF vars, MInv, NothingElse, Footprint, Picked
    <2>2. LastWins' /\ AllCopied'
      BY <1>7 DEF vars, MInv, LastWins, AllCopied, Records
    <2>3. QED
      BY <1>0, <2>1, <2>2 DEF MInv
  <1>8. QED
    BY <1>1, <1>2, <1>3, <1>4, <1>5, <1>6, <1>7 DEF Next

\* For every program and every history of loads and power failures: at the
\* jump memory is what the records of the picked image describe.
THEOREM EntersWhole == Spec => []EntryIsWhole
  <1>1. MInv => EntryIsWhole
    <2> SUFFICES ASSUME MInv, pc = "app", NEW a \in Addr
                 PROVE  memory[a] = LastCovering(a)
      BY DEF EntryIsWhole
    <2> DEFINE covering == {i \in DOMAIN Records : a \in Span(Records[i])}
    <2>1. Records \in Seq([at : Nat, len : Nat]) /\ next > Len(Records)
          /\ next \in Nat /\ boot_image = Picked
          /\ Records = flash[Picked].prog.recs
      BY BootAssumption DEF MInv, TInv, TypeOK, Choice, AllCopied, Records
    <2>2. covering = Covering(Records, next, a)
      BY <2>1 DEF Covering
    <2>3. CASE covering = {}
      <3>1. memory[a] = NoData
        BY <2>1, <2>3 DEF MInv, NothingElse, Footprint
      <3>2. QED
        BY <2>3, <3>1 DEF LastCovering
    <2>4. CASE covering # {}
      <3>1. PICK i \in Nat : IsLast(Records, next, a, i) /\ memory[a] = <<boot_image, i>>
        BY <2>2, <2>4 DEF MInv, LastWins
      <3>2. i \in covering /\ \A j \in covering : j <= i
        BY <2>2, <3>1 DEF IsLast
      <3>3. \A k \in covering : (\A j \in covering : j <= k) => k = i
        <4>1. covering \subseteq Nat
          BY <2>1
        <4>2. QED
          BY <3>2, <4>1
      <3>4. (CHOOSE k \in covering : \A j \in covering : j <= k) = i
        BY <3>2, <3>3
      <3>5. QED
        BY <2>4, <3>1, <3>4 DEF LastCovering
    <2>5. QED
      BY <2>3, <2>4
  <1>2. QED
    BY <1>1, InitMInv, NextMInv, PTL DEF Spec
=============================================================================
