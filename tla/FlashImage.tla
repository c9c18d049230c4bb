----------------------------- MODULE FlashImage -----------------------------
(***************************************************************************)
(* Boot images in flash: the two functions over their headers that the     *)
(* boot copier (advanced_boot_copier.c) and the remote update              *)
(* (kurs_remote_update.c) share.  A header is abstracted to the outcome of *)
(* each of the three checks and to the two fields that order images.       *)
(***************************************************************************)
EXTENDS Naturals

Header == [signature : BOOLEAN, header_crc : BOOLEAN, data_crc : BOOLEAN,
           version : Nat, timestamp : Nat]

CRCS_VALID == 0
SIGNATURE_INVALID == 1
HEADER_CRC_INVALID == 2
DATA_CRC_INVALID == 3

\* Mutant: the CRC of the data is not looked at.
ValidateHeaderOnly(h) ==
    CASE ~h.signature  -> SIGNATURE_INVALID
      [] h.signature /\ ~h.header_crc -> HEADER_CRC_INVALID
      [] OTHER -> CRCS_VALID

\* The checks in the order the code makes them; the first to fail names the
\* result.
ValidateFlashImage(h) ==
    CASE ~h.signature -> SIGNATURE_INVALID
      [] h.signature /\ ~h.header_crc -> HEADER_CRC_INVALID
      [] h.signature /\ h.header_crc /\ ~h.data_crc -> DATA_CRC_INVALID
      [] OTHER -> CRCS_VALID

Valid(h) == ValidateFlashImage(h) = CRCS_VALID

\* Mutant: a tie of both fields goes to image 1.
PickFirstOnTie(h1, h2) ==
    CASE ~Valid(h1) /\ ~Valid(h2) -> 0
      [] ~Valid(h1) /\ Valid(h2) -> 2
      [] Valid(h1) /\ ~Valid(h2) -> 1
      [] Valid(h1) /\ Valid(h2) ->
            IF h1.version = h2.version
            THEN IF h1.timestamp >= h2.timestamp THEN 1 ELSE 2
            ELSE IF h1.version > h2.version THEN 1 ELSE 2

\* The number of the image to boot, 0 for none.
PickFlashImage(h1, h2) ==
    CASE ~Valid(h1) /\ ~Valid(h2) -> 0
      [] ~Valid(h1) /\ Valid(h2) -> 2
      [] Valid(h1) /\ ~Valid(h2) -> 1
      [] Valid(h1) /\ Valid(h2) ->
            IF h1.version = h2.version
            THEN IF h1.timestamp > h2.timestamp THEN 1 ELSE 2
            ELSE IF h1.version > h2.version THEN 1 ELSE 2

(***************************************************************************)
(* The criteria in the comment above PickFlashImage, as an order: of the   *)
(* valid images the one that none is later than, the version deciding,     *)
(* then the time stamp, then the number of the image.                      *)
(***************************************************************************)
LaterThan(h, i, j) ==
    \/ h[i].version > h[j].version
    \/ /\ h[i].version = h[j].version
       /\ \/ h[i].timestamp > h[j].timestamp
          \/ h[i].timestamp = h[j].timestamp /\ i > j

IsBest(h, p) ==
    LET valid == {i \in 1 .. 2 : Valid(h[i])}
    IN  IF valid = {} THEN p = 0
        ELSE p \in valid /\ \A i \in valid \ {p} : LaterThan(h, p, i)
=============================================================================
