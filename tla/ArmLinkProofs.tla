--------------------------- MODULE ArmLinkProofs ---------------------------
(***************************************************************************)
(* Proofs about the link to the ARM, for any number of requests, faults    *)
(* and stops of the timer, every size of the buffer its assumption allows  *)
(* and every value a damaged byte may take.                                *)
(*                                                                         *)
(* First what each call does to the receiver, a record; then the invariant *)
(* in six parts: where the main loop is (ControlInv), how many bytes can   *)
(* still come (RoomInv), that every byte is one of an answer or known to   *)
(* be damaged (GenuineInv), and of a request that began in silence how far *)
(* its reset is (ResetInv), that only its own answer can come (QuietInv)   *)
(* and that without a fault all of it does (CleanInv).                     *)
(***************************************************************************)
EXTENDS ArmLink, SequenceTheorems, TLAPS


-----------------------------------------------------------------------------
(* The receiver: what its operators do to the fields of the record.        *)

Mems == [1 .. 2 -> [1 .. Cap -> ByteSent \cup {Zero}]]

\* ProcessorOK with the sets of the fields as parameters: the provers update a
\* record better when they do not see what is in it.
Of(R, C, L, M, F, B, S) ==
    [receive : R, cntr : C, expected_len : L, mode : M, request_ready : F,
     reply_ready : F, buff : B, buff_copy : B, mem : S]

States == {"length", "func", "cmd", "payload"}
Receivers == Of(States, 0 .. Cap + 1, Nat, {"master", "slave"}, BOOLEAN, 1 .. 2, Mems)

LEMMA ReceiverType == \A p : ProcessorOK(p, ByteSent) <=> p \in Receivers
  BY DEF ProcessorOK, Receivers, Of, Mems, States

\* All of a receiver but the fields it is fed with.
Rest(q, p) == q.buff_copy = p.buff_copy /\ q.mode = p.mode

\* Receivers are such records.
LEMMA ReceiversAreRecords ==
    ASSUME Prot2Assumption
    PROVE  \E R, C, L, M, F, B :
              /\ States \subseteq R /\ 0 \in C /\ 0 \in L /\ BOOLEAN \subseteq F
              /\ 1 .. 2 \subseteq B
              /\ Receivers = Of(R, C, L, M, F, B, Mems)
  <1>1. 0 \in 0 .. Cap + 1 /\ 0 \in Nat
    BY Prot2Assumption
  <1>2. QED
    BY <1>1, Zenon DEF Receivers

\* Each write of ipglb_prot2_cleanup sets one field.
LEMMA CleanupWrites ==
    ASSUME NEW p \in Receivers
    PROVE  /\ LET q == CleanupWrite(p, 1) IN
                  /\ q \in Receivers /\ q.mem = p.mem /\ Rest(q, p)
                  /\ q.receive = p.receive /\ q.cntr = p.cntr /\ q.reply_ready = p.reply_ready
                  /\ q.expected_len = p.expected_len /\ q.buff = p.buff
           /\ LET q == CleanupWrite(p, 2) IN
                  /\ q \in Receivers /\ q.mem = p.mem /\ Rest(q, p)
                  /\ q.receive = "length" /\ q.cntr = p.cntr /\ q.reply_ready = p.reply_ready
                  /\ q.expected_len = p.expected_len /\ q.buff = p.buff
           /\ LET q == CleanupWrite(p, 3) IN
                  /\ q \in Receivers /\ q.mem = p.mem /\ Rest(q, p)
                  /\ q.receive = p.receive /\ q.cntr = 0 /\ q.reply_ready = p.reply_ready
                  /\ q.expected_len = p.expected_len /\ q.buff = p.buff
           /\ LET q == CleanupWrite(p, 4) IN
                  /\ q \in Receivers /\ q.mem = p.mem /\ Rest(q, p)
                  /\ q.receive = p.receive /\ q.cntr = p.cntr /\ q.reply_ready = FALSE
                  /\ q.expected_len = p.expected_len /\ q.buff = p.buff
           /\ LET q == CleanupWrite(p, 5) IN
                  /\ q \in Receivers /\ q.mem = p.mem /\ Rest(q, p)
                  /\ q.receive = p.receive /\ q.cntr = p.cntr /\ q.reply_ready = p.reply_ready
                  /\ q.expected_len = 0 /\ q.buff = p.buff
           /\ LET q == CleanupWrite(p, 6) IN
                  /\ q \in Receivers /\ q.mem = p.mem /\ Rest(q, p)
                  /\ q.receive = p.receive /\ q.cntr = p.cntr /\ q.reply_ready = p.reply_ready
                  /\ q.expected_len = p.expected_len /\ q.buff = 1
<1>0. 1 # 2 /\ 1 # 3 /\ 1 # 4 /\ 1 # 5 /\ 1 # 6 /\ 2 # 3 /\ 2 # 4 /\ 2 # 5 /\ 2 # 6
      /\ 3 # 4 /\ 3 # 5 /\ 3 # 6 /\ 4 # 5 /\ 4 # 6 /\ 5 # 6
  OBVIOUS
<1>b. PICK R, C, L, M, F, B :
         /\ "length" \in R /\ 0 \in C /\ 0 \in L /\ FALSE \in F /\ 1 \in B
         /\ Receivers = Of(R, C, L, M, F, B, Mems)
  <2>1. "length" \in States /\ FALSE \in BOOLEAN /\ 1 \in 1 .. 2
    BY DEF States
  <2>2. QED
    BY <2>1, ReceiversAreRecords, Prot2Assumption, Zenon
<1>c. p \in Of(R, C, L, M, F, B, Mems)
  BY <1>b, Zenon
<1>1. LET q == CleanupWrite(p, 1) IN
         /\ q \in Receivers /\ q.mem = p.mem /\ Rest(q, p)
         /\ q.receive = p.receive /\ q.cntr = p.cntr /\ q.reply_ready = p.reply_ready
         /\ q.expected_len = p.expected_len /\ q.buff = p.buff
  <2>1. CleanupWrite(p, 1) = [p EXCEPT !.request_ready = FALSE]
    BY <1>0, ZenonT(60) DEF CleanupWrite
  <2> QED BY <2>1, <1>b, <1>c, Zenon DEF Of, Rest
<1>2. LET q == CleanupWrite(p, 2) IN
         /\ q \in Receivers /\ q.mem = p.mem /\ Rest(q, p)
         /\ q.receive = "length" /\ q.cntr = p.cntr /\ q.reply_ready = p.reply_ready
         /\ q.expected_len = p.expected_len /\ q.buff = p.buff
  <2>1. CleanupWrite(p, 2) = [p EXCEPT !.receive = "length"]
    BY <1>0, ZenonT(60) DEF CleanupWrite
  <2> QED BY <2>1, <1>b, <1>c, Zenon DEF Of, Rest
<1>3. LET q == CleanupWrite(p, 3) IN
         /\ q \in Receivers /\ q.mem = p.mem /\ Rest(q, p)
         /\ q.receive = p.receive /\ q.cntr = 0 /\ q.reply_ready = p.reply_ready
         /\ q.expected_len = p.expected_len /\ q.buff = p.buff
  <2>1. CleanupWrite(p, 3) = [p EXCEPT !.cntr = 0]
    BY <1>0, ZenonT(60) DEF CleanupWrite
  <2> QED BY <2>1, <1>b, <1>c, Zenon DEF Of, Rest
<1>4. LET q == CleanupWrite(p, 4) IN
         /\ q \in Receivers /\ q.mem = p.mem /\ Rest(q, p)
         /\ q.receive = p.receive /\ q.cntr = p.cntr /\ q.reply_ready = FALSE
         /\ q.expected_len = p.expected_len /\ q.buff = p.buff
  <2>1. CleanupWrite(p, 4) = [p EXCEPT !.reply_ready = FALSE]
    BY <1>0, ZenonT(60) DEF CleanupWrite
  <2> QED BY <2>1, <1>b, <1>c, Zenon DEF Of, Rest
<1>5. LET q == CleanupWrite(p, 5) IN
         /\ q \in Receivers /\ q.mem = p.mem /\ Rest(q, p)
         /\ q.receive = p.receive /\ q.cntr = p.cntr /\ q.reply_ready = p.reply_ready
         /\ q.expected_len = 0 /\ q.buff = p.buff
  <2>1. CleanupWrite(p, 5) = [p EXCEPT !.expected_len = 0]
    BY <1>0, ZenonT(60) DEF CleanupWrite
  <2> QED BY <2>1, <1>b, <1>c, Zenon DEF Of, Rest
<1>6. LET q == CleanupWrite(p, 6) IN
         /\ q \in Receivers /\ q.mem = p.mem /\ Rest(q, p)
         /\ q.receive = p.receive /\ q.cntr = p.cntr /\ q.reply_ready = p.reply_ready
         /\ q.expected_len = p.expected_len /\ q.buff = 1
  <2>1. CleanupWrite(p, 6) = [p EXCEPT !.buff = 1]
    BY <1>0, ZenonT(60) DEF CleanupWrite
  <2> QED BY <2>1, <1>b, <1>c, Zenon DEF Of, Rest
<1> QED BY <1>1, <1>2, <1>3, <1>4, <1>5, <1>6, Zenon

Cleaned(q, p) ==
    /\ q.receive = "length" /\ q.cntr = 0 /\ ~q.reply_ready /\ q.buff = 1
    /\ q.mem = p.mem /\ Rest(q, p)

\* The six of them in a row, as the interrupt makes them.
LEMMA CleanupCleans ==
    ASSUME NEW p \in Receivers
    PROVE  /\ ipglb_prot2_cleanup(p) \in Receivers
           /\ Cleaned(ipglb_prot2_cleanup(p), p)
<1> DEFINE a == CleanupWrite(p, 1)  b == CleanupWrite(a, 2)  c == CleanupWrite(b, 3)
           d == CleanupWrite(c, 4)  e == CleanupWrite(d, 5)  f == CleanupWrite(e, 6)
<1>0. ipglb_prot2_cleanup(p) = f BY Zenon DEF ipglb_prot2_cleanup
<1>1. a \in Receivers /\ a.mem = p.mem /\ Rest(a, p)
  BY CleanupWrites, Zenon
<1> HIDE DEF a
<1>2. b \in Receivers /\ b.mem = p.mem /\ Rest(b, p) /\ b.receive = "length"
  BY <1>1, CleanupWrites, Zenon DEF Rest
<1> HIDE DEF b
<1>3. c \in Receivers /\ c.mem = p.mem /\ Rest(c, p) /\ c.receive = "length" /\ c.cntr = 0
  BY <1>2, CleanupWrites, Zenon DEF Rest
<1> HIDE DEF c
<1>4. /\ d \in Receivers /\ d.mem = p.mem /\ Rest(d, p) /\ d.receive = "length" /\ d.cntr = 0
      /\ ~d.reply_ready
  BY <1>3, CleanupWrites, Zenon DEF Rest
<1> HIDE DEF d
<1>5. /\ e \in Receivers /\ e.mem = p.mem /\ Rest(e, p) /\ e.receive = "length" /\ e.cntr = 0
      /\ ~e.reply_ready
  BY <1>4, CleanupWrites, Zenon DEF Rest
<1> HIDE DEF e
<1>6. /\ f \in Receivers /\ f.mem = p.mem /\ Rest(f, p) /\ f.receive = "length" /\ f.cntr = 0
      /\ ~f.reply_ready /\ f.buff = 1
  BY <1>5, CleanupWrites, Zenon DEF Rest
<1> QED BY <1>0, <1>6, Zenon DEF Cleaned

\* The same by number, for the main loop, which the interrupt may stop in between.
LEMMA CleanupWriteBoth ==
    ASSUME NEW p \in Receivers, NEW i \in Writes
    PROVE  LET q == CleanupWrite(p, i) IN
           /\ q \in Receivers /\ q.mem = p.mem /\ Rest(q, p)
           /\ (i = 2 => q.receive = "length") /\ (i # 2 => q.receive = p.receive)
           /\ (i = 3 => q.cntr = 0) /\ (i # 3 => q.cntr = p.cntr)
           /\ (i = 6 => q.buff = 1) /\ (i # 6 => q.buff = p.buff)
           /\ (i = 4 => ~q.reply_ready) /\ (i # 4 => q.reply_ready = p.reply_ready)
<1>0. 1 # 2 /\ 1 # 3 /\ 1 # 4 /\ 1 # 5 /\ 1 # 6 /\ 2 # 3 /\ 2 # 4 /\ 2 # 5 /\ 2 # 6
      /\ 3 # 4 /\ 3 # 5 /\ 3 # 6 /\ 4 # 5 /\ 4 # 6 /\ 5 # 6
  OBVIOUS
<1>1. CASE i = 1 BY <1>0, <1>1, CleanupWrites, Zenon
<1>2. CASE i = 2 BY <1>0, <1>2, CleanupWrites, Zenon
<1>3. CASE i = 3 BY <1>0, <1>3, CleanupWrites, Zenon
<1>4. CASE i = 4 BY <1>0, <1>4, CleanupWrites, Zenon
<1>5. CASE i = 5 BY <1>0, <1>5, CleanupWrites, Zenon
<1>6. CASE i = 6 BY <1>0, <1>6, CleanupWrites, Zenon
<1> QED BY <1>1, <1>2, <1>3, <1>4, <1>5, <1>6 DEF Writes

\* The flag apart from the rest: the provers are at odds about Booleans.
LEMMA CleanupWriteStep ==
    ASSUME NEW p \in Receivers, NEW i \in Writes
    PROVE  LET q == CleanupWrite(p, i) IN
           /\ q \in Receivers /\ q.mem = p.mem /\ Rest(q, p)
           /\ (i = 2 => q.receive = "length") /\ (i # 2 => q.receive = p.receive)
           /\ (i = 3 => q.cntr = 0) /\ (i # 3 => q.cntr = p.cntr)
           /\ (i = 6 => q.buff = 1) /\ (i # 6 => q.buff = p.buff)
  BY CleanupWriteBoth, Zenon

LEMMA CleanupWriteReady ==
    ASSUME NEW p \in Receivers, NEW i \in Writes
    PROVE  /\ i = 4 => ~CleanupWrite(p, i).reply_ready
           /\ i # 4 => CleanupWrite(p, i).reply_ready = p.reply_ready
  BY CleanupWriteBoth, Zenon

-----------------------------------------------------------------------------

\* Where a byte is stored: q has c behind the bytes of p.
StoredIn(q, p, c) ==
    /\ \A i \in 1 .. Cap :
          q.mem[p.buff][i] = IF i = p.cntr + 1 THEN c ELSE p.mem[p.buff][i]
    /\ q.mem[3 - p.buff] = p.mem[3 - p.buff]

\* this->buff[this->_cntr++] = c, where there is room.
LEMMA StoreStep ==
    ASSUME NEW p \in Receivers, NEW c \in ByteSent, p.cntr < Cap
    PROVE  LET q == Store(p, c) IN
           /\ q \in Receivers /\ StoredIn(q, p, c) /\ Rest(q, p)
           /\ q.cntr = p.cntr + 1 /\ q.receive = p.receive
           /\ q.expected_len = p.expected_len
           /\ q.reply_ready = p.reply_ready /\ q.buff = p.buff
<1> DEFINE m == [p.mem EXCEPT ![p.buff][p.cntr + 1] = c]
<1>1. PICK n : n = p.cntr + 1
  OBVIOUS
<1>2. n \in 0 .. Cap + 1
  BY <1>1, Prot2Assumption, ArmLinkAssumption DEF Receivers, Of
<1>p. /\ p.buff \in 1 .. 2 /\ p.cntr \in Nat /\ p.mem \in Mems
  BY DEF Receivers, Of
<1>3. /\ m \in Mems
      /\ \A i \in 1 .. Cap : m[p.buff][i] = IF i = p.cntr + 1 THEN c ELSE p.mem[p.buff][i]
      /\ m[3 - p.buff] = p.mem[3 - p.buff]
  <2> DEFINE row == [p.mem[p.buff] EXCEPT ![n] = c]
  <2>1. p.mem[p.buff] \in [1 .. Cap -> ByteSent \cup {Zero}]
    BY <1>p DEF Mems
  <2>2. /\ row \in [1 .. Cap -> ByteSent \cup {Zero}]
        /\ \A i \in 1 .. Cap : row[i] = IF i = n THEN c ELSE p.mem[p.buff][i]
    BY <2>1
  <2>3. m = [p.mem EXCEPT ![p.buff] = row]
    BY <1>1, Zenon
  <2> HIDE DEF row
  <2>4. m \in Mems /\ m[p.buff] = row
    BY <1>p, <2>2, <2>3 DEF Mems
  <2>5. m[3 - p.buff] = p.mem[3 - p.buff]
    BY <1>p, <2>3 DEF Mems
  <2> QED BY <1>1, <2>2, <2>4, <2>5
<1>4. Store(p, c) = [p EXCEPT !.mem = m, !.cntr = n]
  BY <1>1 DEF Receivers, Of, Store
<1> HIDE DEF m
<1>5. LET q == Store(p, c) IN
      /\ q \in Receivers /\ q.mem = m /\ Rest(q, p)
      /\ q.cntr = n /\ q.receive = p.receive
      /\ q.expected_len = p.expected_len
      /\ q.reply_ready = p.reply_ready /\ q.buff = p.buff
  <2>1. \E R, C, L, M, F, B :
           n \in C /\ Receivers = Of(R, C, L, M, F, B, Mems)
    BY <1>2, Zenon DEF Receivers
  <2>2. PICK R, C, L, M, F, B :
           n \in C /\ Receivers = Of(R, C, L, M, F, B, Mems)
    BY <2>1, Zenon
  <2> QED BY <1>3, <1>4, <2>2, Zenon DEF Of, Rest
<1>6. StoredIn(Store(p, c), p, c)
  BY <1>3, <1>5 DEF StoredIn
<1> QED BY <1>1, <1>5, <1>6

\* What a byte does: it is stored and the state goes on, it makes the receiver
\* start again, or it completes a packet.
Fed(q, p, c, next) ==
    /\ q \in Receivers /\ StoredIn(q, p, c) /\ Rest(q, p)
    /\ q.receive = next /\ q.cntr = p.cntr + 1 /\ q.buff = p.buff

Dropped(q, p, c) ==
    /\ q \in Receivers /\ StoredIn(q, p, c) /\ Rest(q, p)
    /\ q.receive = "length" /\ q.cntr = 0 /\ q.buff = 1

Handed(q, p, c) ==
    /\ q \in Receivers /\ q.mode = p.mode
    /\ q.receive = "length" /\ q.cntr = 0
    /\ q.buff_copy = p.buff /\ q.buff = 3 - p.buff
    /\ \A i \in 1 .. Cap :
          q.mem[p.buff][i] = IF i = p.cntr + 1 THEN c ELSE p.mem[p.buff][i]
    /\ q.mem[3 - p.buff] = Blank

\* The four states of ipglb_prot2_receive.
LEMMA ReceiveLength ==
    ASSUME NEW p \in Receivers, NEW c \in ByteSent, p.cntr < Cap, p.receive = "length"
    PROVE  LET q == ipglb_prot2_receive(p, c, FALSE) IN
           /\ Fed(q, p, c, "func") /\ q.expected_len = c.val
           /\ q.reply_ready = p.reply_ready
<1> DEFINE s == Store(p, c)
<1>1. ipglb_prot2_receive(p, c, FALSE) = [s EXCEPT !.expected_len = c.val, !.receive = "func"]
  BY Zenon DEF ipglb_prot2_receive, listen_length
<1>2. /\ s \in Receivers /\ StoredIn(s, p, c) /\ Rest(s, p)
      /\ s.cntr = p.cntr + 1 /\ s.reply_ready = p.reply_ready /\ s.buff = p.buff
  BY StoreStep, Zenon
<1> HIDE DEF s
<1>3. c.val \in Nat /\ "func" \in States
  BY DEF ByteSent, States
<1>4. LET q == ipglb_prot2_receive(p, c, FALSE) IN
      /\ q \in Receivers /\ q.mem = s.mem /\ Rest(q, s)
      /\ q.receive = "func" /\ q.cntr = s.cntr /\ q.buff = s.buff
      /\ q.expected_len = c.val /\ q.reply_ready = s.reply_ready
  BY <1>1, <1>2, <1>3, Zenon DEF Receivers, Of, Rest
<1> QED
  BY <1>2, <1>4, Zenon DEF Fed, StoredIn, Rest

LEMMA ReceiveFunc ==
    ASSUME NEW p \in Receivers, NEW c \in ByteSent, p.cntr < Cap, p.receive = "func"
    PROVE  LET q == ipglb_prot2_receive(p, c, FALSE) IN
           /\ Fed(q, p, c, "cmd") /\ q.expected_len = p.expected_len
           /\ q.reply_ready = p.reply_ready
<1> DEFINE s == Store(p, c)
<1>0. "func" # "length"
  OBVIOUS
<1>1. ipglb_prot2_receive(p, c, FALSE) = [s EXCEPT !.receive = "cmd"]
  BY <1>0, Zenon DEF ipglb_prot2_receive, listen_func
<1>2. /\ s \in Receivers /\ StoredIn(s, p, c) /\ Rest(s, p)
      /\ s.cntr = p.cntr + 1 /\ s.reply_ready = p.reply_ready /\ s.buff = p.buff
      /\ s.expected_len = p.expected_len
  BY StoreStep, Zenon
<1> HIDE DEF s
<1>3. "cmd" \in States
  BY DEF States
<1>4. LET q == ipglb_prot2_receive(p, c, FALSE) IN
      /\ q \in Receivers /\ q.mem = s.mem /\ Rest(q, s)
      /\ q.receive = "cmd" /\ q.cntr = s.cntr /\ q.buff = s.buff
      /\ q.expected_len = s.expected_len /\ q.reply_ready = s.reply_ready
  BY <1>1, <1>2, <1>3, Zenon DEF Receivers, Of, Rest
<1> QED
  BY <1>2, <1>4, Zenon DEF Fed, StoredIn, Rest

LEMMA ReceiveCmd ==
    ASSUME NEW p \in Receivers, NEW c \in ByteSent, p.cntr < Cap, p.receive = "cmd"
    PROVE  LET q == ipglb_prot2_receive(p, c, FALSE) IN
           IF c.val % NACK \in Commands
           THEN /\ Fed(q, p, c, "payload") /\ q.expected_len = p.expected_len
                /\ q.reply_ready = p.reply_ready
           ELSE Dropped(q, p, c) /\ ~q.reply_ready
<1> DEFINE s == Store(p, c)
<1>0. "cmd" # "length" /\ "cmd" # "func"
  OBVIOUS
<1>1. ipglb_prot2_receive(p, c, FALSE) =
         IF c.val % NACK \notin Commands THEN ipglb_prot2_cleanup(s)
         ELSE [s EXCEPT !.receive = "payload"]
  BY <1>0, Zenon DEF ipglb_prot2_receive, listen_cmd
<1>2. /\ s \in Receivers /\ StoredIn(s, p, c) /\ Rest(s, p)
      /\ s.cntr = p.cntr + 1 /\ s.reply_ready = p.reply_ready /\ s.buff = p.buff
      /\ s.expected_len = p.expected_len
  BY StoreStep, Zenon
<1> HIDE DEF s
<1>3. "payload" \in States
  BY DEF States
<1>4. CASE c.val % NACK \in Commands
  <2>0. ipglb_prot2_receive(p, c, FALSE) = [s EXCEPT !.receive = "payload"]
    BY <1>1, <1>4, Zenon
  <2>1. LET q == ipglb_prot2_receive(p, c, FALSE) IN
        /\ q \in Receivers /\ q.mem = s.mem /\ Rest(q, s)
        /\ q.receive = "payload" /\ q.cntr = s.cntr /\ q.buff = s.buff
        /\ q.expected_len = s.expected_len /\ q.reply_ready = s.reply_ready
    BY <1>2, <1>3, <2>0, Zenon DEF Receivers, Of, Rest
  <2> QED
    BY <1>2, <1>4, <2>1, Zenon DEF Fed, StoredIn, Rest
<1>5. CASE c.val % NACK \notin Commands
  <2>1. ipglb_prot2_receive(p, c, FALSE) = ipglb_prot2_cleanup(s)
    BY <1>1, <1>5, Zenon
  <2>2. LET q == ipglb_prot2_receive(p, c, FALSE) IN q \in Receivers /\ Cleaned(q, s)
    BY <1>2, <2>1, CleanupCleans, Zenon
  <2>m. ipglb_prot2_receive(p, c, FALSE).mem = s.mem
    BY <2>2, Zenon DEF Cleaned
  <2>3. StoredIn(ipglb_prot2_receive(p, c, FALSE), p, c)
    BY ONLY <1>2, <2>m, Zenon DEF StoredIn
  <2>4. Rest(ipglb_prot2_receive(p, c, FALSE), p)
    BY <1>2, <2>2, Zenon DEF Cleaned, Rest
  <2>5. Dropped(ipglb_prot2_receive(p, c, FALSE), p, c)
    BY <2>2, <2>3, <2>4, Zenon DEF Cleaned, Dropped
  <2>6. ~ipglb_prot2_receive(p, c, FALSE).reply_ready
    BY <2>2, Zenon DEF Cleaned
  <2> QED
    BY <1>5, <2>5, <2>6, Zenon
<1> QED
  BY <1>4, <1>5, Zenon

LEMMA ReceivePayload ==
    ASSUME NEW p \in Receivers, NEW c \in ByteSent, p.cntr < Cap, p.receive = "payload"
    PROVE  LET q == ipglb_prot2_receive(p, c, FALSE) IN
           IF p.cntr + 1 # p.expected_len
           THEN /\ Fed(q, p, c, "payload") /\ q.expected_len = p.expected_len
                /\ q.reply_ready = p.reply_ready
           ELSE Handed(q, p, c) /\ (p.mode = "master" => q.reply_ready)
<1> DEFINE s == Store(p, c)
<1>0. "payload" # "length" /\ "payload" # "func" /\ "payload" # "cmd"
  OBVIOUS
<1>1. ipglb_prot2_receive(p, c, FALSE) = IF s.cntr = s.expected_len THEN HandOver(s) ELSE s
  BY <1>0, Zenon DEF ipglb_prot2_receive, listen_payload
<1>2. /\ s \in Receivers /\ StoredIn(s, p, c) /\ Rest(s, p)
      /\ s.cntr = p.cntr + 1 /\ s.reply_ready = p.reply_ready /\ s.buff = p.buff
      /\ s.expected_len = p.expected_len /\ s.receive = "payload"
  BY StoreStep, Zenon
<1> HIDE DEF s
<1>4. CASE p.cntr + 1 # p.expected_len
  BY <1>1, <1>2, <1>4, Zenon DEF Fed
<1>5. CASE p.cntr + 1 = p.expected_len
  <2>1. ipglb_prot2_receive(p, c, FALSE) = HandOver(s)
    BY <1>1, <1>2, <1>5, Zenon
  <2> DEFINE m == [s.mem EXCEPT ![3 - s.buff] = Blank]
  <2>2. PICK b : b = 3 - s.buff
    OBVIOUS
  <2>3. s.buff \in 1 .. 2 /\ s.mem \in Mems
    BY <1>2 DEF Receivers, Of
  <2>4. b \in 1 .. 2 /\ b # s.buff
    BY <2>2, <2>3
  <2>5. m \in Mems
    BY <2>2, <2>3, <2>4 DEF Mems, Blank
  <2>6. m[b] = Blank /\ m[s.buff] = s.mem[s.buff]
    BY <2>2, <2>3, <2>4 DEF Mems
  <2>f. PICK f : f = (s.reply_ready \/ s.mode = "master")
    OBVIOUS
  <2>g. PICK g : g = (s.request_ready \/ s.mode = "slave")
    OBVIOUS
  <2>7. HandOver(s) =
           [s EXCEPT !.receive = "length", !.cntr = 0, !.reply_ready = f,
                     !.request_ready = g, !.buff_copy = s.buff, !.buff = b, !.mem = m]
    BY <1>2, <2>2, <2>f, <2>g DEF HandOver, Receivers, Of
  <2> HIDE DEF m
  <2>8. /\ "length" \in States /\ f \in BOOLEAN /\ g \in BOOLEAN
        /\ b \in 1 .. 2 /\ s.buff \in 1 .. 2
    BY <2>3, <2>4, <2>f, <2>g DEF States
  <2>9. LET q == HandOver(s) IN
        /\ q \in Receivers /\ q.mem = m /\ q.mode = s.mode
        /\ q.receive = "length" /\ q.cntr = 0
        /\ q.buff_copy = s.buff /\ q.buff = b
        /\ q.reply_ready = f
    <3>1. PICK R, C, L, M, F, B :
             /\ "length" \in R /\ 0 \in C /\ f \in F /\ g \in F /\ b \in B /\ s.buff \in B
             /\ Receivers = Of(R, C, L, M, F, B, Mems)
      BY <2>8, ReceiversAreRecords, Prot2Assumption, Zenon
    <3>2. s \in Of(R, C, L, M, F, B, Mems)
      BY <1>2, <3>1, Zenon
    <3> QED
      BY <2>5, <2>7, <3>1, <3>2, Zenon DEF Of
  <2>10. Handed(HandOver(s), p, c)
    BY <1>2, <2>2, <2>6, <2>9 DEF Handed, StoredIn, Rest
  <2>11. p.mode = "master" => HandOver(s).reply_ready
    BY <1>2, <2>f, <2>9, Zenon DEF Rest
  <2> QED
    BY <1>5, <2>1, <2>10, <2>11, Zenon
<1> QED
  BY <1>4, <1>5, Zenon
Arrival(q, p, c) ==
    \/ /\ p.receive = "length" /\ Fed(q, p, c, "func") /\ q.expected_len = c.val
       /\ q.reply_ready <=> p.reply_ready
    \/ /\ p.receive = "func" /\ Fed(q, p, c, "cmd") /\ q.expected_len = p.expected_len
       /\ q.reply_ready <=> p.reply_ready
    \/ /\ p.receive = "cmd" /\ Fed(q, p, c, "payload") /\ q.expected_len = p.expected_len
       /\ q.reply_ready <=> p.reply_ready
    \/ p.receive = "cmd" /\ c.val % NACK \notin Commands /\ Dropped(q, p, c) /\ ~q.reply_ready
    \/ /\ p.receive = "payload" /\ Fed(q, p, c, "payload") /\ q.expected_len = p.expected_len
       /\ p.cntr + 1 # p.expected_len
       /\ q.reply_ready <=> p.reply_ready
    \/ p.receive = "payload" /\ p.cntr + 1 = p.expected_len /\ Handed(q, p, c) /\ q.reply_ready

\* What a byte may do, in one place.
LEMMA ReceiveStep ==
    ASSUME NEW p \in Receivers, NEW c \in ByteSent, p.cntr < Cap, p.mode = "master"
    PROVE  Arrival(ipglb_prot2_receive(p, c, FALSE), p, c)
<1>1. p.receive \in States
  BY Zenon DEF Receivers, Of
<1>2. p.receive = "length" \/ p.receive = "func" \/ p.receive = "cmd" \/ p.receive = "payload"
  BY <1>1 DEF States
<1>3. CASE p.receive = "length" BY <1>3, ReceiveLength, Zenon DEF Arrival
<1>4. CASE p.receive = "func" BY <1>4, ReceiveFunc, Zenon DEF Arrival
<1>5. CASE p.receive = "cmd" BY <1>5, ReceiveCmd, Zenon DEF Arrival
<1>6. CASE p.receive = "payload" BY <1>6, ReceivePayload, Zenon DEF Arrival
<1> QED BY <1>2, <1>3, <1>4, <1>5, <1>6, Zenon

-----------------------------------------------------------------------------
(* The answers of the ARM.                                                 *)

LEMMA RepLens == RepLen("slot") = 5 /\ RepLen("get") = 6 /\ RepLen("set") = 4
<1>1. "get" # "slot" /\ "set" # "slot" /\ "set" # "get"
  OBVIOUS
<1> QED BY <1>1, Zenon DEF RepLen

\* The three answers differ in length.
LEMMA KindOfLength ==
    /\ \A k \in Kinds : RepLen(k) \in 4 .. 6
    /\ \A k, j \in Kinds : RepLen(k) = RepLen(j) => k = j
  BY RepLens DEF Kinds

Code(k) == IF k = "slot" THEN 0 ELSE IF k = "get" THEN 1 ELSE 2

LEMMA TagIs ==
    \A k \in Kinds : \A n : Tag(k, n) = 3 * n + Code(k)
<1> TAKE k \in Kinds
<1> TAKE n
<1>1. "get" # "slot" /\ "set" # "slot" /\ "set" # "get"
  OBVIOUS
<1>3. CASE k = "slot" BY <1>1, <1>3, Zenon DEF Tag, Code
<1>4. CASE k = "get" BY <1>1, <1>4, Zenon DEF Tag, Code
<1>5. CASE k = "set" BY <1>1, <1>5, Zenon DEF Tag, Code
<1> QED BY <1>3, <1>4, <1>5, Zenon DEF Kinds

\* A tag tells kind and number.
LEMMA TagsDiffer ==
    ASSUME NEW k \in Kinds, NEW j \in Kinds, NEW n \in Nat, NEW m \in Nat, Tag(k, n) = Tag(j, m)
    PROVE  k = j /\ n = m
<1>1. 3 * n + Code(k) = 3 * m + Code(j)
  BY TagIs, Zenon
<1>2. Code(k) \in 0 .. 2 /\ Code(j) \in 0 .. 2 /\ (Code(k) = Code(j) => k = j)
  BY DEF Code, Kinds
<1>3. PICK y \in 0 .. 2, z \in 0 .. 2 : y = Code(k) /\ z = Code(j)
  BY <1>2
<1>4. n = m /\ y = z
  BY <1>1, <1>3
<1> QED BY <1>2, <1>3, <1>4, Zenon

\* What the bytes of an answer are.
LEMMA ReplyBytes ==
    ASSUME NEW k \in Kinds, NEW n \in 1 .. Packets, NEW i \in 1 .. RepLen(k)
    PROVE  LET b == ReplyPacket(k, n)[i] IN
           /\ b \in ByteSent /\ b.idx = i /\ b.pkt = Tag(k, n) /\ b.pkt # 0
           /\ i = 1 => b.val = RepLen(k)
           /\ i = 2 => b.val = Func(k)
           /\ i = 3 => b.val \in {0, 1}
<1>1. RepLen(k) \in 4 .. 6
  BY KindOfLength
<1>2. Func(k) \in {80, 81}
  BY DEF Func
<1> DEFINE v == CASE i = 1 -> RepLen(k)
                  [] i = 2 -> Func(k)
                  [] i = 3 -> IF k = "set" THEN 0 ELSE 1
                  [] i = RepLen(k) -> 7
                  [] OTHER -> 2
<1>3. ReplyPacket(k, n)[i] = [val |-> v, pkt |-> Tag(k, n), idx |-> i]
  BY Zenon DEF ReplyPacket
<1>4. 1 # 2 /\ 1 # 3 /\ 2 # 3 /\ (i = RepLen(k) => i # 1 /\ i # 2 /\ i # 3)
  BY <1>1
<1>5. /\ i = 1 => v = RepLen(k)
      /\ i = 2 => v = Func(k)
      /\ i = 3 => v = IF k = "set" THEN 0 ELSE 1
      /\ i = RepLen(k) => v = 7
      /\ i # 1 /\ i # 2 /\ i # 3 /\ i # RepLen(k) => v = 2
  <2>1. CASE i = 1 BY <1>4, <2>1, Zenon
  <2>2. CASE i = 2 BY <1>4, <2>2, Zenon
  <2>3. CASE i = 3 BY <1>4, <2>3, Zenon
  <2>4. CASE i = RepLen(k) BY <1>4, <2>4, Zenon
  <2>5. CASE i # 1 /\ i # 2 /\ i # 3 /\ i # RepLen(k) BY <2>5, Zenon
  <2> QED BY <2>1, <2>2, <2>3, <2>4, <2>5, Zenon
<1> HIDE DEF v
<1>6. v \in 0 .. 255 /\ (i = 3 => v \in {0, 1})
  BY <1>1, <1>2, <1>5
<1>7. Tag(k, n) \in 3 .. 3 * Packets + 2
  <2>1. Code(k) \in 0 .. 2
    BY DEF Code
  <2>2. 3 * n + Code(k) \in 3 .. 3 * Packets + 2
    BY <2>1, Prot2Assumption, ArmLinkAssumption
  <2> QED BY <2>2, TagIs, Zenon
<1>8. i \in 0 .. 6
  BY <1>1
<1>9. ReplyPacket(k, n)[i] \in ByteSent
  BY <1>3, <1>6, <1>7, <1>8 DEF ByteSent
<1>10. LET b == ReplyPacket(k, n)[i] IN
       b.val = v /\ b.pkt = Tag(k, n) /\ b.idx = i
  BY <1>3
<1> QED BY <1>5, <1>6, <1>7, <1>9, <1>10

LEMMA ReplyLine ==
    ASSUME NEW k \in Kinds, NEW n \in 1 .. Packets
    PROVE  ReplyPacket(k, n) \in Seq(ByteSent) /\ Len(ReplyPacket(k, n)) = RepLen(k)
<1>1. RepLen(k) \in Nat
  BY KindOfLength
<1>2. DOMAIN ReplyPacket(k, n) = 1 .. RepLen(k)
  BY Zenon DEF ReplyPacket
<1>3. ReplyPacket(k, n) = [i \in 1 .. RepLen(k) |-> ReplyPacket(k, n)[i]]
  BY <1>2 DEF ReplyPacket
<1>4. ReplyPacket(k, n) \in [1 .. RepLen(k) -> ByteSent]
  BY <1>3, ReplyBytes, Zenon
<1> QED BY <1>1, <1>4, SeqDef, LenProperties

\* A byte of the line or of a buffer is one of an answer, or it was damaged.
Genuine(b) ==
    b.pkt = 0 \/ \E k \in Kinds, n \in 1 .. Packets : \E i \in 1 .. RepLen(k) :
                     b = ReplyPacket(k, n)[i]

\* A buffer that states the length of an answer and passes uart_crc_ok holds
\* that answer: the tags of its bytes agree, and a tag tells kind and number.
LEMMA WholeReply ==
    ASSUME NEW k \in Kinds, NEW b, \A i \in 1 .. Cap : Genuine(b[i]),
           b[1].val = RepLen(k), uart_crc_ok(b)
    PROVE  \E n \in 1 .. Packets : IsReply(b, k, n)
<1>1. RepLen(k) \in 4 .. 6
  BY KindOfLength
<1>2. /\ b[1].pkt # 0
      /\ \A i \in 1 .. RepLen(k) : i <= Cap /\ b[i].pkt = b[1].pkt /\ b[i].idx = i
  BY DEF uart_crc_ok
<1>3. PICK j \in Kinds, n \in 1 .. Packets : \E i \in 1 .. RepLen(j) : b[1] = ReplyPacket(j, n)[i]
  BY <1>1, <1>2 DEF Genuine
<1>4. PICK i1 \in 1 .. RepLen(j) : b[1] = ReplyPacket(j, n)[i1]
  BY <1>3
<1>5. i1 = 1 /\ b[1].pkt = Tag(j, n)
  BY <1>1, <1>2, <1>4, ReplyBytes
<1>6. RepLen(j) = RepLen(k)
  BY <1>4, <1>5, ReplyBytes
<1>7. j = k
  BY <1>6, KindOfLength
<1>8. ASSUME NEW i \in 1 .. RepLen(k)
      PROVE  b[i] = ReplyPacket(k, n)[i]
  <2>1. b[i].pkt = Tag(k, n) /\ b[i].idx = i /\ b[i].pkt # 0 /\ i \in 1 .. Cap
    BY <1>1, <1>2, <1>5, <1>7
  <2>2. PICK h \in Kinds, m \in 1 .. Packets : \E z \in 1 .. RepLen(h) : b[i] = ReplyPacket(h, m)[z]
    BY <2>1 DEF Genuine
  <2>3. PICK z \in 1 .. RepLen(h) : b[i] = ReplyPacket(h, m)[z]
    BY <2>2
  <2>4. z = i /\ Tag(h, m) = Tag(k, n)
    BY <2>1, <2>3, ReplyBytes
  <2>5. h = k /\ m = n
    BY <2>4, TagsDiffer
  <2> QED BY <2>3, <2>4, <2>5
<1> QED BY <1>8 DEF IsReply

-----------------------------------------------------------------------------
(* The inductive invariant.                                                *)

\* Where the main loop is, and what the ARM holds.
ControlInv ==
    /\ arm_processor.mode = "master"
    /\ pc \notin {"reset", "end"} => write = 1
    /\ pc = "check" => reply \in 1 .. 2
    /\ held => arm # <<>>

\* Bytes that can still come, six for each answer the ARM owes, and those in the
\* receiver: what a request adds is taken from the bound by the next pause, in which
\* the line runs empty, and by the reset that follows.
Out == Len(line) + 6 * Len(arm)

RoomInv ==
    /\ Len(arm) <= MaxHeld
    /\ pc \in {"reset", "send"} => Len(arm) < MaxHeld
    /\ Out + arm_processor.cntr <= 6 * (MaxHeld + 1)
    /\ kind = "set" /\ pc \in {"reset", "send"} => Out + arm_processor.cntr <= 6 * MaxHeld
    /\ kind # "set" =>
           /\ Out <= 6 * MaxHeld
           /\ pc = "reset" => Out <= 6 * MaxHeld - 6
           /\ pc \in {"wait", "check", "end", "idle"} => Out + arm_processor.cntr <= 6 * MaxHeld
           /\ pc = "send" \/ (pc = "reset" /\ write > 3) =>
                  Out + arm_processor.cntr <= 6 * MaxHeld - 6

\* Every byte is one of an answer, as it was sent, or known to be damaged.
GenuineInv ==
    /\ \A i \in 1 .. Len(line) : Genuine(line[i])
    /\ \A m \in 1 .. 2 : \A i \in 1 .. Cap : Genuine(arm_processor.mem[m][i])

\* A request that began in silence resets the receiver write by write.
Nothing == line = <<>> /\ arm = <<>>

ResetInv ==
    quiet /\ pc \in {"reset", "send"} =>
        /\ Nothing
        /\ write > 2 \/ pc = "send" => arm_processor.receive = "length"
        /\ write > 3 \/ pc = "send" => arm_processor.cntr = 0
        /\ write > 4 \/ pc = "send" => ~arm_processor.reply_ready
        /\ pc = "send" => arm_processor.buff = 1

\* From then on until its end ...
Waiting == pc \in {"wait", "check"} \/ (pc = "end" /\ write = 1)

Request == [pkt |-> number, kind |-> kind]
Mine(b, k, n) == b.pkt = 0 \/ \E i \in 1 .. RepLen(k) : b = ReplyPacket(k, n)[i]

Aligned(q) ==
    /\ q.receive = "length" => q.cntr = 0
    /\ q.receive = "func" => q.cntr = 1
    /\ q.receive = "cmd" => q.cntr = 2
    /\ q.receive = "payload" => q.cntr >= 3

Whole(b, k, n) == b[1].val \in 0 .. 6 /\ \A i \in 1 .. b[1].val : Mine(b[i], k, n)

Left == Len(line) + (IF arm = <<>> THEN 0 ELSE RepLen(kind))

\* ... only bytes of its own answer and damaged ones come, six at the most.  They
\* can fill one buffer, which nothing then touches: two are left.
BufferInv(q, k, n, left) ==
    /\ Aligned(q)
    /\ q.receive # "length" => q.mem[q.buff][1].val = q.expected_len
    /\ \A i \in 1 .. q.cntr : Mine(q.mem[q.buff][i], k, n)
    /\ q.reply_ready =>
           q.buff = 2 /\ q.buff_copy = 1 /\ Whole(q.mem[1], k, n) /\ q.cntr + left <= 2
    /\ ~q.reply_ready => q.buff = 1 /\ q.cntr + left <= 6

QuietInv ==
    quiet /\ Waiting =>
        /\ \A i \in 1 .. Len(line) : Mine(line[i], kind, number)
        /\ arm = <<>> \/ arm = <<Request>>
        /\ BufferInv(arm_processor, kind, number, Left)
        /\ pc = "check" => arm_processor.reply_ready /\ reply = 1
        /\ pc = "end" /\ outcome = "SUCCESS" =>
               /\ arm_processor.reply_ready /\ reply = 1
               /\ IsReply(arm_processor.mem[1], kind, number)

\* Without a fault it is the whole answer: with the ARM, on the line and in the
\* receiver, or handed over.
UnderWay(q) ==
    \/ arm = <<Request>> /\ line = <<>> /\ q.cntr = 0 /\ ~q.reply_ready
    \/ /\ arm = <<>> /\ ~q.reply_ready
       /\ q.cntr < RepLen(kind) /\ Len(line) = RepLen(kind) - q.cntr
       /\ \A i \in 1 .. Len(line) : line[i] = ReplyPacket(kind, number)[i + q.cntr]
       /\ \A i \in 1 .. q.cntr : q.mem[1][i] = ReplyPacket(kind, number)[i]
    \/ arm = <<>> /\ line = <<>> /\ q.reply_ready /\ IsReply(q.mem[1], kind, number)

CleanInv ==
    quiet /\ ~disturbed /\ Waiting =>
        /\ ~held
        /\ pc = "wait" => ~expired
        /\ UnderWay(arm_processor)
        /\ pc = "end" => outcome = "SUCCESS"

IInv == TypeOK /\ ControlInv /\ RoomInv /\ GenuineInv /\ ResetInv /\ QuietInv /\ CleanInv

-----------------------------------------------------------------------------
(* What the steps do to the receiver and the line.                         *)

LEMMA TypeIs ==
    ASSUME TypeOK
    PROVE  arm_processor \in Receivers /\ arm_processor.cntr \in 0 .. Cap
<1>1. arm_processor \in Receivers
  BY ReceiverType, Zenon DEF TypeOK
<1>2. arm_processor.cntr \in 0 .. Cap + 1
  BY <1>1, Zenon DEF Receivers, Of
<1> QED BY <1>1, <1>2 DEF TypeOK, NoOverrun

LEMMA FieldsIs ==
    ASSUME NEW q \in Receivers
    PROVE  /\ q.cntr \in 0 .. Cap + 1 /\ q.expected_len \in Nat
           /\ q.buff \in 1 .. 2 /\ q.buff_copy \in 1 .. 2
           /\ q.mem \in Mems
  BY Zenon DEF Receivers, Of

\* A byte comes only where there is room for it.
LEMMA ByteArrives ==
    ASSUME IInv, ReceiveByte
    PROVE  /\ line' \in Seq(ByteSent) /\ Len(line) > 0 /\ Len(line') = Len(line) - 1
           /\ \A i \in 1 .. Len(line') : line'[i] = line[i + 1]
           /\ line[1] \in ByteSent
           /\ arm_processor' \in Receivers
           /\ arm_processor'.mode = "master"
           /\ Arrival(arm_processor', arm_processor, line[1])
<1>1. line \in Seq(ByteSent) /\ line # <<>> /\ line' = Tail(line) /\ arm \in Seq([pkt : 1 .. Packets, kind : Kinds])
  BY DEF IInv, TypeOK, ReceiveByte
<1>2. /\ line' \in Seq(ByteSent) /\ Len(line) > 0 /\ Len(line') = Len(line) - 1
      /\ \A i \in 1 .. Len(line') : line'[i] = line[i + 1]
      /\ Head(line) = line[1] /\ line[1] \in ByteSent
  BY <1>1, HeadTailProperties
<1>3. arm_processor \in Receivers /\ arm_processor.cntr \in 0 .. Cap
  BY TypeIs DEF IInv
<1>4. arm_processor.cntr < Cap
  BY <1>1, <1>2, <1>3, Prot2Assumption, ArmLinkAssumption DEF IInv, RoomInv, Out
<1>5. arm_processor' = ipglb_prot2_receive(arm_processor, line[1], FALSE)
  BY <1>2 DEF ReceiveByte
<1>6. arm_processor.mode = "master"
  BY DEF IInv, ControlInv
<1>7. Arrival(arm_processor', arm_processor, line[1])
  <2>1. Arrival(ipglb_prot2_receive(arm_processor, line[1], FALSE), arm_processor, line[1])
    BY <1>2, <1>3, <1>4, <1>6, ReceiveStep, Zenon
  <2> QED BY <1>5, <2>1, Zenon
<1>8. arm_processor' \in Receivers /\ arm_processor'.mode = arm_processor.mode
  BY <1>7, Zenon DEF Arrival, Fed, Dropped, Handed, Rest
<1> QED BY <1>2, <1>6, <1>7, <1>8, Zenon

LEMMA ClearedStep ==
    ASSUME NEW p \in Receivers
    PROVE  LET q == Cleared(p) IN
           /\ q \in Receivers /\ Rest(q, p)
           /\ q.receive = p.receive /\ q.cntr = p.cntr /\ q.buff = p.buff
           /\ q.reply_ready = p.reply_ready
           /\ \A m \in 1 .. 2 : \A i \in 1 .. Cap : q.mem[m][i] \in {p.mem[m][i], Zero}
<1>1. CASE kind = "slot"
  <2>1. Cleared(p) = p
    BY <1>1, Zenon DEF Cleared
  <2>2. \A m \in 1 .. 2 : \A i \in 1 .. Cap : p.mem[m][i] \in {p.mem[m][i], Zero}
    OBVIOUS
  <2> QED BY <2>1, <2>2, Zenon DEF Rest
<1>2. CASE kind # "slot"
  <2> DEFINE z == [i \in 1 .. Cap |-> IF i <= RepLen(kind) THEN Zero ELSE p.mem[reply][i]]
             n == [p.mem EXCEPT ![reply] = z]
  <2>1. Cleared(p) = [p EXCEPT !.mem = n]
    BY <1>2, Zenon DEF Cleared
  <2>2. p.mem \in Mems
    BY FieldsIs
  <2>3. \A m \in 1 .. 2 : n[m] = IF m = reply THEN z ELSE p.mem[m]
    BY <2>2 DEF Mems
  <2>4. \A i \in 1 .. Cap : z[i] = IF i <= RepLen(kind) THEN Zero ELSE p.mem[reply][i]
    OBVIOUS
  <2>5. reply \in 1 .. 2 => z \in [1 .. Cap -> ByteSent \cup {Zero}]
    BY <2>2 DEF Mems
  <2> HIDE DEF z
  <2>6. n \in Mems
    <3>1. n = [m \in 1 .. 2 |-> IF m = reply THEN z ELSE p.mem[m]]
      BY <2>2 DEF Mems
    <3>2. \A m \in 1 .. 2 : p.mem[m] \in [1 .. Cap -> ByteSent \cup {Zero}]
      BY <2>2 DEF Mems
    <3> HIDE DEF n
    <3> QED BY <2>5, <3>1, <3>2 DEF Mems
  <2>7. \A m \in 1 .. 2 : \A i \in 1 .. Cap : n[m][i] \in {p.mem[m][i], Zero}
    BY <2>3, <2>4
  <2> HIDE DEF n
  <2>8. LET q == Cleared(p) IN
        /\ q \in Receivers /\ Rest(q, p)
        /\ q.receive = p.receive /\ q.cntr = p.cntr /\ q.buff = p.buff
        /\ q.reply_ready = p.reply_ready /\ q.mem = n
    BY <2>1, <2>6, Zenon DEF Receivers, Of, Rest
  <2> QED BY <2>7, <2>8, Zenon
<1> QED BY <1>1, <1>2, Zenon

Requests == [pkt : 1 .. Packets, kind : Kinds]

\* The queues of the ARM and the line.
LEMMA LinesAre ==
    ASSUME TypeOK
    PROVE  /\ line \in Seq(ByteSent) /\ arm \in Seq(Requests) /\ Len(line) \in Nat /\ Len(arm) \in Nat
           /\ arm = <<>> <=> Len(arm) = 0
           /\ line = <<>> <=> Len(line) = 0
<1>1. line \in Seq(ByteSent) /\ arm \in Seq(Requests)
  BY Zenon DEF TypeOK, Requests
<1> QED BY <1>1, EmptySeq, LenProperties

LEMMA TailIs ==
    ASSUME NEW S, NEW s \in Seq(S), s # <<>>
    PROVE  /\ Tail(s) \in Seq(S) /\ Head(s) \in S /\ Head(s) = s[1]
           /\ Len(s) > 0 /\ Len(Tail(s)) = Len(s) - 1
           /\ \A i \in 1 .. Len(Tail(s)) : Tail(s)[i] = s[i + 1]
  BY HeadTailProperties

\* A request joins those the ARM has.
LEMMA RequestSent ==
    ASSUME IInv, Send
    PROVE  /\ arm' \in Seq(Requests) /\ Len(arm') = Len(arm) + 1
           /\ arm = <<>> => arm' = <<Request>>
<1>1. arm \in Seq(Requests)
  BY LinesAre DEF IInv
<1>2. Request \in Requests
  BY DEF IInv, TypeOK, Request, Requests
<1>3. arm' = Append(arm, Request)
  BY DEF Send, Request
<1>4. Append(<<>>, Request) = <<Request>>
  OBVIOUS
<1>5. arm' \in Seq(Requests) /\ Len(arm') = Len(arm) + 1
  BY <1>1, <1>2, <1>3, AppendProperties
<1> QED BY <1>3, <1>4, <1>5, Zenon

\* An answer leaves the ARM for the line.
LEMMA Answered ==
    ASSUME IInv, ArmAnswers
    PROVE  /\ arm' \in Seq(Requests) /\ Len(arm) > 0 /\ Len(arm') = Len(arm) - 1
           /\ Head(arm).kind \in Kinds /\ Head(arm).pkt \in 1 .. Packets
           /\ line' \in Seq(ByteSent)
           /\ Len(line') = Len(line) + RepLen(Head(arm).kind)
           /\ \A i \in 1 .. Len(line') :
                  line'[i] = IF i <= Len(line) THEN line[i]
                             ELSE ReplyPacket(Head(arm).kind, Head(arm).pkt)[i - Len(line)]
           /\ arm = <<Request>> => arm' = <<>> /\ Head(arm).kind = kind /\ Head(arm).pkt = number
<1>1. line \in Seq(ByteSent) /\ arm \in Seq(Requests) /\ arm # <<>> /\ arm' = Tail(arm)
  BY LinesAre DEF IInv, ArmAnswers
<1>2. arm' \in Seq(Requests) /\ Len(arm) > 0 /\ Len(arm') = Len(arm) - 1 /\ Head(arm) \in Requests
      /\ Head(arm) = arm[1]
  BY <1>1, TailIs, Zenon
<1>3. PICK k, n : k = Head(arm).kind /\ n = Head(arm).pkt
  OBVIOUS
<1>4. k \in Kinds /\ n \in 1 .. Packets
  BY <1>2, <1>3 DEF Requests
<1>5. line' = line \o ReplyPacket(k, n)
  BY <1>3 DEF ArmAnswers
<1>6. PICK r \in Seq(ByteSent) : r = ReplyPacket(k, n) /\ Len(r) = RepLen(k)
  BY <1>4, ReplyLine
<1>7. line' \in Seq(ByteSent) /\ Len(line') = Len(line) + RepLen(k)
      /\ \A i \in 1 .. Len(line') : line'[i] = IF i <= Len(line) THEN line[i] ELSE r[i - Len(line)]
  BY <1>1, <1>5, <1>6, ConcatProperties
<1>8. ASSUME arm = <<Request>>
      PROVE  arm' = <<>> /\ Head(arm).kind = kind /\ Head(arm).pkt = number
  <2>1. Len(arm) = 1 /\ arm[1] = Request
    BY <1>8
  <2>2. arm' = <<>>
    BY <1>2, <2>1, EmptySeq
  <2> QED BY <1>2, <2>1, <2>2 DEF Request
<1> QED BY <1>2, <1>3, <1>4, <1>6, <1>7, <1>8, Zenon

\* What is lost or damaged leaves what was there, in part.
LEMMA Faulty ==
    ASSUME IInv, Fault
    PROVE  /\ arm' \in Seq(Requests) /\ Len(arm') <= Len(arm)
           /\ arm' = arm \/ (arm' = Tail(arm) /\ arm # <<>> /\ Len(arm') = Len(arm) - 1)
           /\ arm # <<>> \/ line # <<>>
           /\ line' \in Seq(ByteSent) /\ Len(line') <= Len(line)
           /\ \A i \in 1 .. Len(line') :
                  line'[i].pkt = 0 \/ \E j \in 1 .. Len(line) : line'[i] = line[j]
           /\ held' => arm' # <<>>
<1>1. line \in Seq(ByteSent) /\ arm \in Seq(Requests) /\ (held => arm # <<>>)
  BY LinesAre DEF IInv, ControlInv
<1>k. \A i \in 1 .. Len(line) : \E j \in 1 .. Len(line) : line[i] = line[j]
  OBVIOUS
<1>2. CASE arm # <<>> /\ arm' = Tail(arm) /\ held' = FALSE /\ UNCHANGED line
  <2>1. arm' \in Seq(Requests) /\ Len(arm') = Len(arm) - 1 /\ Len(arm) > 0
    BY <1>1, <1>2, TailIs, Zenon
  <2>2. line' = line /\ ~held'
    BY <1>2, Zenon
  <2>3. Len(arm') <= Len(arm)
    BY <2>1
  <2>4. Len(line') <= Len(line)
    BY <1>1, <2>2
  <2> QED BY <1>1, <1>2, <1>k, <2>1, <2>2, <2>3, <2>4, Zenon
<1>3. CASE arm # <<>> /\ ~held /\ held' = TRUE /\ UNCHANGED <<arm, line>>
  <2>1. arm' = arm /\ line' = line
    BY <1>3
  <2> QED BY <1>1, <1>3, <1>k, <2>1
<1>4. CASE line # <<>> /\ line' = Tail(line) /\ UNCHANGED <<arm, held>>
  <2>1. /\ line' \in Seq(ByteSent) /\ Len(line') = Len(line) - 1 /\ Len(line) > 0
        /\ \A i \in 1 .. Len(line') : line'[i] = line[i + 1]
    BY <1>1, <1>4, TailIs
  <2>2. arm' = arm /\ (held' => arm' # <<>>)
    BY <1>1, <1>4
  <2>3. \A i \in 1 .. Len(line') : i + 1 \in 1 .. Len(line)
    BY <1>1, <2>1
  <2>4. \A i \in 1 .. Len(line') : \E j \in 1 .. Len(line) : line'[i] = line[j]
    BY <2>1, <2>3, Zenon
  <2>5. Len(line') <= Len(line) /\ Len(arm') <= Len(arm)
    BY <1>1, <2>1, <2>2
  <2> QED BY <1>1, <1>4, <2>1, <2>2, <2>4, <2>5, Zenon
<1>5. CASE /\ line # <<>>
           /\ \E v \in Noise : line' = <<Damaged(v)>> \o Tail(line)
           /\ UNCHANGED <<arm, held>>
  <2>0. PICK v \in Noise : line' = <<Damaged(v)>> \o Tail(line)
    BY <1>5
  <2>1. PICK d \in ByteSent : d = Damaged(v) /\ d.pkt = 0
    <3>1. v \in 0 .. 255 /\ 0 \in 0 .. 3 * Packets + 2 /\ 0 \in 0 .. 6
      BY Prot2Assumption, ArmLinkAssumption
    <3>2. Damaged(v) \in ByteSent /\ Damaged(v).pkt = 0
      BY <3>1 DEF ByteSent, Damaged
    <3> QED BY <3>2
  <2>2. PICK t \in Seq(ByteSent) :
            /\ t = Tail(line) /\ Len(line) > 0 /\ Len(t) = Len(line) - 1
            /\ \A i \in 1 .. Len(t) : t[i] = line[i + 1]
    BY <1>1, <1>5, TailIs, Prot2Assumption, ArmLinkAssumption
  <2>3. /\ line' \in Seq(ByteSent) /\ Len(line') = Len(line)
        /\ \A i \in 1 .. Len(line') : line'[i] = IF i = 1 THEN d ELSE t[i - 1]
    <3>1. <<d>> \in Seq(ByteSent) /\ Len(<<d>>) = 1 /\ <<d>>[1] = d
      OBVIOUS
    <3>2. line' = <<d>> \o t
      BY <2>0, <2>1, <2>2
    <3> QED BY <2>2, <3>1, <3>2, ConcatProperties
  <2>4. \A i \in 1 .. Len(line') : i # 1 => line'[i] = line[i] /\ i \in 1 .. Len(line)
    BY <1>1, <2>2, <2>3
  <2>5. arm' = arm /\ (held' => arm' # <<>>)
    BY <1>1, <1>5
  <2> QED BY <1>1, <1>5, <2>1, <2>3, <2>4, <2>5
<1> QED BY <1>2, <1>3, <1>4, <1>5 DEF Fault

\* A step of the cleanup, in the terms of the invariant.
LEMMA CleanupIs ==
    ASSUME IInv, NEW next, CleanupStep(next)
    PROVE  /\ arm_processor' \in Receivers
           /\ LET p == arm_processor  q == arm_processor' IN
              /\ q.mem = p.mem /\ Rest(q, p)
              /\ (write = 2 => q.receive = "length") /\ (write # 2 => q.receive = p.receive)
              /\ (write = 3 => q.cntr = 0) /\ (write # 3 => q.cntr = p.cntr)
              /\ (write = 6 => q.buff = 1) /\ (write # 6 => q.buff = p.buff)
           /\ write \in 1 .. 6 /\ write' = (IF write = 6 THEN 1 ELSE write + 1)
           /\ pc' = IF write = 6 THEN next ELSE pc
           /\ arm_processor.cntr \in Nat /\ arm_processor'.cntr <= arm_processor.cntr
<1>1. arm_processor \in Receivers /\ write \in Writes
  BY TypeIs DEF IInv, TypeOK
<1>2. arm_processor' = CleanupWrite(arm_processor, write)
  BY DEF CleanupStep
<1>3. /\ arm_processor' \in Receivers
      /\ LET p == arm_processor  q == arm_processor' IN
              /\ q.mem = p.mem /\ Rest(q, p)
              /\ (write = 2 => q.receive = "length") /\ (write # 2 => q.receive = p.receive)
              /\ (write = 3 => q.cntr = 0) /\ (write # 3 => q.cntr = p.cntr)
              /\ (write = 6 => q.buff = 1) /\ (write # 6 => q.buff = p.buff)
  BY <1>1, <1>2, CleanupWriteStep, Zenon
<1>4. write' = (IF write = 6 THEN 1 ELSE write + 1) /\ write \in 1 .. 6
  BY <1>1 DEF Writes, CleanupStep
<1>5. pc' = IF write = 6 THEN next ELSE pc
  BY DEF CleanupStep
<1>6. arm_processor.cntr \in Nat
  BY <1>1, FieldsIs
<1>7. arm_processor'.cntr <= arm_processor.cntr
  BY <1>3, <1>6
<1> QED BY <1>3, <1>4, <1>5, <1>6, <1>7, Zenon

LEMMA CleanupReady ==
    ASSUME IInv, NEW next, CleanupStep(next)
    PROVE  /\ write = 4 => ~arm_processor'.reply_ready
           /\ write # 4 => arm_processor'.reply_ready = arm_processor.reply_ready
<1>1. arm_processor \in Receivers /\ write \in Writes
  BY TypeIs, Zenon DEF IInv, TypeOK
<1>2. arm_processor' = CleanupWrite(arm_processor, write)
  BY Zenon DEF CleanupStep
<1> QED BY <1>1, <1>2, CleanupWriteReady, Zenon

\* A request clears the reply it may have to overwrite, and nothing else.
LEMMA SendClears ==
    ASSUME IInv, Send
    PROVE  LET p == arm_processor  q == arm_processor' IN
           /\ q \in Receivers /\ Rest(q, p)
           /\ q.receive = p.receive /\ q.cntr = p.cntr /\ q.buff = p.buff
           /\ q.reply_ready = p.reply_ready
           /\ \A m \in 1 .. 2 : \A i \in 1 .. Cap : q.mem[m][i] \in {p.mem[m][i], Zero}
<1>1. arm_processor \in Receivers
  BY TypeIs DEF IInv
<1>2. arm_processor' = Cleared(arm_processor)
  BY DEF Send
<1> QED BY <1>1, <1>2, ClearedStep, Zenon

LEMMA OneMoreByte ==
    ASSUME IInv, ReceiveByte
    PROVE  /\ arm_processor.cntr \in Nat /\ arm_processor'.cntr \in Nat
           /\ arm_processor'.cntr <= arm_processor.cntr + 1
<1>1. arm_processor \in Receivers /\ arm_processor' \in Receivers
      /\ Arrival(arm_processor', arm_processor, line[1])
  BY TypeIs, ByteArrives DEF IInv
<1>2. arm_processor.cntr \in Nat /\ arm_processor'.cntr \in Nat
  BY <1>1, FieldsIs
<1>3. arm_processor'.cntr = arm_processor.cntr + 1 \/ arm_processor'.cntr = 0
  BY <1>1, Zenon DEF Arrival, Fed, Dropped, Handed
<1> QED BY <1>2, <1>3

\* The steps that leave the receiver, the ARM and the line alone.
Still == UNCHANGED <<arm_processor, line, arm>>

LEMMA TheSteps ==
    ASSUME [Next]_vars
    PROVE  \/ Begin \/ Reset \/ Send \/ End \/ ReceiveByte \/ ArmAnswers \/ Fault
           \/ ReplyReady \/ TimedOut \/ Check
           \/ Still /\ (ArmWakes \/ TimeUp \/ (UNCHANGED <<main, held, quiet, disturbed>> /\ expired' = expired))
  BY DEF Next, MainStep, Spin, timer_kick, TimerStops, ArmWakes, TimeUp, Still, main,
         external, counters, vars

\* A byte that leaves the line for the receiver adds at most one to its count.
LEMMA OneFewerOut ==
    ASSUME NEW c \in Nat, NEW d \in Nat, NEW o \in Nat, NEW n \in Nat,
           d <= c + 1, n + 1 = o
    PROVE  n <= o /\ n + d <= o + c
OBVIOUS

\* A step of the line that brings no more into the receiver than it takes away.
LEMMA RoomKept ==
    ASSUME RoomInv, pc' = pc, kind' = kind, write' = write,
           Len(arm) \in Nat, Len(arm') \in Nat, Len(arm') <= Len(arm),
           Out \in Nat, Out' \in Nat, Out' <= Out,
           arm_processor.cntr \in Nat, arm_processor'.cntr \in Nat,
           Out' + arm_processor'.cntr <= Out + arm_processor.cntr
    PROVE  RoomInv'
<1>1. MaxHeld \in Nat
  BY ArmLinkAssumption
<1>2. Len(arm') <= MaxHeld /\ (pc' \in {"reset", "send"} => Len(arm') < MaxHeld)
  BY <1>1 DEF RoomInv
<1>3. PICK o \in Nat, a \in Nat, c \in Nat, d \in Nat :
         /\ o = Out' /\ a = Out /\ c = arm_processor'.cntr /\ d = arm_processor.cntr
         /\ o <= a /\ o + c <= a + d
  OBVIOUS
<1>4. \A n \in Int : (Out <= n => Out' <= n)
                    /\ (Out + arm_processor.cntr <= n => Out' + arm_processor'.cntr <= n)
  BY <1>3
<1>5. 6 * MaxHeld \in Int /\ 6 * (MaxHeld + 1) \in Int /\ 6 * MaxHeld - 6 \in Int
  BY <1>1
<1> QED BY <1>2, <1>4, <1>5, Zenon DEF RoomInv

\* No request makes the bytes under way more than the buffer takes.
LEMMA RoomStep ==
    ASSUME IInv, [Next]_vars
    PROVE  RoomInv'
<1> DEFINE p == arm_processor
<1>1. /\ RoomInv /\ p.cntr \in Nat /\ Len(line) \in Nat /\ Len(arm) \in Nat
      /\ kind \in Kinds /\ (pc \notin {"reset", "end"} => write = 1)
  BY TypeIs, LinesAre DEF IInv, ControlInv, TypeOK
<1>2. CASE Begin
  <2>1. /\ pc = "idle" /\ Len(arm) < MaxHeld /\ pc' = "reset" /\ write' = 1
        /\ arm' = arm /\ line' = line /\ arm_processor' = arm_processor
    BY <1>1, <1>2 DEF Begin, external
  <2>2. (kind = "get" /\ kind' = "set") \/ (line = <<>> /\ kind' # "set")
    BY <1>2 DEF Begin, NextKind
  <2>3. line = <<>> => Len(line) = 0
    BY LinesAre DEF IInv
  <2> QED BY <1>1, <2>1, <2>2, <2>3, Prot2Assumption, ArmLinkAssumption DEF RoomInv, Out
<1>3. CASE Reset
  <2>1. /\ pc = "reset" /\ kind' = kind /\ arm' = arm /\ line' = line
        /\ p'.cntr \in Nat /\ p'.cntr <= p.cntr /\ (write = 3 => p'.cntr = 0)
        /\ write \in 1 .. 6 /\ write' = (IF write = 6 THEN 1 ELSE write + 1)
        /\ pc' = IF write = 6 THEN "send" ELSE pc
    BY <1>3, CleanupIs, FieldsIs DEF Reset, external
  <2> HIDE DEF p
  <2> QED BY <1>1, <2>1, Prot2Assumption, ArmLinkAssumption DEF RoomInv, Out, p
<1>4. CASE Send
  <2>1. /\ pc = "send" /\ pc' = "wait" /\ kind' = kind /\ line' = line
        /\ Len(arm') = Len(arm) + 1 /\ p'.cntr = p.cntr
    BY <1>4, RequestSent, SendClears DEF Send
  <2> QED BY <1>1, <2>1, Prot2Assumption, ArmLinkAssumption DEF RoomInv, Out, Kinds
<1>5. CASE End
  <2>1. /\ pc = "end" /\ kind' = kind /\ arm' = arm /\ line' = line
        /\ p'.cntr \in Nat /\ p'.cntr <= p.cntr
        /\ pc' \in {"end", "idle"}
    BY <1>5, CleanupIs, FieldsIs DEF End, external
  <2> QED BY <1>1, <2>1, Prot2Assumption, ArmLinkAssumption DEF RoomInv, Out
<1>6. CASE ReceiveByte
  <2>1. /\ pc' = pc /\ kind' = kind /\ arm' = arm /\ write' = write
        /\ Len(line) > 0 /\ Len(line') = Len(line) - 1
        /\ p'.cntr \in Nat /\ p'.cntr <= p.cntr + 1
    BY <1>6, ByteArrives, OneMoreByte DEF ReceiveByte, main
  <2>2. Out \in Nat /\ Out' \in Nat /\ Out' + 1 = Out
    BY <1>1, <2>1 DEF Out
  <2>3. /\ Len(arm') <= Len(arm) /\ Len(arm') \in Nat /\ Out' <= Out
        /\ Out' + p'.cntr <= Out + p.cntr
    <3>1. Len(arm') <= Len(arm) /\ Len(arm') \in Nat
      BY <1>1, <2>1
    <3>2. p.cntr \in Nat /\ p'.cntr \in Nat /\ p'.cntr <= p.cntr + 1
      BY <1>1, <2>1, Zenon
    <3> QED BY <2>2, <3>1, <3>2, OneFewerOut, Zenon
  <2> QED BY <1>1, <2>1, <2>2, <2>3, RoomKept, Zenon
<1>7. CASE ArmAnswers
  <2>1. /\ pc' = pc /\ kind' = kind /\ write' = write /\ arm_processor' = arm_processor
        /\ Len(line') = Len(line) + RepLen(Head(arm).kind)
        /\ Len(arm) > 0 /\ Len(arm') = Len(arm) - 1
        /\ RepLen(Head(arm).kind) \in 4 .. 6
    BY <1>7, Answered, KindOfLength DEF ArmAnswers, main
  <2>2. PICK r \in 4 .. 6 : r = RepLen(Head(arm).kind)
    BY <2>1
  <2>3. /\ Len(arm') \in Nat /\ Out \in Nat /\ Out' \in Nat /\ Out' <= Out
        /\ Len(arm') <= Len(arm) /\ p'.cntr = p.cntr
    BY <1>1, <2>1, <2>2 DEF Out
  <2> QED BY <1>1, <2>1, <2>3, RoomKept
<1>8. CASE Fault
  <2>1. /\ pc' = pc /\ kind' = kind /\ write' = write /\ arm_processor' = arm_processor
        /\ Len(line') \in Nat /\ Len(line') <= Len(line)
        /\ Len(arm') \in Nat /\ Len(arm') <= Len(arm)
    BY <1>8, Faulty, LenProperties DEF Fault, main
  <2>2. Out \in Nat /\ Out' \in Nat /\ Out' <= Out
    BY <1>1, <2>1 DEF Out
  <2> QED BY <1>1, <2>1, <2>2, RoomKept
<1>9. CASE ReplyReady \/ TimedOut \/ Check
  <2>1. /\ pc \in {"wait", "check"} /\ pc' \in {"check", "end"} /\ kind' = kind /\ arm' = arm
        /\ line' = line /\ arm_processor' = arm_processor
    BY <1>9 DEF ReplyReady, TimedOut, Check, external
  <2> QED BY <1>1, <2>1 DEF RoomInv, Out
<1>10. CASE Still /\ UNCHANGED main
  BY <1>1, <1>10 DEF RoomInv, Out, Still, main
<1>11. (ArmWakes \/ TimeUp) => UNCHANGED main
  BY DEF ArmWakes, TimeUp
<1> QED BY <1>2, <1>3, <1>4, <1>5, <1>6, <1>7, <1>8, <1>9, <1>10, <1>11, TheSteps, Zenon

\* What a verdict says of the buffer it was passed on.
LEMMA VerdictIs ==
    ASSUME NEW b, kind \in Kinds
    PROVE  /\ Verdict(b) \in {"SUCCESS", "ARG_MISMATCH", "CRC_MISMATCH", "FUNC_MISMATCH"}
           /\ Verdict(b) = "SUCCESS" => b[1].val = RepLen(kind) /\ uart_crc_ok(b)
           /\ b[1].val = RepLen(kind) /\ uart_crc_ok(b) /\ b[2].val = Func(kind) =>
                  Verdict(b) = "SUCCESS"
<1>1. /\ "ARG_MISMATCH" # "SUCCESS" /\ "CRC_MISMATCH" # "SUCCESS" /\ "FUNC_MISMATCH" # "SUCCESS"
  OBVIOUS
<1>2. CASE b[1].val # RepLen(kind)
  BY <1>1, <1>2, Zenon DEF Verdict
<1>3. CASE b[1].val = RepLen(kind) /\ ~uart_crc_ok(b)
  BY <1>1, <1>3, Zenon DEF Verdict
<1>4. CASE b[1].val = RepLen(kind) /\ uart_crc_ok(b) /\ b[2].val # Func(kind)
  BY <1>1, <1>4, Zenon DEF Verdict
<1>5. CASE b[1].val = RepLen(kind) /\ uart_crc_ok(b) /\ b[2].val = Func(kind)
  <2>1. Verdict(b) = "SUCCESS"
    BY <1>5, Zenon DEF Verdict
  <2> QED BY <1>5, <2>1, Zenon
<1> QED BY <1>2, <1>3, <1>4, <1>5, Zenon

\* A whole answer passes the checks.
LEMMA ReplyPasses ==
    ASSUME NEW b, kind \in Kinds, number \in 1 .. Packets, IsReply(b, kind, number)
    PROVE  Verdict(b) = "SUCCESS"
<1>1. RepLen(kind) \in 4 .. 6 /\ RepLen(kind) <= Cap
  BY KindOfLength, Prot2Assumption, ArmLinkAssumption
<1>2. \A i \in 1 .. RepLen(kind) : b[i] = ReplyPacket(kind, number)[i]
  BY DEF IsReply
<1>3. /\ b[1].val = RepLen(kind) /\ b[2].val = Func(kind) /\ b[1].pkt # 0
      /\ \A i \in 1 .. RepLen(kind) : b[i].pkt = b[1].pkt /\ b[i].idx = i
  BY <1>1, <1>2, ReplyBytes
<1>4. uart_crc_ok(b)
  BY <1>1, <1>3, Prot2Assumption, ArmLinkAssumption DEF uart_crc_ok
<1> QED BY <1>3, <1>4, VerdictIs

LEMMA ControlStep ==
    ASSUME IInv, [Next]_vars
    PROVE  ControlInv'
<1>1. /\ ControlInv /\ arm_processor \in Receivers /\ write \in 1 .. 6
  BY TypeIs DEF IInv, TypeOK, Writes
<1>2. CASE Begin
  BY <1>1, <1>2 DEF ControlInv, Begin, external
<1>3. CASE Reset
  BY <1>1, <1>3, CleanupIs DEF ControlInv, Reset, Rest, external
<1>4. CASE Send
  <2>1. arm' # <<>>
    BY <1>4, RequestSent, LinesAre, EmptySeq DEF IInv
  <2> QED BY <1>1, <1>4, <2>1, SendClears DEF ControlInv, Send, Rest
<1>5. CASE End
  BY <1>1, <1>5, CleanupIs DEF ControlInv, End, Rest, external
<1>6. CASE ReceiveByte
  <2>1. arm_processor'.mode = "master"
    BY <1>6, ByteArrives
  <2> QED BY <1>1, <1>6, <2>1 DEF ControlInv, ReceiveByte, main
<1>7. CASE ArmAnswers
  BY <1>1, <1>7 DEF ControlInv, ArmAnswers, main
<1>8. CASE Fault
  BY <1>1, <1>8, Faulty DEF ControlInv, Fault, main
<1>9. CASE ReplyReady
  BY <1>1, <1>9, FieldsIs DEF ControlInv, ReplyReady, external
<1>10. CASE TimedOut \/ Check
  BY <1>1, <1>10 DEF ControlInv, TimedOut, Check, external
<1>11. CASE Still /\ UNCHANGED <<main, held>>
  BY <1>1, <1>11 DEF ControlInv, Still, main
<1>12. CASE Still /\ (ArmWakes \/ TimeUp)
  BY <1>1, <1>12 DEF ControlInv, ArmWakes, TimeUp, main, external, Still
<1> QED BY <1>2, <1>3, <1>4, <1>5, <1>6, <1>7, <1>8, <1>9, <1>10, <1>11, <1>12, TheSteps, Zenon

LEMMA TypeStep ==
    ASSUME IInv, [Next]_vars
    PROVE  TypeOK'
<1> DEFINE Types == /\ arm_processor \in Receivers
                    /\ line \in Seq(ByteSent) /\ arm \in Seq(Requests)
           Scalars == /\ pc \in {"idle", "reset", "send", "wait", "check", "end"}
                      /\ kind \in Kinds /\ number \in 1 .. Packets /\ reply \in 0 .. 2
                      /\ write \in Writes
                      /\ outcome \in {"none", "SUCCESS", "TIMEOUT", "ARG_MISMATCH",
                                      "CRC_MISMATCH", "FUNC_MISMATCH"}
<1>1. Types /\ Scalars
  BY TypeIs, LinesAre DEF IInv, TypeOK
<1>2. Types' /\ Scalars'
  <2>1. CASE Begin
    <3>1. kind' \in Kinds /\ number' \in 1 .. Packets
      BY <1>1, <2>1, Prot2Assumption, ArmLinkAssumption DEF Begin
    <3> QED BY <1>1, <2>1, <3>1 DEF Begin, external
  <2>2. CASE Reset
    BY <1>1, <2>2, CleanupIs DEF Reset, external, Writes
  <2>3. CASE Send
    BY <1>1, <2>3, SendClears, RequestSent DEF Send
  <2>4. CASE End
    BY <1>1, <2>4, CleanupIs DEF End, external, Writes
  <2>5. CASE ReceiveByte
    BY <1>1, <2>5, ByteArrives DEF ReceiveByte, main
  <2>6. CASE ArmAnswers
    BY <1>1, <2>6, Answered DEF ArmAnswers, main
  <2>7. CASE Fault
    BY <1>1, <2>7, Faulty DEF Fault, main
  <2>8. CASE ReplyReady
    BY <1>1, <2>8, FieldsIs DEF ReplyReady, external
  <2>9. CASE TimedOut
    BY <1>1, <2>9 DEF TimedOut, external
  <2>10. CASE Check
    <3>1. outcome' \in {"SUCCESS", "ARG_MISMATCH", "CRC_MISMATCH", "FUNC_MISMATCH"}
      BY <1>1, <2>10, VerdictIs, Zenon DEF Check
    <3> QED BY <1>1, <2>10, <3>1 DEF Check, external
  <2>11. CASE Still /\ UNCHANGED main
    BY <1>1, <2>11 DEF Still, main
  <2>12. (ArmWakes \/ TimeUp) => UNCHANGED main
    BY DEF ArmWakes, TimeUp
  <2> QED BY <2>1, <2>2, <2>3, <2>4, <2>5, <2>6, <2>7, <2>8, <2>9, <2>10, <2>11, <2>12, TheSteps, Zenon
<1>3. NoOverrun'
  <2>1. Len(line') \in Nat /\ Len(arm') \in Nat /\ arm_processor'.cntr \in Nat
    BY <1>2, LenProperties, FieldsIs
  <2>2. Out' + arm_processor'.cntr <= 6 * (MaxHeld + 1)
    BY RoomStep DEF RoomInv
  <2> QED BY <2>1, <2>2, Prot2Assumption, ArmLinkAssumption DEF Out, NoOverrun
<1>4. ProcessorOK(arm_processor', ByteSent)
  BY <1>2, ReceiverType, Zenon
<1>5. line' \in Seq(ByteSent) /\ arm' \in Seq([pkt : 1 .. Packets, kind : Kinds])
  BY <1>2, Zenon DEF Requests
<1> QED BY <1>2, <1>3, <1>4, <1>5, Zenon DEF TypeOK

LEMMA ArrivalStores ==
    ASSUME NEW p \in Receivers, NEW q, NEW c, Arrival(q, p, c)
    PROVE  \A m \in 1 .. 2 : \A i \in 1 .. Cap : q.mem[m][i] \in {p.mem[m][i], c, Zero}
<1>1. p.buff \in 1 .. 2
  BY FieldsIs
<1>2. \A m \in 1 .. 2 : m = p.buff \/ m = 3 - p.buff
  BY <1>1
<1>3. StoredIn(q, p, c) \/ Handed(q, p, c)
  BY Zenon DEF Arrival, Fed, Dropped
<1>4. \A i \in 1 .. Cap : Blank[i] = Zero
  BY DEF Blank
<1>5. CASE StoredIn(q, p, c)
  BY <1>2, <1>5 DEF StoredIn
<1>6. CASE Handed(q, p, c)
  BY <1>2, <1>4, <1>6 DEF Handed
<1> QED BY <1>3, <1>5, <1>6, Zenon

\* Nothing makes up a byte: the buffers hold bytes of the line, or zeroes.
LEMMA GenuineStep ==
    ASSUME IInv, [Next]_vars
    PROVE  GenuineInv'
<1> DEFINE M(q) == \A m \in 1 .. 2 : \A i \in 1 .. Cap : Genuine(q.mem[m][i])
           L == \A i \in 1 .. Len(line) : Genuine(line[i])
<1>1. L /\ M(arm_processor) /\ Len(line) \in Nat
  BY LinesAre DEF IInv, GenuineInv
<1>2. Genuine(Zero)
  BY DEF Genuine, Zero
<1>3. L'
  <2>1. CASE ReceiveByte
    <3>1. \A i \in 1 .. Len(line') : line'[i] = line[i + 1] /\ i + 1 \in 1 .. Len(line)
      BY <1>1, <2>1, ByteArrives
    <3> QED BY <1>1, <3>1, Zenon
  <2>2. CASE ArmAnswers
    <3>1. PICK k \in Kinds, n \in 1 .. Packets : k = Head(arm).kind /\ n = Head(arm).pkt
      BY <2>2, Answered
    <3>2. \A i \in 1 .. RepLen(k) : Genuine(ReplyPacket(k, n)[i])
      BY Zenon DEF Genuine
    <3>3. PICK r \in 4 .. 6 : r = RepLen(k)
      BY KindOfLength
    <3>4. \A i \in 1 .. Len(line') :
             \/ i \in 1 .. Len(line) /\ line'[i] = line[i]
             \/ i - Len(line) \in 1 .. RepLen(k) /\ line'[i] = ReplyPacket(k, n)[i - Len(line)]
      BY <1>1, <2>2, <3>1, <3>3, Answered
    <3> QED BY <1>1, <3>2, <3>4, Zenon
  <2>3. CASE Fault
    <3>1. ASSUME NEW i \in 1 .. Len(line')
          PROVE  Genuine(line'[i])
      <4>1. line'[i].pkt = 0 \/ \E j \in 1 .. Len(line) : line'[i] = line[j]
        BY <2>3, <3>1, Faulty, Zenon
      <4>2. line'[i].pkt = 0 => Genuine(line'[i])
        BY Zenon DEF Genuine
      <4> QED BY <1>1, <4>1, <4>2, Zenon
    <3> QED BY <3>1, Zenon
  <2>4. CASE line' = line
    BY <1>1, <2>4, Zenon
  <2>5. Begin \/ Reset \/ Send \/ End \/ ReplyReady \/ TimedOut \/ Check \/ Still => line' = line
    BY DEF Begin, Reset, Send, End, ReplyReady, TimedOut, Check, Still, external
  <2> QED BY <2>1, <2>2, <2>3, <2>4, <2>5, TheSteps, Zenon
<1>4. M(arm_processor')
  <2>1. CASE Reset \/ End
    <3>1. arm_processor'.mem = arm_processor.mem
      BY <2>1, CleanupIs, Zenon DEF Reset, End
    <3> QED BY <1>1, <3>1, Zenon
  <2>2. CASE Send
    <3>1. \A m \in 1 .. 2 : \A i \in 1 .. Cap :
              arm_processor'.mem[m][i] \in {arm_processor.mem[m][i], Zero}
      BY <2>2, SendClears, Zenon
    <3> QED BY <1>1, <1>2, <3>1
  <2>3. CASE ReceiveByte
    <3>1. \A m \in 1 .. 2 : \A i \in 1 .. Cap :
              arm_processor'.mem[m][i] \in {arm_processor.mem[m][i], line[1], Zero}
      BY <2>3, ByteArrives, ArrivalStores, TypeIs DEF IInv
    <3>2. Genuine(line[1])
      BY <1>1, <2>3, ByteArrives
    <3> QED BY <1>1, <1>2, <3>1, <3>2
  <2>4. CASE arm_processor' = arm_processor
    BY <1>1, <2>4, Zenon
  <2>5. Begin \/ ArmAnswers \/ Fault \/ ReplyReady \/ TimedOut \/ Check \/ Still =>
            arm_processor' = arm_processor
    BY DEF Begin, ArmAnswers, Fault, ReplyReady, TimedOut, Check, Still
  <2> QED BY <2>1, <2>2, <2>3, <2>4, <2>5, TheSteps, Zenon
<1> QED BY <1>3, <1>4, Zenon DEF GenuineInv

\* While a request that began in silence resets the receiver nothing comes in.
LEMMA ResetStep ==
    ASSUME IInv, [Next]_vars
    PROVE  ResetInv'
<1>1. /\ ResetInv /\ (pc \notin {"reset", "end"} => write = 1)
      /\ arm_processor \in Receivers
  BY TypeIs DEF IInv, ControlInv
<1>2. CASE Begin
  <2>1. pc' = "reset" /\ write' = 1 /\ quiet' = Nothing /\ Nothing' = Nothing
    BY <1>1, <1>2 DEF Begin, Nothing, external
  <2> QED BY <2>1 DEF ResetInv
<1>3. CASE Reset
  <2>1. /\ pc = "reset" /\ quiet' = quiet /\ Nothing' = Nothing
        /\ write \in 1 .. 6 /\ write' = (IF write = 6 THEN 1 ELSE write + 1)
        /\ pc' = IF write = 6 THEN "send" ELSE pc
    BY <1>3, CleanupIs DEF Reset, Nothing, external
  <2>2. LET p == arm_processor  q == arm_processor' IN
        /\ (write = 2 => q.receive = "length") /\ (write # 2 => q.receive = p.receive)
        /\ (write = 3 => q.cntr = 0) /\ (write # 3 => q.cntr = p.cntr)
        /\ (write = 6 => q.buff = 1) /\ (write # 6 => q.buff = p.buff)
    BY <1>3, CleanupIs, Zenon DEF Reset
  <2>3. /\ write = 4 => ~arm_processor'.reply_ready
        /\ write # 4 => arm_processor'.reply_ready = arm_processor.reply_ready
    BY <1>3, CleanupReady, Zenon DEF Reset
  <2>4. ASSUME quiet'
        PROVE  Nothing'
    BY <1>1, <2>1, <2>4, Zenon DEF ResetInv
  <2>5. ASSUME quiet', write' > 2 \/ pc' = "send"
        PROVE  arm_processor'.receive = "length"
    BY <1>1, <2>1, <2>2, <2>5 DEF ResetInv
  <2>6. ASSUME quiet', write' > 3 \/ pc' = "send"
        PROVE  arm_processor'.cntr = 0
    BY <1>1, <2>1, <2>2, <2>6 DEF ResetInv
  <2>7. ASSUME quiet', write' > 4 \/ pc' = "send"
        PROVE  ~arm_processor'.reply_ready
    <3>1. write > 4 \/ write = 4
      BY <2>1, <2>7
    <3>2. write > 4 => write # 4
      BY <2>1
    <3> QED BY <1>1, <2>1, <2>3, <2>7, <3>1, <3>2, Zenon DEF ResetInv
  <2>8. ASSUME quiet', pc' = "send"
        PROVE  arm_processor'.buff = 1
    BY <2>1, <2>2, <2>8
  <2> QED BY <2>4, <2>5, <2>6, <2>7, <2>8 DEF ResetInv
<1>4. CASE Send \/ End \/ ReplyReady \/ TimedOut \/ Check
  <2>1. pc' \notin {"reset", "send"}
    <3>1. CASE End
      BY <3>1, CleanupIs DEF End
    <3> QED BY <1>4, <3>1 DEF Send, ReplyReady, TimedOut, Check
  <2> QED BY <2>1 DEF ResetInv
<1>5. CASE ReceiveByte \/ ArmAnswers \/ Fault
  <2>1. pc' = pc /\ quiet' = quiet /\ ~Nothing
    <3>1. CASE Fault
      BY <3>1, Faulty DEF Fault, main, Nothing
    <3> QED BY <1>5, <3>1 DEF ReceiveByte, ArmAnswers, main, Nothing
  <2> QED BY <1>1, <2>1, Zenon DEF ResetInv
<1>6. CASE /\ Still
           /\ ArmWakes \/ TimeUp \/ (UNCHANGED <<main, held, quiet, disturbed>> /\ expired' = expired)
  <2>1. pc' = pc /\ quiet' = quiet /\ write' = write /\ Nothing' = Nothing
        /\ arm_processor' = arm_processor
    BY <1>6 DEF Still, Nothing, ArmWakes, TimeUp, main
  <2> QED BY <1>1, <2>1, Zenon DEF ResetInv
<1> QED BY <1>2, <1>3, <1>4, <1>5, <1>6, TheSteps, Zenon

-----------------------------------------------------------------------------
(* A request that began in silence.                                        *)

\* What Mine says of a byte that was not damaged.
LEMMA MineReply ==
    ASSUME NEW b, kind \in Kinds, number \in 1 .. Packets, b[1].val = RepLen(kind),
           uart_crc_ok(b), Whole(b, kind, number)
    PROVE  IsReply(b, kind, number)
<1>1. RepLen(kind) \in 4 .. 6
  BY KindOfLength
<1>2. ASSUME NEW i \in 1 .. RepLen(kind)
      PROVE  b[i] = ReplyPacket(kind, number)[i]
  <2>1. Mine(b[i], kind, number) /\ b[i].pkt # 0 /\ b[i].idx = i
    BY <1>1 DEF Whole, uart_crc_ok
  <2>2. PICK z \in 1 .. RepLen(kind) : b[i] = ReplyPacket(kind, number)[z]
    BY <2>1, Zenon DEF Mine
  <2>3. z = i
    BY <2>1, <2>2, ReplyBytes
  <2> QED BY <2>2, <2>3
<1> QED BY <1>2, Zenon DEF IsReply

\* A byte of the answer, or a damaged one, keeps the buffers as BufferInv says.
LEMMA BufferStep ==
    ASSUME NEW p \in Receivers, NEW q \in Receivers, NEW c \in ByteSent, p.cntr < Cap,
           Arrival(q, p, c), NEW k, NEW n, NEW l \in Nat, NEW r \in Nat, r <= l - 1,
           BufferInv(p, k, n, l), Mine(c, k, n)
    PROVE  BufferInv(q, k, n, r)
<1>0. /\ p.cntr \in Nat /\ p.buff \in 1 .. 2 /\ q.cntr \in Nat /\ Zero.pkt = 0
  BY FieldsIs DEF Zero
<1> USE DEF Aligned
<1>1. Aligned(p) /\ (p.receive # "length" => p.mem[p.buff][1].val = p.expected_len)
      /\ (\A i \in 1 .. p.cntr : Mine(p.mem[p.buff][i], k, n))
  BY DEF BufferInv
<1>2. p.reply_ready => p.buff = 2 /\ p.buff_copy = 1 /\ Whole(p.mem[1], k, n) /\ p.cntr + l <= 2
  BY Zenon DEF BufferInv
<1>3. ~p.reply_ready => p.buff = 1 /\ p.cntr + l <= 6
  BY Zenon DEF BufferInv
<1>4. ASSUME NEW s, Fed(q, p, c, s), q.reply_ready <=> p.reply_ready,
             \/ p.receive = "length" /\ s = "func" /\ q.expected_len = c.val
             \/ p.receive = "func" /\ s = "cmd" /\ q.expected_len = p.expected_len
             \/ p.receive = "cmd" /\ s = "payload" /\ q.expected_len = p.expected_len
             \/ p.receive = "payload" /\ s = "payload" /\ q.expected_len = p.expected_len
      PROVE  BufferInv(q, k, n, r)
  <2>1. /\ q.receive = s /\ q.cntr = p.cntr + 1 /\ q.buff = p.buff
        /\ q.buff_copy = p.buff_copy
        /\ q.mem[3 - p.buff] = p.mem[3 - p.buff]
        /\ \A i \in 1 .. Cap :
              q.mem[p.buff][i] = IF i = p.cntr + 1 THEN c ELSE p.mem[p.buff][i]
    BY <1>4 DEF Fed, StoredIn, Rest
  <2>2. Aligned(q)
    BY <1>0, <1>1, <1>4, <2>1
  <2>3. q.mem[q.buff][1].val = q.expected_len
    BY <1>0, <1>1, <1>4, <2>1, Prot2Assumption, ArmLinkAssumption
  <2>4. \A i \in 1 .. q.cntr : Mine(q.mem[q.buff][i], k, n)
    BY <1>0, <1>1, <2>1, Prot2Assumption, ArmLinkAssumption
  <2>5. ASSUME q.reply_ready
        PROVE  q.buff = 2 /\ q.buff_copy = 1 /\ Whole(q.mem[1], k, n) /\ q.cntr + r <= 2
    <3>1. p.buff = 2 /\ p.buff_copy = 1 /\ Whole(p.mem[1], k, n) /\ p.cntr + l <= 2
      BY <1>2, <1>4, <2>5, Zenon
    <3>2. q.mem[1] = p.mem[1] /\ q.cntr + r <= 2
      BY <1>0, <2>1, <3>1
    <3> QED BY <2>1, <3>1, <3>2, Zenon
  <2>6. ASSUME ~q.reply_ready
        PROVE  q.buff = 1 /\ q.cntr + r <= 6
    <3>1. p.buff = 1 /\ p.cntr + l <= 6
      BY <1>3, <1>4, <2>6, Zenon
    <3> QED BY <1>0, <2>1, <3>1
  <2> QED BY <2>2, <2>3, <2>4, <2>5, <2>6, Zenon DEF BufferInv

\* The rest happens only while no reply is ready.
<1>5. ASSUME p.receive = "cmd" \/ p.receive = "payload"
      PROVE  ~p.reply_ready
  <2>1. p.cntr >= 2
    BY <1>0, <1>1, <1>5
  <2>2. ~(p.cntr + l <= 2)
    BY <1>0, <2>1
  <2> QED BY <1>2, <2>2, Zenon
<1>6. CASE p.receive = "cmd" /\ Dropped(q, p, c) /\ ~q.reply_ready
  <2>1. p.buff = 1 /\ p.cntr + l <= 6
    BY <1>3, <1>5, <1>6, Zenon
  <2>2. q.receive = "length" /\ q.cntr = 0 /\ q.buff = 1
    BY <1>6, Zenon DEF Dropped
  <2>3. Aligned(q) /\ q.cntr + r <= 6
    <3>1. "length" # "func" /\ "length" # "cmd" /\ "length" # "payload"
      OBVIOUS
    <3>2. Aligned(q)
      BY <2>2, <3>1, Zenon
    <3>3. q.cntr + r <= 6
      BY <1>0, <2>1, <2>2
    <3> QED BY <3>2, <3>3, Zenon
  <2>4. \A i : i \notin 1 .. q.cntr
    BY <2>2
  <2> QED BY <1>6, <2>2, <2>3, <2>4, Zenon DEF BufferInv
<1>7. CASE p.receive = "payload" /\ p.cntr + 1 = p.expected_len /\ Handed(q, p, c) /\ q.reply_ready
  <2>1. p.buff = 1 /\ p.cntr + l <= 6
    BY <1>3, <1>5, <1>7, Zenon
  <2>2. /\ q.receive = "length" /\ q.cntr = 0 /\ q.buff_copy = 1 /\ q.buff = 2
        /\ \A i \in 1 .. Cap : q.mem[1][i] = IF i = p.cntr + 1 THEN c ELSE p.mem[1][i]
    BY <1>7, <2>1 DEF Handed
  <2>3. p.cntr >= 3 /\ p.mem[1][1].val = p.cntr + 1
    BY <1>1, <1>7, <2>1
  <2>4. q.mem[1][1].val = p.cntr + 1 /\ p.cntr + 1 \in 0 .. 6
    BY <1>0, <2>1, <2>2, <2>3, Prot2Assumption, ArmLinkAssumption
  <2>5. \A i \in 1 .. p.cntr + 1 : Mine(q.mem[1][i], k, n)
    BY <1>0, <1>1, <2>1, <2>2, Prot2Assumption, ArmLinkAssumption
  <2>6. Whole(q.mem[1], k, n)
    BY <2>4, <2>5 DEF Whole
  <2>7. Aligned(q) /\ q.cntr + r <= 2
    <3>1. "length" # "func" /\ "length" # "cmd" /\ "length" # "payload"
      OBVIOUS
    <3>2. Aligned(q)
      BY <2>2, <3>1, Zenon
    <3>3. q.cntr + r <= 2
      BY <1>0, <2>1, <2>2, <2>3
    <3> QED BY <3>2, <3>3, Zenon
  <2>8. \A i : i \notin 1 .. q.cntr
    BY <2>2
  <2> QED BY <1>7, <2>2, <2>6, <2>7, <2>8, Zenon DEF BufferInv
<1> QED BY <1>4, <1>6, <1>7, Zenon DEF Arrival

\* Between the request and the end of it.
LEMMA NotWaiting ==
    ASSUME IInv, Begin \/ Reset \/ End
    PROVE  ~Waiting'
<1>1. CASE Begin
  BY <1>1 DEF Begin, Waiting
<1>2. CASE Reset
  BY <1>2, CleanupIs DEF Reset, Waiting
<1>3. CASE End
  BY <1>3, CleanupIs DEF End, Waiting
<1> QED BY <1>1, <1>2, <1>3

\* Such a request goes out to an ARM that owes nothing and a receiver at its start.
LEMMA SentInSilence ==
    ASSUME IInv, Send, quiet'
    PROVE  /\ line' = <<>> /\ arm' = <<Request>> /\ ~held' /\ ~expired' /\ pc' = "wait"
           /\ arm_processor'.receive = "length" /\ arm_processor'.cntr = 0
           /\ ~arm_processor'.reply_ready /\ arm_processor'.buff = 1
           /\ Request' = Request /\ Left' = RepLen(kind)
<1>1. /\ quiet /\ pc = "send" /\ pc' = "wait" /\ line' = line /\ held' = held /\ expired' = FALSE
      /\ kind' = kind /\ number' = number
  BY DEF Send
<1>2. /\ Nothing /\ arm_processor.receive = "length" /\ arm_processor.cntr = 0
      /\ ~arm_processor.reply_ready /\ arm_processor.buff = 1
  BY <1>1, Zenon DEF IInv, ResetInv
<1>3. arm' = <<Request>> /\ line' = <<>> /\ ~held'
  BY <1>1, <1>2, RequestSent, Zenon DEF Nothing, IInv, ControlInv
<1>4. /\ arm_processor'.receive = "length" /\ arm_processor'.cntr = 0
      /\ ~arm_processor'.reply_ready /\ arm_processor'.buff = 1
  BY <1>2, SendClears, Zenon
<1>5. Left' = RepLen(kind)
  <2>1. Len(line') = 0 /\ arm' # <<>>
    BY <1>3
  <2>2. RepLen(kind) \in Nat /\ kind' = kind
    BY <1>1, KindOfLength DEF IInv, TypeOK
  <2> QED BY <2>1, <2>2 DEF Left
<1> QED BY <1>1, <1>3, <1>4, <1>5, Zenon DEF Request

\* Bytes that are lost do no harm to BufferInv.
LEMMA SameBuffer ==
    ASSUME NEW p \in Receivers, NEW k, NEW n, NEW l \in Nat, NEW r \in Nat, r <= l,
           BufferInv(p, k, n, l)
    PROVE  BufferInv(p, k, n, r)
<1>1. p.cntr \in Nat
  BY FieldsIs
<1>2. p.cntr + l <= 2 => p.cntr + r <= 2
  BY <1>1
<1>3. p.cntr + l <= 6 => p.cntr + r <= 6
  BY <1>1
<1> QED BY <1>2, <1>3, Zenon DEF BufferInv

LEMMA LeftIs ==
    ASSUME TypeOK
    PROVE  Left \in Nat /\ RepLen(kind) \in 4 .. 6
  BY LinesAre, KindOfLength DEF Left, TypeOK

LEMMA LeftNext ==
    ASSUME TypeOK'
    PROVE  Left' \in Nat
<1>1. line' \in Seq(ByteSent) /\ kind' \in Kinds
  BY Zenon DEF TypeOK
<1>2. Len(line') \in Nat /\ RepLen(kind') \in Nat
  BY <1>1, LenProperties, KindOfLength
<1> QED BY <1>2 DEF Left

QuietNow ==
    /\ \A i \in 1 .. Len(line) : Mine(line[i], kind, number)
    /\ arm = <<>> \/ arm = <<Request>>
    /\ BufferInv(arm_processor, kind, number, Left)

\* Only the answer to the request itself can come until it ends.
LEMMA QuietLineStep ==
    ASSUME IInv, [Next]_vars, quiet', Waiting'
    PROVE  QuietNow'
<1>1. /\ arm_processor \in Receivers /\ Left \in Nat /\ RepLen(kind) \in 4 .. 6
      /\ Len(line) \in Nat /\ Left' \in Nat
  BY TypeIs, LeftIs, LeftNext, TypeStep, LinesAre DEF IInv
<1>2. quiet /\ Waiting => QuietNow
  BY Zenon DEF IInv, QuietInv, QuietNow
<1>3. CASE Send
  <2>1. /\ line' = <<>> /\ arm' = <<Request>>
        /\ arm_processor'.receive = "length" /\ arm_processor'.cntr = 0
        /\ ~arm_processor'.reply_ready /\ arm_processor'.buff = 1
        /\ Request' = Request /\ Left' = RepLen(kind)
    BY <1>3, SentInSilence, Zenon
  <2>2. Len(line') = 0
    BY <2>1
  <2>3. \A i : i \notin 1 .. Len(line') /\ i \notin 1 .. arm_processor'.cntr
    BY <2>1, <2>2
  <2>4. arm_processor'.cntr + Left' <= 6
    BY <1>1, <2>1
  <2>5. "length" # "func" /\ "length" # "cmd" /\ "length" # "payload"
    OBVIOUS
  <2> QED BY <2>1, <2>3, <2>4, <2>5, Zenon DEF QuietNow, BufferInv, Aligned
<1>4. CASE ReceiveByte
  <2>1. quiet /\ Waiting /\ kind' = kind /\ number' = number /\ arm' = arm
    BY <1>4 DEF ReceiveByte, main, Waiting
  <2>2. QuietNow
    BY <1>2, <2>1, Zenon
  <2>3. /\ Len(line) > 0 /\ Len(line') = Len(line) - 1 /\ line[1] \in ByteSent
        /\ \A i \in 1 .. Len(line') : line'[i] = line[i + 1] /\ i + 1 \in 1 .. Len(line)
        /\ arm_processor' \in Receivers /\ Arrival(arm_processor', arm_processor, line[1])
    BY <1>1, <1>4, ByteArrives
  <2>4. Mine(line[1], kind, number) /\ \A i \in 1 .. Len(line') : Mine(line'[i], kind, number)
    BY <1>1, <2>2, <2>3 DEF QuietNow
  <2>5. Left' <= Left - 1
    BY <1>1, <2>1, <2>3 DEF Left
  <2>6. arm_processor.cntr < Cap
    <3>1. arm_processor.cntr \in Nat /\ Len(arm) \in Nat
      BY <1>1, FieldsIs, LinesAre DEF IInv
    <3>2. Out + arm_processor.cntr <= 6 * (MaxHeld + 1)
      BY DEF IInv, RoomInv
    <3> QED BY <1>1, <2>3, <3>1, <3>2, Prot2Assumption, ArmLinkAssumption DEF Out
  <2>7. BufferInv(arm_processor, kind, number, Left)
    BY <2>2, Zenon DEF QuietNow
  <2>8. BufferInv(arm_processor', kind, number, Left')
    BY <1>1, <2>1, <2>3, <2>4, <2>5, <2>6, <2>7, BufferStep, Zenon
  <2> QED BY <2>1, <2>2, <2>4, <2>8, Zenon DEF QuietNow, Request
<1>5. CASE ArmAnswers
  <2>1. quiet /\ Waiting /\ kind' = kind /\ number' = number /\ arm_processor' = arm_processor
    BY <1>5 DEF ArmAnswers, main, Waiting
  <2>2. QuietNow /\ arm # <<>>
    BY <1>2, <1>5, <2>1, Zenon DEF ArmAnswers
  <2>3. /\ arm' = <<>> /\ Head(arm).kind = kind /\ Head(arm).pkt = number
    BY <1>5, <2>2, Answered, Zenon DEF QuietNow
  <2>4. /\ Len(line') = Len(line) + RepLen(kind)
        /\ \A i \in 1 .. Len(line') :
                  line'[i] = IF i <= Len(line) THEN line[i]
                             ELSE ReplyPacket(kind, number)[i - Len(line)]
    BY <1>5, <2>3, Answered, Zenon
  <2>5. PICK r \in 4 .. 6 : r = RepLen(kind)
    BY <1>1
  <2>6. \A i \in 1 .. Len(line') : \/ i \in 1 .. Len(line) /\ line'[i] = line[i]
                                   \/ i - Len(line) \in 1 .. RepLen(kind)
                                      /\ line'[i] = ReplyPacket(kind, number)[i - Len(line)]
    BY <1>1, <2>4, <2>5
  <2>7. \A i \in 1 .. Len(line') : Mine(line'[i], kind, number)
    BY <2>2, <2>6, Zenon DEF QuietNow, Mine
  <2>8. Left' = Left
    BY <1>1, <2>2, <2>3, <2>4, <2>5 DEF Left
  <2>9. Left' <= Left
    BY <1>1, <2>8
  <2>10. BufferInv(arm_processor', kind, number, Left')
    BY <1>1, <2>1, <2>2, <2>9, SameBuffer, Zenon DEF QuietNow
  <2> QED BY <2>1, <2>3, <2>7, <2>10, Zenon DEF QuietNow
<1>6. CASE Fault
  <2>1. quiet /\ Waiting /\ kind' = kind /\ number' = number /\ arm_processor' = arm_processor
    BY <1>6 DEF Fault, main, Waiting
  <2>2. QuietNow
    BY <1>2, <2>1, Zenon
  <2>3. arm' = arm \/ arm' = <<>>
    <3>1. CASE arm # <<>> /\ arm' = Tail(arm)
      <4>1. arm = <<Request>>
        BY <2>2, <3>1, Zenon DEF QuietNow
      <4>2. Tail(<<Request>>) = <<>>
        OBVIOUS
      <4> QED BY <3>1, <4>1, <4>2, Zenon
    <3> QED BY <1>6, <3>1, Faulty, Zenon
  <2>4. \A i \in 1 .. Len(line') : Mine(line'[i], kind, number)
    <3>1. ASSUME NEW i \in 1 .. Len(line')
          PROVE  Mine(line'[i], kind, number)
      <4>1. line'[i].pkt = 0 \/ \E j \in 1 .. Len(line) : line'[i] = line[j]
        BY <1>6, <3>1, Faulty, Zenon
      <4>2. line'[i].pkt = 0 => Mine(line'[i], kind, number)
        BY Zenon DEF Mine
      <4> QED BY <2>2, <4>1, <4>2, Zenon DEF QuietNow
    <3> QED BY <3>1, Zenon
  <2>5. Left' <= Left
    <3>1. Len(line') \in Nat /\ Len(line') <= Len(line)
      BY <1>6, Faulty, LenProperties
    <3> QED BY <1>1, <2>1, <2>3, <3>1 DEF Left
  <2>6. BufferInv(arm_processor', kind, number, Left')
    BY <1>1, <2>1, <2>2, <2>5, SameBuffer, Zenon DEF QuietNow
  <2> QED BY <2>1, <2>2, <2>3, <2>4, <2>6, Zenon DEF QuietNow, Request
<1>7. CASE UNCHANGED <<arm_processor, line, arm, kind, number>> /\ quiet /\ Waiting
  <2>1. QuietNow /\ UNCHANGED <<arm_processor, line, arm, kind, number>>
    BY <1>2, <1>7, Zenon
  <2>2. Left' <= Left
    BY <1>1, <2>1 DEF Left
  <2>3. BufferInv(arm_processor', kind, number, Left')
    BY <1>1, <2>1, <2>2, SameBuffer, Zenon DEF QuietNow
  <2> QED BY <2>1, <2>3, Zenon DEF QuietNow, Request
<1>8. CASE ReplyReady \/ TimedOut \/ Check
  <2>1. UNCHANGED <<arm_processor, line, arm, kind, number>> /\ quiet /\ Waiting
    BY <1>8 DEF ReplyReady, TimedOut, Check, external, Waiting
  <2> QED BY <1>7, <2>1, Zenon
<1>9. CASE /\ Still
           /\ ArmWakes \/ TimeUp \/ (UNCHANGED <<main, held, quiet, disturbed>> /\ expired' = expired)
  <2>1. UNCHANGED <<arm_processor, line, arm, kind, number>> /\ quiet /\ Waiting
    BY <1>9 DEF Still, ArmWakes, TimeUp, main, Waiting
  <2> QED BY <1>7, <2>1, Zenon
<1> QED BY <1>3, <1>4, <1>5, <1>6, <1>8, <1>9, NotWaiting, TheSteps, Zenon

\* The buffer that is handed over is the one that is read, and stays as it is.
LEMMA QuietStep ==
    ASSUME IInv, [Next]_vars
    PROVE  QuietInv'
<1>1. quiet' /\ Waiting' => QuietNow'
  BY QuietLineStep, Zenon
<1>2. /\ arm_processor \in Receivers
      /\ quiet /\ Waiting =>
            /\ QuietNow
            /\ pc = "check" => arm_processor.reply_ready /\ reply = 1
            /\ pc = "end" /\ outcome = "SUCCESS" =>
                  /\ arm_processor.reply_ready /\ reply = 1
                  /\ IsReply(arm_processor.mem[1], kind, number)
  BY TypeIs, Zenon DEF IInv, QuietInv, QuietNow
<1> DEFINE Verdicts == /\ pc = "check" => arm_processor.reply_ready /\ reply = 1
                       /\ pc = "end" /\ outcome = "SUCCESS" =>
                              /\ arm_processor.reply_ready /\ reply = 1
                              /\ IsReply(arm_processor.mem[1], kind, number)
<1>3. ASSUME quiet', Waiting'
      PROVE  Verdicts'
  <2>1. CASE Send
    BY <2>1 DEF Send
  <2>2. CASE ReceiveByte
    <3>1. /\ quiet /\ Waiting /\ pc' = pc /\ kind' = kind /\ number' = number /\ reply' = reply
          /\ outcome' = outcome /\ line # <<>>
      BY <1>3, <2>2 DEF ReceiveByte, main, Waiting
    <3>2. ASSUME arm_processor.reply_ready
          PROVE  /\ arm_processor'.reply_ready /\ arm_processor'.mem[1] = arm_processor.mem[1]
      <4>1. /\ arm_processor.buff = 2 /\ arm_processor.cntr + Left <= 2
            /\ Aligned(arm_processor)
        BY <1>2, <3>1, <3>2, Zenon DEF QuietNow, BufferInv
      <4>2. Len(line) > 0 /\ Arrival(arm_processor', arm_processor, line[1])
        BY <2>2, ByteArrives
      <4>3. arm_processor.cntr \in Nat /\ Left >= 1 /\ Left \in Nat
        BY <1>2, <4>2, FieldsIs, LeftIs, LinesAre DEF IInv, Left
      <4>4. arm_processor.cntr < 2
        BY <4>1, <4>3
      <4>5. ~(arm_processor.receive = "cmd") /\ ~(arm_processor.receive = "payload")
        BY <4>1, <4>3, <4>4 DEF Aligned
      <4>6. /\ arm_processor'.reply_ready
            /\ StoredIn(arm_processor', arm_processor, line[1])
        BY <3>2, <4>2, <4>5, Zenon DEF Arrival, Fed
      <4>7. 3 - 2 = 1
        OBVIOUS
      <4>8. arm_processor'.mem[1] = arm_processor.mem[1]
        BY <4>1, <4>6, <4>7, Zenon DEF StoredIn
      <4> QED BY <4>6, <4>8, Zenon
    <3>3. Verdicts
      BY <1>2, <3>1, Zenon
    <3>4. ASSUME pc' = "check"
          PROVE  arm_processor'.reply_ready /\ reply' = 1
      BY <3>1, <3>2, <3>3, <3>4, Zenon
    <3>5. ASSUME pc' = "end", outcome' = "SUCCESS"
          PROVE  /\ arm_processor'.reply_ready /\ reply' = 1
                 /\ IsReply(arm_processor'.mem[1], kind', number')
      BY <3>1, <3>2, <3>3, <3>5, Zenon
    <3> QED BY <3>4, <3>5, Zenon
  <2>3. CASE ReplyReady
    <3>1. /\ pc = "wait" /\ pc' = "check" /\ quiet' = quiet /\ arm_processor.reply_ready
          /\ reply' = arm_processor.buff_copy /\ arm_processor' = arm_processor /\ Waiting
      BY <2>3, Zenon DEF ReplyReady, Waiting
    <3>2. arm_processor.buff_copy = 1
      BY <1>2, <1>3, <3>1, Zenon DEF QuietNow, BufferInv
    <3>3. "check" # "end"
      OBVIOUS
    <3> QED BY <3>1, <3>2, <3>3, Zenon
  <2>4. CASE TimedOut
    <3>1. pc' = "end" /\ outcome' = "TIMEOUT"
      BY <2>4, Zenon DEF TimedOut
    <3>2. "end" # "check" /\ "TIMEOUT" # "SUCCESS"
      OBVIOUS
    <3> QED BY <3>1, <3>2, Zenon
  <2>5. CASE Check
    <3>1. /\ pc = "check" /\ pc' = "end" /\ quiet' = quiet /\ reply' = reply
          /\ arm_processor' = arm_processor /\ kind' = kind /\ number' = number
          /\ outcome' = Verdict(arm_processor.mem[reply]) /\ Waiting
      BY <2>5, Zenon DEF Check, Waiting
    <3>2. /\ arm_processor.reply_ready /\ reply = 1 /\ Whole(arm_processor.mem[1], kind, number)
      BY <1>2, <1>3, <3>1, Zenon DEF QuietNow, BufferInv
    <3>3. kind \in Kinds /\ number \in 1 .. Packets
      BY Zenon DEF IInv, TypeOK
    <3>4. outcome' = "SUCCESS" => IsReply(arm_processor.mem[1], kind, number)
      BY <3>1, <3>2, <3>3, VerdictIs, MineReply, Zenon
    <3>5. "end" # "check"
      OBVIOUS
    <3> QED BY <3>1, <3>2, <3>4, <3>5, Zenon
  <2>6. CASE UNCHANGED <<arm_processor, pc, kind, number, reply, outcome>> /\ quiet /\ Waiting
    <3>1. /\ arm_processor' = arm_processor /\ pc' = pc /\ kind' = kind /\ number' = number
          /\ reply' = reply /\ outcome' = outcome
      BY <2>6, Zenon
    <3> QED BY <1>2, <2>6, <3>1, Zenon
  <2>7. CASE ArmAnswers \/ Fault
    <3>1. UNCHANGED <<arm_processor, pc, kind, number, reply, outcome>> /\ quiet /\ Waiting
      BY <1>3, <2>7 DEF ArmAnswers, Fault, main, Waiting
    <3> QED BY <2>6, <3>1, Zenon
  <2>8. CASE /\ Still
             /\ ArmWakes \/ TimeUp \/ (UNCHANGED <<main, held, quiet, disturbed>> /\ expired' = expired)
    <3>1. UNCHANGED <<arm_processor, pc, kind, number, reply, outcome>> /\ quiet /\ Waiting
      BY <1>3, <2>8 DEF Still, ArmWakes, TimeUp, main, Waiting
    <3> QED BY <2>6, <3>1, Zenon
  <2> QED BY <1>3, <2>1, <2>2, <2>3, <2>4, <2>5, <2>7, <2>8, NotWaiting, TheSteps, Zenon
<1> QED BY <1>1, <1>3, Zenon DEF QuietInv, QuietNow

\* Byte for byte the answer moves from the ARM to the buffer that is handed over.
LEMMA CleanStep ==
    ASSUME IInv, [Next]_vars
    PROVE  CleanInv'
<1> DEFINE p == arm_processor
           q == arm_processor'
           r == RepLen(kind)
<1>1. /\ p \in Receivers /\ p.cntr \in Nat /\ r \in 4 .. 6
      /\ Len(line) \in Nat /\ kind \in Kinds /\ number \in 1 .. Packets
      /\ line = <<>> <=> Len(line) = 0
  BY TypeIs, FieldsIs, LeftIs, LinesAre DEF IInv, TypeOK
<1>2. quiet /\ ~disturbed /\ Waiting =>
          /\ ~held /\ (pc = "wait" => ~expired) /\ UnderWay(p) /\ (pc = "end" => outcome = "SUCCESS")
          /\ BufferInv(p, kind, number, Left)
          /\ (pc = "check" => p.reply_ready /\ reply = 1)
  BY Zenon DEF IInv, CleanInv, QuietInv
<1>3. ASSUME quiet', ~disturbed', Waiting'
      PROVE  /\ ~held' /\ (pc' = "wait" => ~expired') /\ UnderWay(p)'
             /\ (pc' = "end" => outcome' = "SUCCESS")
  <2>1. CASE Send
    <3>1. /\ line' = <<>> /\ arm' = <<Request>> /\ ~held' /\ ~expired' /\ pc' = "wait"
          /\ q.cntr = 0 /\ ~q.reply_ready /\ Request' = Request
      BY <1>3, <2>1, SentInSilence, Zenon
    <3>2. "wait" # "end"
      OBVIOUS
    <3> QED BY <3>1, <3>2, Zenon DEF UnderWay
  <2>2. CASE ReceiveByte
    <3>1. /\ quiet /\ ~disturbed /\ Waiting /\ pc' = pc /\ kind' = kind /\ number' = number
          /\ held' = held /\ expired' = expired /\ outcome' = outcome /\ arm' = arm /\ line # <<>>
      BY <1>3, <2>2 DEF ReceiveByte, main, Waiting
    <3>2. /\ ~held /\ (pc = "wait" => ~expired) /\ UnderWay(p) /\ (pc = "end" => outcome = "SUCCESS")
          /\ BufferInv(p, kind, number, Left)
      BY <1>2, <3>1, Zenon
    <3>3. /\ arm = <<>> /\ ~p.reply_ready /\ p.cntr < r /\ Len(line) = r - p.cntr
          /\ \A i \in 1 .. Len(line) : line[i] = ReplyPacket(kind, number)[i + p.cntr]
          /\ \A i \in 1 .. p.cntr : p.mem[1][i] = ReplyPacket(kind, number)[i]
      BY <3>1, <3>2, Zenon DEF UnderWay
    <3>4. p.buff = 1 /\ Aligned(p) /\ (p.receive # "length" => p.mem[p.buff][1].val = p.expected_len)
      BY <3>2, <3>3, Zenon DEF BufferInv
    <3>5. /\ Len(line') = Len(line) - 1 /\ Len(line) > 0
          /\ \A i \in 1 .. Len(line') : line'[i] = line[i + 1]
          /\ Arrival(q, p, line[1]) /\ q \in Receivers /\ line' \in Seq(ByteSent)
      BY <2>2, ByteArrives
    <3>6. line[1] = ReplyPacket(kind, number)[p.cntr + 1] /\ p.cntr + 1 \in 1 .. r
      <4>1. 1 \in 1 .. Len(line) /\ 1 + p.cntr = p.cntr + 1
        BY <1>1, <3>5
      <4>2. line[1] = ReplyPacket(kind, number)[1 + p.cntr]
        BY <3>3, <4>1, Zenon
      <4>3. p.cntr + 1 \in 1 .. r
        BY <1>1, <3>3
      <4> QED BY <4>1, <4>2, <4>3, Zenon
    <3> DEFINE Part == /\ \A i \in 1 .. p.cntr + 1 : q.mem[1][i] = ReplyPacket(kind, number)[i]
    <3>7. \A i \in 1 .. Cap : q.mem[1][i] = IF i = p.cntr + 1 THEN line[1] ELSE p.mem[1][i]
      <4>1. StoredIn(q, p, line[1]) \/ Handed(q, p, line[1])
        BY <3>5, Zenon DEF Arrival, Fed, Dropped
      <4> QED BY <3>4, <4>1, Zenon DEF StoredIn, Handed
    <3>8. Part
      <4>1. p.cntr + 1 <= Cap
        <5>1. p.cntr + 1 <= 6 /\ 6 <= Cap
          BY <1>1, <3>6, Prot2Assumption, ArmLinkAssumption
        <5> QED BY <1>1, <5>1, Prot2Assumption, ArmLinkAssumption
      <4> QED BY <1>1, <3>3, <3>6, <3>7, <4>1, Prot2Assumption, ArmLinkAssumption, SMTT(40)
    <3>9. ASSUME ~q.reply_ready, q.cntr = p.cntr + 1, p.cntr + 1 < r
          PROVE  UnderWay(p)'
      <4>1. Len(line') = r - q.cntr /\ q.cntr < r
        BY <1>1, <3>3, <3>5, <3>9, Prot2Assumption, ArmLinkAssumption
      <4>2. \A i \in 1 .. Len(line') : line'[i] = ReplyPacket(kind, number)[i + q.cntr]
        <5>1. ASSUME NEW i \in 1 .. Len(line')
              PROVE  line'[i] = ReplyPacket(kind, number)[i + q.cntr]
          <6>1. line'[i] = line[i + 1] /\ i + 1 \in 1 .. Len(line)
            BY <1>1, <3>5
          <6>2. line[i + 1] = ReplyPacket(kind, number)[i + 1 + p.cntr]
            BY <3>3, <6>1, Zenon
          <6>3. i + 1 + p.cntr = i + q.cntr
            BY <1>1, <3>9
          <6> QED BY <6>1, <6>2, <6>3, Zenon
        <5> QED BY <5>1, Zenon
      <4>3. \A i \in 1 .. q.cntr : q.mem[1][i] = ReplyPacket(kind, number)[i]
        BY <3>8, <3>9, Zenon
      <4> QED BY <3>1, <3>3, <3>9, <4>1, <4>2, <4>3, Zenon DEF UnderWay
    <3>10. ASSUME p.receive = "length", Fed(q, p, line[1], "func"), q.reply_ready <=> p.reply_ready
           PROVE  UnderWay(p)'
      <4>1. q.cntr = p.cntr + 1 /\ p.cntr = 0
        BY <3>4, <3>10, Zenon DEF Fed, Aligned
      <4>2. p.cntr + 1 < r
        BY <1>1, <4>1
      <4> QED BY <3>3, <3>9, <3>10, <4>1, <4>2, Zenon
    <3>11. ASSUME p.receive = "func", Fed(q, p, line[1], "cmd"), q.reply_ready <=> p.reply_ready
           PROVE  UnderWay(p)'
      <4>1. q.cntr = p.cntr + 1 /\ p.cntr = 1
        BY <3>4, <3>11, Zenon DEF Fed, Aligned
      <4>2. p.cntr + 1 < r
        BY <1>1, <4>1
      <4> QED BY <3>3, <3>9, <3>11, <4>1, <4>2, Zenon
    <3>12. ASSUME p.receive = "cmd", Fed(q, p, line[1], "payload"), q.reply_ready <=> p.reply_ready
           PROVE  UnderWay(p)'
      <4>1. q.cntr = p.cntr + 1 /\ p.cntr = 2
        BY <3>4, <3>12, Zenon DEF Fed, Aligned
      <4>2. p.cntr + 1 < r
        BY <1>1, <4>1
      <4> QED BY <3>3, <3>9, <3>12, <4>1, <4>2, Zenon
    <3>13. ~(p.receive = "cmd" /\ line[1].val % NACK \notin Commands)
      <4>1. ASSUME p.receive = "cmd"
            PROVE  line[1].val % NACK \in Commands
        <5>1. p.cntr = 2
          BY <3>4, <4>1, Zenon DEF Aligned
        <5>2. 3 \in 1 .. r /\ 2 + 1 = 3
          BY <1>1
        <5>3. line[1].val \in {0, 1}
          <6>1. line[1] = ReplyPacket(kind, number)[3]
            BY <3>6, <5>1, <5>2, Zenon
          <6>2. ReplyPacket(kind, number)[3].val \in {0, 1}
            BY <1>1, <5>2, ReplyBytes
          <6> QED BY <6>1, <6>2, Zenon
        <5> QED BY <5>3 DEF Commands, NACK
      <4> QED BY <4>1, Zenon
    <3>14. ASSUME p.receive = "payload"
           PROVE  p.expected_len = r
      <4>1. p.cntr >= 3 /\ p.mem[1][1].val = p.expected_len
        BY <3>4, <3>14 DEF Aligned
      <4>2. 1 \in 1 .. p.cntr /\ 1 \in 1 .. r
        BY <1>1, <4>1
      <4>3. p.mem[1][1] = ReplyPacket(kind, number)[1]
        BY <3>3, <4>2, Zenon
      <4>4. ReplyPacket(kind, number)[1].val = r
        BY <1>1, <4>2, ReplyBytes
      <4> QED BY <4>1, <4>3, <4>4, Zenon
    <3>15. ASSUME p.receive = "payload", Fed(q, p, line[1], "payload"), p.cntr + 1 # p.expected_len,
                  q.reply_ready <=> p.reply_ready
           PROVE  UnderWay(p)'
      <4>1. q.cntr = p.cntr + 1
        BY <3>15, Zenon DEF Fed
      <4>2. p.cntr + 1 < r
        BY <1>1, <3>3, <3>14, <3>15
      <4> QED BY <3>3, <3>9, <3>15, <4>1, <4>2, Zenon
    <3>16. ASSUME p.receive = "payload", p.cntr + 1 = p.expected_len, Handed(q, p, line[1]),
                  q.reply_ready
           PROVE  UnderWay(p)'
      <4>1. p.cntr + 1 = r
        BY <3>14, <3>16, Zenon
      <4>2. Len(line') = 0
        BY <1>1, <3>3, <3>5, <4>1
      <4>3. line' = <<>>
        BY <3>5, <4>2, EmptySeq
      <4>4. IsReply(q.mem[1], kind, number)
        BY <3>8, <4>1, Zenon DEF IsReply
      <4> QED BY <3>1, <3>3, <3>16, <4>3, <4>4, Zenon DEF UnderWay
    <3>17. UnderWay(p)'
      BY <3>5, <3>10, <3>11, <3>12, <3>13, <3>15, <3>16, Zenon DEF Arrival
    <3> QED BY <3>1, <3>2, <3>17, Zenon
  <2>3. CASE ReplyReady
    <3>1. /\ pc = "wait" /\ pc' = "check" /\ quiet' = quiet /\ disturbed' = disturbed /\ Waiting
          /\ UNCHANGED <<arm_processor, arm, held, line, kind, number, outcome>>
      BY <2>3 DEF ReplyReady, Waiting, external
    <3>2. "check" # "end" /\ "check" # "wait"
      OBVIOUS
    <3> QED BY <1>2, <1>3, <3>1, <3>2, Zenon DEF UnderWay, Request
  <2>4. CASE TimedOut
    <3>1. pc = "wait" /\ expired /\ quiet /\ ~disturbed /\ Waiting
      BY <1>3, <2>4 DEF TimedOut, Waiting
    <3> QED BY <1>2, <3>1, Zenon
  <2>5. CASE Check
    <3>1. /\ pc = "check" /\ pc' = "end" /\ quiet' = quiet /\ disturbed' = disturbed /\ Waiting
          /\ outcome' = Verdict(p.mem[reply])
          /\ UNCHANGED <<arm_processor, arm, held, line, kind, number>>
      BY <2>5 DEF Check, Waiting, external
    <3>2. UnderWay(p) /\ p.reply_ready /\ reply = 1 /\ ~held
      BY <1>2, <1>3, <3>1, Zenon
    <3>3. IsReply(p.mem[1], kind, number)
      BY <3>2, Zenon DEF UnderWay
    <3>4. outcome' = "SUCCESS"
      BY <1>1, <3>1, <3>2, <3>3, ReplyPasses, Zenon
    <3>5. "end" # "wait"
      OBVIOUS
    <3>6. UnderWay(p)'
      BY <3>1, <3>2, Zenon DEF UnderWay, Request
    <3> QED BY <3>1, <3>2, <3>4, <3>5, <3>6, Zenon
  <2>6. CASE ArmAnswers
    <3>1. /\ quiet /\ ~disturbed /\ Waiting /\ pc' = pc /\ kind' = kind /\ number' = number
          /\ held' = held /\ expired' = expired /\ outcome' = outcome /\ arm # <<>>
          /\ arm_processor' = arm_processor
      BY <1>3, <2>6 DEF ArmAnswers, main, Waiting
    <3>2. /\ ~held /\ (pc = "wait" => ~expired) /\ UnderWay(p) /\ (pc = "end" => outcome = "SUCCESS")
      BY <1>2, <3>1, Zenon
    <3>3. arm = <<Request>> /\ line = <<>> /\ p.cntr = 0 /\ ~p.reply_ready
      BY <3>1, <3>2, Zenon DEF UnderWay
    <3>4. /\ arm' = <<>> /\ Head(arm).kind = kind /\ Head(arm).pkt = number
          /\ Len(line') = Len(line) + RepLen(Head(arm).kind)
          /\ \A i \in 1 .. Len(line') :
                  line'[i] = IF i <= Len(line) THEN line[i]
                             ELSE ReplyPacket(Head(arm).kind, Head(arm).pkt)[i - Len(line)]
      BY <2>6, <3>3, Answered, Zenon
    <3>5. Len(line) = 0
      BY <3>3
    <3>6. Len(line') = r - p.cntr /\ p.cntr < r
      BY <1>1, <3>3, <3>4, <3>5
    <3>7. \A i \in 1 .. Len(line') : line'[i] = ReplyPacket(kind, number)[i + p.cntr]
      <4>1. ASSUME NEW i \in 1 .. Len(line')
            PROVE  line'[i] = ReplyPacket(kind, number)[i + p.cntr]
        <5>1. ~(i <= Len(line)) /\ i - Len(line) = i + p.cntr
          BY <1>1, <3>3, <3>5
        <5> QED BY <3>4, <5>1, Zenon
      <4> QED BY <4>1, Zenon
    <3>8. \A i : i \notin 1 .. p.cntr
      BY <3>3
    <3>9. UnderWay(p)'
      BY <3>1, <3>3, <3>4, <3>6, <3>7, <3>8, Zenon DEF UnderWay
    <3> QED BY <3>1, <3>2, <3>9, Zenon
  <2>7. CASE Fault
    BY <1>3, <2>7 DEF Fault
  <2>8. CASE Still /\ ArmWakes
    <3>1. held /\ quiet /\ ~disturbed /\ Waiting
      BY <1>3, <2>8 DEF ArmWakes, main, Waiting
    <3> QED BY <1>2, <3>1, Zenon
  <2>9. CASE Still /\ TimeUp
    <3>1. /\ quiet /\ ~disturbed /\ Waiting
          /\ held \/ (arm = <<>> /\ line = <<>> /\ ~p.reply_ready)
      BY <1>3, <2>9 DEF TimeUp, main, Waiting
    <3>2. UnderWay(p) /\ ~held
      BY <1>2, <3>1, Zenon
    <3>3. arm = <<>> /\ line = <<>> /\ ~p.reply_ready /\ <<Request>> # <<>>
      BY <3>1, <3>2
    <3>4. p.cntr < r /\ Len(line) = r - p.cntr
      BY <3>2, <3>3, Zenon DEF UnderWay
    <3>5. Len(line) = 0
      BY <3>3
    <3> QED BY <1>1, <3>4, <3>5
  <2>10. CASE Still /\ UNCHANGED <<main, held, quiet, disturbed>> /\ expired' = expired
    <3>1. /\ quiet /\ ~disturbed /\ Waiting /\ expired' = expired
          /\ UNCHANGED <<arm_processor, arm, held, line, kind, number, outcome, pc>>
      BY <1>3, <2>10 DEF Still, main, Waiting
    <3> QED BY <1>2, <3>1, Zenon DEF UnderWay, Request
  <2> QED BY <1>3, <2>1, <2>2, <2>3, <2>4, <2>5, <2>6, <2>7, <2>8, <2>9, <2>10,
             NotWaiting, TheSteps, Zenon
<1> QED BY <1>3, Zenon DEF CleanInv

LEMMA IInvInit == Init => IInv
<1> SUFFICES ASSUME Init PROVE IInv
  OBVIOUS
<1>1. /\ arm_processor = Processor("master") /\ pc = "idle" /\ write = 1 /\ kind = "slot"
      /\ number = 1 /\ reply = 0 /\ outcome = "none" /\ arm = <<>> /\ line = <<>> /\ held = FALSE
  BY Zenon DEF Init
<1>2. /\ Processor("master") \in Receivers /\ Processor("master").cntr = 0
      /\ Processor("master").mode = "master"
      /\ \A m \in 1 .. 2 : \A i \in 1 .. Cap : Processor("master").mem[m][i] = Zero
  BY Prot2Assumption, ArmLinkAssumption DEF Processor, Receivers, Of, Mems, States, Blank
<1>3. Len(line) = 0 /\ Len(arm) = 0 /\ line \in Seq(ByteSent) /\ arm \in Seq(Requests)
  BY <1>1
<1>4. TypeOK
  <2>1. ProcessorOK(arm_processor, ByteSent) /\ NoOverrun
    <3>1. 0 <= Cap
      BY Prot2Assumption, ArmLinkAssumption
    <3> QED BY <1>1, <1>2, <3>1, ReceiverType, Zenon DEF NoOverrun
  <2>2. 1 \in Writes /\ "slot" \in Kinds /\ 1 \in 1 .. Packets /\ 0 \in 0 .. 2
    BY Prot2Assumption, ArmLinkAssumption DEF Writes, Kinds
  <2>3. /\ pc \in {"idle", "reset", "send", "wait", "check", "end"}
        /\ outcome \in {"none", "SUCCESS", "TIMEOUT", "ARG_MISMATCH", "CRC_MISMATCH",
                        "FUNC_MISMATCH"}
    BY <1>1
  <2> QED BY <1>1, <1>3, <2>1, <2>2, <2>3, Zenon DEF TypeOK, Requests
<1>5. ControlInv
  BY <1>1, <1>2 DEF ControlInv
<1>6. RoomInv
  <2>1. Out = 0 /\ arm_processor.cntr = 0
    BY <1>1, <1>2, <1>3 DEF Out
  <2>2. 6 * MaxHeld \in Nat /\ 6 * MaxHeld - 6 \in Nat /\ 6 * (MaxHeld + 1) \in Nat
    BY Prot2Assumption, ArmLinkAssumption
  <2> QED BY <1>1, <1>3, <2>1, <2>2, Prot2Assumption, ArmLinkAssumption DEF RoomInv
<1>7. GenuineInv
  BY <1>1, <1>2, <1>3 DEF GenuineInv, Genuine, Zero
<1>8. pc \notin {"reset", "send"} /\ ~Waiting
  BY <1>1 DEF Waiting
<1> QED BY <1>4, <1>5, <1>6, <1>7, <1>8, Zenon DEF IInv, ResetInv, QuietInv, CleanInv

LEMMA IInvStep == IInv /\ [Next]_vars => IInv'
  BY TypeStep, ControlStep, RoomStep, GenuineStep, ResetStep, QuietStep, CleanStep, Zenon DEF IInv

LEMMA IInvHolds == Spec => []IInv
<1>1. QED BY IInvInit, IInvStep, PTL DEF Spec

(***************************************************************************)
(* Every variable stays in its set, and callback_uart_rrdy never makes     *)
(* ipglb_prot2_receive write past the buffer it fills, which nothing in    *)
(* listen_payload sees to.                                                 *)
(***************************************************************************)
THEOREM TypeCorrect == Spec => []TypeOK
<1>1. IInv => TypeOK
  BY DEF IInv
<1> QED BY <1>1, IInvHolds, PTL

(***************************************************************************)
(* Whatever earlier requests left behind in the receiver, and wherever the *)
(* interrupt meets ipglb_prot2_cleanup, a request of get_slot_id,          *)
(* get_fp_leds or set_status_led that begins in silence and meets no fault *)
(* succeeds.                                                               *)
(***************************************************************************)
THEOREM CleanSucceeds == Spec => []CleanRequestSucceeds
<1>1. IInv => CleanRequestSucceeds
  BY Zenon DEF IInv, CleanInv, Waiting, CleanRequestSucceeds
<1> QED BY <1>1, IInvHolds, PTL

(***************************************************************************)
(* A request that begins in silence reads its parameters, after the checks *)
(* of get_slot_id and its like, from its own answer, whatever is lost or   *)
(* damaged meanwhile.                                                      *)
(***************************************************************************)
THEOREM OwnAnswer == Spec => []AnswersItsRequest
<1>1. IInv => AnswersItsRequest
  BY Zenon DEF IInv, QuietInv, Waiting, AnswersItsRequest
<1> QED BY <1>1, IInvHolds, PTL

(***************************************************************************)
(* A buffer that passes the checks of length and CRC in get_slot_id,       *)
(* get_fp_leds or set_status_led holds one whole answer of the kind asked  *)
(* for, even when late answers and fragments come in while it is checked.  *)
(***************************************************************************)
THEOREM AcceptedIsWhole == Spec => AcceptsWhole
<1> DEFINE A == outcome' = "SUCCESS" /\ outcome # "SUCCESS" =>
                    \E n \in 1 .. Packets : IsReply(arm_processor.mem[reply], kind, n)
<1>1. IInv /\ [Next]_vars => [A]_vars
  <2> SUFFICES ASSUME IInv, [Next]_vars, outcome' = "SUCCESS", outcome # "SUCCESS"
               PROVE  \E n \in 1 .. Packets : IsReply(arm_processor.mem[reply], kind, n)
    BY Zenon
  <2>1. CASE Check
    <3>1. /\ reply \in 1 .. 2 /\ kind \in Kinds
          /\ \A i \in 1 .. Cap : Genuine(arm_processor.mem[reply][i])
      BY <2>1 DEF IInv, ControlInv, GenuineInv, TypeOK, Check
    <3>2. Verdict(arm_processor.mem[reply]) = "SUCCESS"
      BY <2>1, Zenon DEF Check
    <3>3. arm_processor.mem[reply][1].val = RepLen(kind) /\ uart_crc_ok(arm_processor.mem[reply])
      BY <3>1, <3>2, VerdictIs, Zenon
    <3> QED BY <3>1, <3>3, WholeReply, Zenon
  <2>2. CASE Begin \/ TimedOut
    <3>1. outcome' # "SUCCESS"
      BY <2>2 DEF Begin, TimedOut
    <3> QED BY <3>1
  <2>3. CASE outcome' = outcome
    BY <2>3
  <2>4. ASSUME \/ Reset \/ Send \/ End \/ ReceiveByte \/ ArmAnswers \/ Fault
               \/ ReplyReady \/ ArmWakes \/ TimeUp
               \/ UNCHANGED <<main, held, quiet, disturbed>>
        PROVE  outcome' = outcome
    BY <2>4 DEF Reset, Send, End, ReceiveByte, ArmAnswers, Fault, ReplyReady, ArmWakes, TimeUp, main
  <2> QED BY <2>1, <2>2, <2>3, <2>4, TheSteps, Zenon
<1> QED BY <1>1, IInvHolds, PTL DEF Spec, AcceptsWhole
=============================================================================
