-------------------------- MODULE SchedulerProofs --------------------------
(***************************************************************************)
(* Proofs about Scheduler, for every number of tasks and of calls, every   *)
(* period and every width of the tick counter.                             *)
(***************************************************************************)
EXTENDS Scheduler, SequenceTheorems, TLAPS

Stamp == 0 .. Wrap - 1

TaskNode == [s_task_id : Ids, active : BOOLEAN, s_priority : Priority,
             s_ticks : Periods \cup {1}, n_ticks : Stamp]

-----------------------------------------------------------------------------
(* The tick counter *)

\* A remainder that is one subtraction or addition away.
LEMMA SmallRemainder ==
    ASSUME NEW w \in Nat \ {0}, NEW x \in Int, 0 - w < x, x < 2 * w
    PROVE  x % w = IF x < 0 THEN x + w ELSE IF x < w THEN x ELSE x - w
  <1>1. x % w \in 0 .. w - 1
    OBVIOUS
  <1>2. PICK q \in Int : x = w * q + (x % w)
    <2>1. x = w * (x \div w) + (x % w) /\ x \div w \in Int
      OBVIOUS
    <2>2. QED
      BY <2>1
  <1>3. q \in {-1, 0, 1}
    <2>1. ~(q > 1)
      <3>1. SUFFICES ASSUME q > 1 PROVE FALSE
        OBVIOUS
      <3>2. PICK k \in Nat : q = 2 + k
        BY <3>1, q - 2 \in Nat, q = 2 + (q - 2)
      <3>3. w * q = 2 * w + w * k /\ w * k \in Nat
        BY <3>2
      <3>4. QED
        BY <1>1, <1>2, <3>3
    <2>2. ~(q < -1)
      <3>1. SUFFICES ASSUME q < -1 PROVE FALSE
        OBVIOUS
      <3>2. PICK k \in Nat : q = (-2) - k
        BY <3>1, (-2) - q \in Nat, q = (-2) - ((-2) - q)
      <3>3. w * q = (-2) * w - w * k /\ w * k \in Nat
        BY <3>2
      <3>4. QED
        BY <1>1, <1>2, <3>3
    <2>3. QED
      BY <2>1, <2>2
  <1>4. QED
    BY <1>1, <1>2, <1>3

\* What the assumption says of the constants, as it is used.
LEMMA Widths ==
    /\ Wrap \in Nat \ {0} /\ MaxLag \in Nat \ {0} /\ MaxTasks \in Nat \ {0}
    /\ MaxSwallowed \in Nat
    /\ \A s \in Periods \cup {1} :
          s \in Nat \ {0} /\ s + 2 * MaxLag + MaxSwallowed <= Wrap
  <1>1. 1 + 2 * MaxLag + MaxSwallowed <= Wrap
    BY SchedulerAssumption
  <1>2. QED
    BY <1>1, SchedulerAssumption

LEMMA WrapOnce ==
    ASSUME NEW x \in Int, 0 - Wrap < x, x < 2 * Wrap
    PROVE  x % Wrap = IF x < 0 THEN x + Wrap ELSE IF x < Wrap THEN x ELSE x - Wrap
  BY Widths, SmallRemainder

\* The distance from one value of the counter to another.
LEMMA Distance ==
    ASSUME NEW now \in Stamp, NEW t \in Stamp
    PROVE  /\ (now - t) % Wrap \in Stamp
           /\ (now - t) % Wrap = IF now < t THEN (now - t) + Wrap ELSE now - t
  <1>1. PICK x : x = now - t
    OBVIOUS
  <1>2. x \in Int /\ 0 - Wrap < x /\ x < Wrap /\ x < 2 * Wrap
    BY <1>1, Widths DEF Stamp
  <1>3. x % Wrap = IF x < 0 THEN x + Wrap ELSE x
    BY <1>2, WrapOnce
  <1>4. QED
    BY <1>1, <1>2, <1>3, Widths DEF Stamp

\* The difference of two counts is the distance from the one to the other.
LEMMA SinceIs ==
    ASSUME NEW t \in Stamp, ticks \in Stamp
    PROVE  /\ Since(t) \in Stamp
           /\ Since(t) = IF ticks < t THEN (ticks - t) + Wrap ELSE ticks - t
  BY Distance DEF Since

LEMMA SinceNow == ticks \in Stamp => Since(ticks) = 0
  BY Widths, SinceIs DEF Stamp

\* A count that starts s ticks ago.
LEMMA SinceBack ==
    ASSUME NEW s \in Stamp, ticks \in Stamp
    PROVE  (ticks - s) % Wrap \in Stamp /\ Since((ticks - s) % Wrap) = s
  <1> DEFINE t == (ticks - s) % Wrap
  <1>1. t = IF ticks < s THEN (ticks - s) + Wrap ELSE ticks - s
    <2>1. t = Since(s)
      BY DEF Since
    <2>2. QED
      BY <2>1, SinceIs
  <1>2. t \in Stamp
    BY <1>1, Widths DEF Stamp
  <1> HIDE DEF t
  <1>3. Since(t) = s
    BY <1>1, <1>2, SinceIs, Widths DEF Stamp
  <1>4. QED
    BY <1>2, <1>3 DEF t

\* A tick makes every count one tick older, until it wraps.
LEMMA SinceTick ==
    ASSUME NEW t \in Stamp, ticks \in Stamp, ticks' = (ticks + 1) % Wrap
    PROVE  /\ ticks' \in Stamp
           /\ Since(t)' = IF Since(t) + 1 = Wrap THEN 0 ELSE Since(t) + 1
  <1>1. ticks' = IF ticks + 1 = Wrap THEN 0 ELSE ticks + 1
    <2>1. PICK x : x = ticks + 1
      OBVIOUS
    <2>2. x \in Int /\ 0 - Wrap < x /\ x <= Wrap /\ x >= 0 /\ x < 2 * Wrap
      BY <2>1, Widths DEF Stamp
    <2>3. x % Wrap = IF x < Wrap THEN x ELSE x - Wrap
      BY <2>2, WrapOnce
    <2>4. ticks' = x % Wrap
      BY <2>1
    <2>5. QED
      BY <2>1, <2>2, <2>3, <2>4, Widths
  <1>2. ticks' \in Stamp
    BY <1>1, Widths DEF Stamp
  <1>3. Since(t)' = IF ticks' < t THEN (ticks' - t) + Wrap ELSE ticks' - t
    BY <1>2, Distance DEF Since
  <1>4. QED
    BY <1>1, <1>2, <1>3, SinceIs, Widths DEF Stamp

-----------------------------------------------------------------------------
(* The list of tasks *)

\* The handles are given out in the order the tasks are appended in.
Sorted(tasks) ==
    \A i, j \in DOMAIN tasks : i < j => tasks[i].s_task_id < tasks[j].s_task_id

LEMMA TypeOfList ==
    ASSUME TypeOK, NEW i \in DOMAIN s_tasks
    PROVE  /\ s_tasks[i] \in TaskNode
           /\ s_tasks[i].s_task_id \in Handles
           /\ s_tasks[i].s_task_id \in Nat \ {0}
  <1>1. s_tasks \in Seq(TaskNode)
    BY DEF TypeOK, TaskNode, Stamp
  <1>2. s_tasks[i] \in TaskNode
    BY <1>1, ElementOfSeq
  <1>3. QED
    BY <1>2, Widths DEF TaskNode, Handles, Ids

\* Looking a task up by its handle finds it.
LEMMA TaskFound ==
    ASSUME TypeOK, NEW h \in Handles
    PROVE  /\ Position(h) \in DOMAIN s_tasks
           /\ Task(h) = s_tasks[Position(h)]
           /\ Task(h) \in TaskNode
           /\ Task(h).s_task_id = h
           /\ h \in Nat \ {0}
  <1>1. \E i \in DOMAIN s_tasks : s_tasks[i].s_task_id = h
    BY DEF Handles
  <1>2. Position(h) \in DOMAIN s_tasks /\ s_tasks[Position(h)].s_task_id = h
    BY <1>1 DEF Position
  <1>3. QED
    BY <1>2, TypeOfList DEF Task

LEMMA OnlyOne ==
    ASSUME TypeOK, Sorted(s_tasks), NEW i \in DOMAIN s_tasks
    PROVE  /\ Position(s_tasks[i].s_task_id) = i
           /\ Task(s_tasks[i].s_task_id) = s_tasks[i]
  <1> DEFINE h == s_tasks[i].s_task_id
             p == Position(h)
  <1>1. h \in Handles
    BY DEF Handles
  <1>2. p \in DOMAIN s_tasks /\ s_tasks[p].s_task_id = h /\ h \in Nat
        /\ Task(h) = s_tasks[p]
    BY <1>1, TaskFound
  <1>3. p \in Nat /\ i \in Nat
    BY <1>2 DEF TypeOK
  <1>4. ~(p < i) /\ ~(i < p)
    BY <1>2 DEF Sorted
  <1>5. QED
    BY <1>2, <1>3, <1>4

\* The node after one in the list, or the end of the list.
LEMMA HandleAfter ==
    ASSUME TypeOK, Sorted(s_tasks), NEW k \in 1 .. Len(s_tasks) + 1
    PROVE  /\ HandleAt(s_tasks, k) \in Handles \cup {NoTask}
           /\ \A i \in DOMAIN s_tasks :
                 i >= k => /\ HandleAt(s_tasks, k) # NoTask
                           /\ s_tasks[i].s_task_id >= HandleAt(s_tasks, k)
  <1>1. s_tasks \in Seq(TaskNode) /\ Len(s_tasks) \in Nat
        /\ DOMAIN s_tasks = 1 .. Len(s_tasks)
    BY DEF TypeOK, TaskNode, Stamp
  <1>2. CASE k <= Len(s_tasks)
    <2>1. k \in DOMAIN s_tasks
      BY <1>1, <1>2
    <2>2. /\ HandleAt(s_tasks, k) = s_tasks[k].s_task_id
          /\ s_tasks[k].s_task_id \in Nat \ {0}
          /\ s_tasks[k].s_task_id \in Handles
      BY <1>2, <2>1, TypeOfList DEF HandleAt
    <2>3. ASSUME NEW i \in DOMAIN s_tasks, i >= k
          PROVE  s_tasks[i].s_task_id >= s_tasks[k].s_task_id
      <3>1. CASE i = k
        BY <2>2, <3>1
      <3>2. CASE k < i
        <4>1. s_tasks[i].s_task_id \in Nat
          BY TypeOfList
        <4>2. s_tasks[k].s_task_id < s_tasks[i].s_task_id
          BY <2>1, <3>2 DEF Sorted
        <4>3. QED
          BY <2>2, <4>1, <4>2
      <3>3. QED
        BY <1>1, <2>3, <3>1, <3>2
    <2>4. QED
      BY <2>2, <2>3 DEF NoTask
  <1>3. CASE ~(k <= Len(s_tasks))
    BY <1>1, <1>3 DEF HandleAt, NoTask
  <1>4. QED
    BY <1>2, <1>3

\* Every element of a sequence with one removed is an element of it, in the
\* same order.
LEMMA Removed ==
    ASSUME NEW S, NEW s \in Seq(S), NEW k \in 1 .. Len(s)
    PROVE  /\ RemoveAt(s, k) \in Seq(S)
           /\ Len(RemoveAt(s, k)) = Len(s) - 1
           /\ \A i \in 1 .. Len(s) - 1 :
                 RemoveAt(s, k)[i] = IF i < k THEN s[i] ELSE s[i + 1]
  <1> DEFINE a == SubSeq(s, 1, k - 1)
             b == SubSeq(s, k + 1, Len(s))
  <1>1. Len(s) \in Nat /\ k \in Nat /\ k >= 1 /\ k <= Len(s)
    OBVIOUS
  <1>2. a \in Seq(S) /\ Len(a) = k - 1 /\ \A i \in 1 .. k - 1 : a[i] = s[i]
    BY <1>1
  <1>3. b \in Seq(S) /\ Len(b) = Len(s) - k
        /\ \A i \in 1 .. Len(s) - k : b[i] = s[k + i]
    BY <1>1
  <1>4. RemoveAt(s, k) = a \o b
    BY DEF RemoveAt
  <1> HIDE DEF a, b
  <1>5. /\ a \o b \in Seq(S)
        /\ Len(a \o b) = Len(s) - 1
        /\ \A i \in 1 .. Len(s) - 1 :
              (a \o b)[i] = IF i < k THEN a[i] ELSE b[i - (k - 1)]
    <2>1. Len(a) + Len(b) = Len(s) - 1
      BY <1>1, <1>2, <1>3
    <2>2. /\ a \o b \in Seq(S)
          /\ Len(a \o b) = Len(a) + Len(b)
          /\ \A i \in 1 .. Len(a) + Len(b) :
                (a \o b)[i] = IF i <= Len(a) THEN a[i] ELSE b[i - Len(a)]
      BY <1>2, <1>3, ConcatProperties
    <2>3. QED
      BY <1>1, <1>2, <2>1, <2>2
  <1>6. ASSUME NEW i \in 1 .. Len(s) - 1
        PROVE  (a \o b)[i] = IF i < k THEN s[i] ELSE s[i + 1]
    <2>1. CASE i < k
      BY <1>1, <1>2, <1>5, <2>1
    <2>2. CASE ~(i < k)
      <3>1. i - (k - 1) \in 1 .. Len(s) - k /\ k + (i - (k - 1)) = i + 1
        BY <1>1, <2>2
      <3>2. b[i - (k - 1)] = s[i + 1]
        BY <1>3, <3>1
      <3>3. QED
        BY <1>5, <2>2, <3>2
    <2>3. QED
      BY <2>1, <2>2
  <1>7. QED
    BY <1>4, <1>5, <1>6

-----------------------------------------------------------------------------
(* The inductive invariant *)

\* The ticks since the pass before ended.
Lag == Since(ticks_snap)

LagInv == Lag <= MaxLag /\ (pc # "main" => Lag >= 1)

ListInv ==
    /\ Sorted(s_tasks)
    /\ \A i \in DOMAIN s_tasks : s_tasks[i].s_task_id <= created
    /\ pc = "main" => cs_task = NoTask /\ waiting = {}
    /\ pc = "run" => cs_task \notin waiting
    /\ waiting \subseteq 1 .. created

\* An active task that this pass need not run any more is younger than its
\* period and the time since the last turn; any other may have been due since
\* the beginning of the pass before, the ticks swallowed since included.
AgeOK(task) ==
    LET h == task.s_task_id
    IN  task.active /\ moves[h] # 2 =>
            /\ h \in waiting => Since(task.n_ticks) >= task.s_ticks
            /\ Since(task.n_ticks) < task.s_ticks + Lag +
                   (IF pc = "main" THEN swallowed + MaxLag
                    ELSE IF h \in waiting THEN MaxSwallowed + MaxLag ELSE 0)

\* The entry of the table the task is waiting for: the first one of its
\* priority, or, if its priority was set in this pass, the last one.
Turn(task) ==
    IF moves[task.s_task_id] = 0
    THEN CASE task.s_priority = "HIGH" -> 0
           [] task.s_priority = "NORMAL" -> 1
           [] task.s_priority = "LOW" -> 3
    ELSE CASE task.s_priority = "HIGH" -> 4
           [] task.s_priority = "NORMAL" -> 5
           [] task.s_priority = "LOW" -> 3

\* The scan has not passed the task yet.
ScanOK(task) ==
    LET h == task.s_task_id
    IN  h \in waiting /\ task.active /\ moves[h] # 2 =>
            \/ index < Turn(task)
            \/ index = Turn(task) /\ cs_task # NoTask /\ h >= cs_task

IInv ==
    /\ TypeOK
    /\ LagInv
    /\ ListInv
    /\ \A i \in DOMAIN s_tasks : AgeOK(s_tasks[i])
    /\ \A i \in DOMAIN s_tasks : ScanOK(s_tasks[i])

LEMMA LagIs == IInv => /\ ticks \in Stamp /\ ticks_snap \in Stamp
                       /\ swallowed \in Nat /\ swallowed <= MaxSwallowed
                       /\ Lag \in Stamp /\ Lag <= MaxLag
                       /\ pc # "main" => Lag >= 1
  BY SinceIs, Widths DEF IInv, TypeOK, LagInv, Lag, Stamp

\* An entry of the table that a task waits for is one of its priority.
LEMMA TurnIs ==
    ASSUME NEW task \in TaskNode
    PROVE  Turn(task) \in 0 .. 5 /\ priority_cycle(Turn(task)) = task.s_priority
  BY DEF TaskNode, Priority, Turn, priority_cycle

LEMMA InitIInv == Init => IInv
  <1> SUFFICES ASSUME Init PROVE IInv
    OBVIOUS
  <1>1. ticks \in Stamp /\ Lag = 0 /\ Since(0) = 0 /\ ticks = 0 /\ 0 \in Stamp
    BY SinceNow, Widths DEF Init, Stamp, Lag
  <1> DEFINE task == NewTask(1, TRUE, "HIGH", 1, 0)
  <1>2. task \in TaskNode /\ task.s_task_id = 1
    BY <1>1, Widths DEF NewTask, TaskNode, Ids, Priority
  <1> HIDE DEF task
  <1>3. s_tasks = <<task>>
    BY DEF Init, task
  <1>4. s_tasks \in Seq(TaskNode) /\ DOMAIN s_tasks = {1} /\ s_tasks[1] = task
    BY <1>2, <1>3
  <1>5. TypeOK
    <2>1. ticks \in Stamp /\ ticks_snap \in Stamp
      BY <1>1 DEF Init
    <2>2. created \in Ids /\ calls \in 0 .. MaxCalls
      BY Widths, SchedulerAssumption DEF Init, Ids
    <2>3. moves \in [Ids -> 0 .. 2] /\ waiting \subseteq Ids /\ swallowed \in 0 .. MaxSwallowed
      BY Widths DEF Init
    <2>4. pc = "main" /\ index = 0 /\ cs_task = NoTask
      BY DEF Init
    <2>5. QED
      BY <1>4, <2>1, <2>2, <2>3, <2>4 DEF TypeOK, TaskNode, Stamp
  <1>6. LagInv
    BY <1>1, Widths DEF Init, LagInv
  <1>7. ListInv
    <2>1. Sorted(s_tasks)
      BY <1>4 DEF Sorted
    <2>2. \A i \in DOMAIN s_tasks : s_tasks[i].s_task_id <= created
      <3>1. created = 1 /\ s_tasks[1].s_task_id = 1
        BY <1>2, <1>4 DEF Init
      <3>2. QED
        BY <1>4, <3>1
    <2>3. QED
      BY <2>1, <2>2 DEF Init, ListInv
  <1>8. AgeOK(task) /\ ScanOK(task)
    <2>1. task.n_ticks = 0 /\ task.s_ticks = 1
      BY DEF task, NewTask
    <2>2. QED
      BY <1>1, <2>1, Widths DEF Init, AgeOK, ScanOK
  <1>9. QED
    BY <1>4, <1>5, <1>6, <1>7, <1>8 DEF IInv

-----------------------------------------------------------------------------
(* The steps of a pass *)

LEMMA TickStep == IInv /\ Tick => IInv'
  <1> SUFFICES ASSUME IInv, Tick PROVE IInv'
    OBVIOUS
  <1>1. /\ ticks \in Stamp /\ ticks_snap \in Stamp /\ Lag \in Stamp
        /\ ticks' \in Stamp /\ ticks' = (ticks + 1) % Wrap /\ Lag < MaxLag /\ Lag' = Lag + 1
        /\ pc # "main" => Lag >= 1
        /\ swallowed \in Nat /\ swallowed <= MaxSwallowed
    <2>1. /\ ticks \in Stamp /\ ticks_snap \in Stamp /\ Lag \in Stamp /\ Lag < MaxLag
          /\ swallowed \in Nat /\ swallowed <= MaxSwallowed
          /\ pc # "main" => Lag >= 1
      BY LagIs DEF Tick, Lag
    <2>2. PICK t \in Stamp : t = ticks_snap
      BY <2>1
    <2>3. ticks' = (ticks + 1) % Wrap /\ ticks_snap' = t
      BY <2>2 DEF Tick
    <2>4. ticks' \in Stamp /\ Since(t)' = IF Since(t) + 1 = Wrap THEN 0 ELSE Since(t) + 1
      BY <2>1, <2>3, SinceTick
    <2>5. Lag = Since(t) /\ Lag' = Since(t)'
      BY <2>2, <2>3 DEF Lag, Since
    <2>6. Lag + 1 < Wrap
      BY <2>1, Widths DEF Stamp
    <2>7. QED
      BY <2>1, <2>3, <2>4, <2>5, <2>6
  <1>2. UNCHANGED <<ticks_snap, s_tasks, pc, index, cs_task, beyond, created, calls,
                    waiting, swallowed, moves>>
    BY DEF Tick, history
  <1>3. TypeOK'
    BY <1>1, <1>2 DEF IInv, TypeOK, Handles, Stamp
  <1>4. LagInv'
    BY <1>1, <1>2, Widths DEF LagInv, Stamp
  <1>5. ListInv'
    BY <1>2 DEF IInv, ListInv, Sorted
  <1>6. ASSUME NEW i \in DOMAIN s_tasks
        PROVE  AgeOK(s_tasks[i])'
    <2> DEFINE n == s_tasks[i].n_ticks
               s == s_tasks[i].s_ticks
    <2>1. n \in Stamp /\ s \in Nat \ {0} /\ s + 2 * MaxLag + MaxSwallowed <= Wrap
      BY TypeOfList, Widths DEF IInv, TaskNode
    <2>2. Since(n) \in Stamp
      BY <1>1, <2>1, SinceIs
    <2>3. Since(n)' = IF Since(n) + 1 = Wrap THEN 0 ELSE Since(n) + 1
      <3>1. PICK t \in Stamp : t = n
        BY <2>1
      <3>2. Since(t)' = IF Since(t) + 1 = Wrap THEN 0 ELSE Since(t) + 1
        BY <1>1, SinceTick
      <3>3. Since(n)' = Since(t)'
        BY <1>2, <3>1 DEF Since
      <3>4. QED
        BY <3>1, <3>2, <3>3
    <2>4. AgeOK(s_tasks[i])
      BY DEF IInv
    <2>5. s_tasks[i].active /\ moves[s_tasks[i].s_task_id] # 2 => Since(n)' = Since(n) + 1
      BY <1>1, <2>1, <2>2, <2>3, <2>4, Widths DEF AgeOK, Stamp
    <2>6. QED
      BY <1>1, <1>2, <2>1, <2>2, <2>4, <2>5, Widths DEF AgeOK, Stamp
  <1>7. ASSUME NEW i \in DOMAIN s_tasks
        PROVE  ScanOK(s_tasks[i])'
    <2>1. ScanOK(s_tasks[i])
      BY DEF IInv
    <2>2. QED
      BY <1>2, <2>1 DEF ScanOK, Turn
  <1>8. QED
    BY <1>2, <1>3, <1>4, <1>5, <1>6, <1>7 DEF IInv

\* A swallowed tick is counted among the ticks of the time between the passes.
LEMMA SwallowStep == IInv /\ TurnWithoutTick => IInv'
  <1> SUFFICES ASSUME IInv, TurnWithoutTick PROVE IInv'
    OBVIOUS
  <1>1. /\ UNCHANGED <<s_tasks, pc, index, cs_task, beyond, created, calls, waiting, moves>>
        /\ pc = "main" /\ Lag = 0 /\ ticks' = (ticks + 1) % Wrap /\ ticks_snap' = ticks'
        /\ swallowed < MaxSwallowed /\ swallowed' = swallowed + 1
    BY DEF TurnWithoutTick, Lag
  <1>2. /\ ticks \in Stamp /\ ticks' \in Stamp /\ TypeOK
        /\ swallowed \in Nat /\ swallowed' \in 0 .. MaxSwallowed
    BY <1>1, LagIs, SinceTick, Widths DEF IInv
  <1>3. Lag' = 0
    <2>1. PICK t \in Stamp : t = ticks'
      BY <1>2
    <2>2. Lag' = (t - t) % Wrap
      BY <1>1, <2>1 DEF Lag, Since
    <2>3. (t - t) % Wrap = 0
      BY Distance DEF Stamp
    <2>4. QED
      BY <2>2, <2>3
  <1>4. TypeOK'
    BY <1>1, <1>2 DEF TypeOK, Handles, Stamp
  <1>5. LagInv' /\ ListInv'
    BY <1>1, <1>3, Widths DEF IInv, LagInv, ListInv, Sorted
  <1>6. ASSUME NEW i \in DOMAIN s_tasks
        PROVE  AgeOK(s_tasks[i])' /\ ScanOK(s_tasks[i])'
    <2> DEFINE task == s_tasks[i]
    <2>1. /\ task \in TaskNode /\ AgeOK(task)
          /\ task.s_ticks \in Nat \ {0} /\ task.s_ticks + 2 * MaxLag + MaxSwallowed <= Wrap
      BY <1>2, TypeOfList, Widths DEF IInv, TaskNode
    <2>2. PICK t \in Stamp : t = task.n_ticks
      BY <2>1 DEF TaskNode
    <2>3. Since(t) \in Nat /\ Since(t)' = IF Since(t) + 1 = Wrap THEN 0 ELSE Since(t) + 1
      BY <1>1, <1>2, SinceIs, SinceTick DEF Stamp
    <2>4. Since(task.n_ticks) = Since(t) /\ Since(task.n_ticks)' = Since(t)'
      BY <1>1, <2>2 DEF Since
    <2>5. AgeOK(task)'
      BY <1>1, <1>2, <1>3, <2>1, <2>3, <2>4, Widths DEF AgeOK, IInv, ListInv
    <2>6. ScanOK(task)'
      BY <1>1 DEF IInv, ListInv, ScanOK
    <2>7. QED
      BY <2>5, <2>6
  <1>7. QED
    BY <1>1, <1>4, <1>5, <1>6 DEF IInv

\* Steps that change neither the list nor the counters.
LEMMA SameTasks ==
    ASSUME IInv, UNCHANGED <<ticks, ticks_snap, s_tasks, beyond, created, calls, moves>>
    PROVE  /\ Lag' = Lag /\ Handles' = Handles
           /\ \A i \in DOMAIN s_tasks :
                 /\ s_tasks[i] \in TaskNode
                 /\ Turn(s_tasks[i])' = Turn(s_tasks[i])
                 /\ Since(s_tasks[i].n_ticks)' = Since(s_tasks[i].n_ticks)
  BY TypeOfList DEF IInv, Lag, Since, Handles, Turn

LEMMA BeginStep == IInv /\ BeginPass => IInv'
  <1> SUFFICES ASSUME IInv, BeginPass PROVE IInv'
    OBVIOUS
  <1>1. UNCHANGED <<ticks, ticks_snap, s_tasks, beyond, created, calls, moves>>
    BY DEF BeginPass
  <1>2. /\ pc = "main" /\ pc' = "scan" /\ index' = 0 /\ Lag # 0
        /\ cs_task' = HandleAt(s_tasks, 1)
        /\ waiting' = {h \in Handles : IsDue(Task(h))}
        /\ swallowed' = 0
    BY DEF BeginPass, Lag
  <1>3. Lag' = Lag /\ Lag \in Nat /\ Lag <= MaxLag /\ Lag >= 1 /\ ticks \in Stamp
        /\ swallowed \in Nat /\ swallowed <= MaxSwallowed
    BY <1>1, <1>2, LagIs, SameTasks DEF Stamp
  <1>4. Sorted(s_tasks) /\ TypeOK /\ s_tasks \in Seq(TaskNode)
    BY DEF IInv, ListInv, TypeOK, TaskNode, Stamp
  <1>5. 1 \in 1 .. Len(s_tasks) + 1 /\ DOMAIN s_tasks = 1 .. Len(s_tasks)
    BY <1>4
  <1>6. /\ cs_task' \in Handles \cup {NoTask}
        /\ \A i \in DOMAIN s_tasks : cs_task' # NoTask /\ s_tasks[i].s_task_id >= cs_task'
    BY <1>2, <1>4, <1>5, HandleAfter
  <1>7. \A h \in Handles : h \in Ids /\ h \in 1 .. created
    BY <1>4, TypeOfList DEF IInv, ListInv, Handles, TaskNode, TypeOK, Ids
  <1>8. TypeOK'
    BY <1>1, <1>2, <1>4, <1>6, <1>7, SameTasks, Widths DEF TypeOK
  <1>9. LagInv' /\ ListInv'
    BY <1>1, <1>2, <1>3, <1>7 DEF IInv, LagInv, ListInv, Sorted
  <1>10. ASSUME NEW i \in DOMAIN s_tasks
         PROVE  AgeOK(s_tasks[i])' /\ ScanOK(s_tasks[i])'
    <2> DEFINE task == s_tasks[i]
               h == task.s_task_id
    <2>1. /\ task \in TaskNode /\ h \in Handles /\ Task(h) = task
          /\ Turn(task)' = Turn(task)
          /\ Since(task.n_ticks)' = Since(task.n_ticks)
      BY <1>1, <1>4, TypeOfList, OnlyOne, SameTasks
    <2>2. Turn(task) \in 0 .. 5
      BY <2>1, TurnIs
    <2>3. h \in waiting' <=> task.active /\ Since(task.n_ticks) >= task.s_ticks
      BY <1>2, <2>1 DEF IsDue
    <2>4. AgeOK(task) /\ h \notin waiting
      BY <1>2 DEF IInv, ListInv
    <2>5. Since(task.n_ticks) \in Nat /\ task.s_ticks \in Nat
      BY <1>3, <2>1, SinceIs, Widths DEF TaskNode, Stamp
    <2>6. AgeOK(task)'
      BY <1>1, <1>2, <1>3, <2>1, <2>3, <2>4, <2>5, Widths DEF AgeOK
    <2>7. ScanOK(task)'
      BY <1>1, <1>2, <1>6, <2>1, <2>2 DEF ScanOK
    <2>8. QED
      BY <2>6, <2>7
  <1>11. QED
    BY <1>1, <1>8, <1>9, <1>10 DEF IInv

\* The scan goes on to the next node, past a task that does not match or is not
\* waiting.
LEMMA AdvanceStep ==
    ASSUME IInv, pc' = "scan", pc # "main", cs_task # NoTask,
           cs_task' = HandleAt(s_tasks, Position(cs_task) + 1),
           UNCHANGED <<ticks, ticks_snap, s_tasks, index, beyond, created, calls,
                       waiting, swallowed, moves>>,
           cs_task \in waiting /\ Task(cs_task).active /\ moves[cs_task] # 2 =>
               index # Turn(Task(cs_task))
    PROVE  IInv'
  <1> DEFINE k == Position(cs_task)
  <1>1. Sorted(s_tasks) /\ TypeOK /\ s_tasks \in Seq(TaskNode)
    BY DEF IInv, ListInv, TypeOK, TaskNode, Stamp
  <1>2. cs_task \in Handles
    BY <1>1 DEF TypeOK
  <1>3. k \in DOMAIN s_tasks /\ s_tasks[k].s_task_id = cs_task /\ Task(cs_task) = s_tasks[k]
    BY <1>1, <1>2, TaskFound
  <1>4. DOMAIN s_tasks = 1 .. Len(s_tasks) /\ k \in Nat /\ k + 1 \in 1 .. Len(s_tasks) + 1
    BY <1>1, <1>3
  <1>5. /\ cs_task' \in Handles \cup {NoTask}
        /\ \A i \in DOMAIN s_tasks :
              i >= k + 1 => cs_task' # NoTask /\ s_tasks[i].s_task_id >= cs_task'
    BY <1>1, <1>4, HandleAfter
  <1>6. Handles' = Handles /\ Lag' = Lag
    BY SameTasks
  <1>7. TypeOK'
    BY <1>1, <1>5, <1>6 DEF TypeOK
  <1>8. LagInv' /\ ListInv'
    BY <1>6 DEF IInv, LagInv, ListInv, Sorted
  <1>9. ASSUME NEW i \in DOMAIN s_tasks
        PROVE  AgeOK(s_tasks[i])' /\ ScanOK(s_tasks[i])'
    <2> DEFINE task == s_tasks[i]
               h == task.s_task_id
    <2>1. /\ task \in TaskNode /\ h \in Nat /\ AgeOK(task) /\ ScanOK(task)
          /\ Turn(task)' = Turn(task)
          /\ Since(task.n_ticks)' = Since(task.n_ticks)
      BY <1>1, TypeOfList, SameTasks DEF IInv
    <2>2. AgeOK(task)'
      BY <1>6, <2>1 DEF AgeOK
    <2>3. h >= cs_task => i >= k
      <3>1. i < k => h < cs_task
        BY <1>1, <1>3 DEF Sorted
      <3>2. h \in Nat /\ cs_task \in Nat /\ i \in Nat
        BY <1>1, <1>2, <1>4, <2>1, TaskFound
      <3>3. QED
        BY <1>4, <3>1, <3>2
    <2>4. i = k => h = cs_task /\ task = Task(cs_task)
      BY <1>3
    <2>5. i >= k /\ i # k => i >= k + 1
      BY <1>4
    <2>6. ScanOK(task)'
      BY <1>5, <2>1, <2>3, <2>4, <2>5 DEF ScanOK
    <2>7. QED
      BY <2>2, <2>6
  <1>10. QED
    BY <1>7, <1>8, <1>9 DEF IInv

\* A task that is waiting is due, and so not skipped when its turn has come.
LEMMA SkipStep == IInv /\ Skip => IInv'
  <1> SUFFICES ASSUME IInv, Skip PROVE IInv'
    OBVIOUS
  <1>1. Sorted(s_tasks) /\ TypeOK /\ cs_task \in Handles
    BY DEF IInv, ListInv, TypeOK, Skip
  <1>2. PICK i \in DOMAIN s_tasks : s_tasks[i] = Task(cs_task) /\ s_tasks[i].s_task_id = cs_task
    BY <1>1, TaskFound
  <1>3. AgeOK(Task(cs_task)) /\ Task(cs_task) \in TaskNode
    BY <1>1, <1>2, TypeOfList DEF IInv
  <1>4. ~Matches
    BY DEF Skip
  <1>5. cs_task \in waiting /\ Task(cs_task).active /\ moves[cs_task] # 2 =>
            index # Turn(Task(cs_task))
    BY <1>2, <1>3, <1>4, TurnIs DEF AgeOK, Matches, IsDue
  <1>6. QED
    BY <1>5, AdvanceStep DEF Skip, history

LEMMA ReturnStep == IInv /\ TaskReturns => IInv'
  BY AdvanceStep DEF TaskReturns, history, IInv, ListInv, TypeOK

LEMMA NextPriorityStep == IInv /\ NextPriority => IInv'
  <1> SUFFICES ASSUME IInv, NextPriority PROVE IInv'
    OBVIOUS
  <1>1. /\ UNCHANGED <<ticks, ticks_snap, s_tasks, pc, beyond, created, calls,
                     waiting, swallowed, moves>>
        /\ pc = "scan" /\ cs_task = NoTask /\ index < 6 /\ index' = index + 1
        /\ cs_task' = HandleAt(s_tasks, 1)
    BY DEF NextPriority, history
  <1>2. Sorted(s_tasks) /\ TypeOK /\ s_tasks \in Seq(TaskNode) /\ index \in 0 .. 6
    BY DEF IInv, ListInv, TypeOK, TaskNode, Stamp
  <1>3. 1 \in 1 .. Len(s_tasks) + 1 /\ DOMAIN s_tasks = 1 .. Len(s_tasks)
    BY <1>2
  <1>4. /\ cs_task' \in Handles \cup {NoTask}
        /\ \A i \in DOMAIN s_tasks : cs_task' # NoTask /\ s_tasks[i].s_task_id >= cs_task'
    BY <1>1, <1>2, <1>3, HandleAfter
  <1>5. Handles' = Handles /\ Lag' = Lag
    BY <1>1, SameTasks
  <1>6. TypeOK'
    BY <1>1, <1>2, <1>4, <1>5 DEF TypeOK
  <1>7. LagInv' /\ ListInv'
    BY <1>1, <1>5 DEF IInv, LagInv, ListInv, Sorted
  <1>8. ASSUME NEW i \in DOMAIN s_tasks
        PROVE  AgeOK(s_tasks[i])' /\ ScanOK(s_tasks[i])'
    <2> DEFINE task == s_tasks[i]
    <2>1. /\ task \in TaskNode /\ AgeOK(task) /\ ScanOK(task)
          /\ Turn(task)' = Turn(task) /\ Turn(task) \in 0 .. 5
          /\ Since(task.n_ticks)' = Since(task.n_ticks)
      BY <1>1, <1>2, TypeOfList, SameTasks, TurnIs DEF IInv
    <2>2. AgeOK(task)'
      BY <1>1, <1>5, <2>1 DEF AgeOK
    <2>3. ScanOK(task)'
      BY <1>1, <1>2, <1>4, <2>1 DEF ScanOK
    <2>4. QED
      BY <2>2, <2>3
  <1>9. QED
    BY <1>1, <1>6, <1>7, <1>8 DEF IInv

\* At the end of the table nobody is left to wait.
LEMMA NobodyLeft ==
    ASSUME IInv, EndPass, NEW i \in DOMAIN s_tasks,
           s_tasks[i].s_task_id \in waiting, s_tasks[i].active
    PROVE  moves[s_tasks[i].s_task_id] = 2
  <1>1. ScanOK(s_tasks[i]) /\ s_tasks[i] \in TaskNode
    BY TypeOfList DEF IInv
  <1>2. Turn(s_tasks[i]) \in 0 .. 5
    BY <1>1, TurnIs
  <1>3. QED
    BY <1>1, <1>2 DEF ScanOK, EndPass

LEMMA EndStep == IInv /\ EndPass => IInv'
  <1> SUFFICES ASSUME IInv, EndPass PROVE IInv'
    OBVIOUS
  <1>1. /\ UNCHANGED <<ticks, s_tasks, index, cs_task, beyond, created, calls, swallowed>>
        /\ pc = "scan" /\ pc' = "main" /\ cs_task = NoTask /\ waiting' = {}
        /\ ticks_snap' = ticks
        /\ moves' = [h \in Ids |-> IF moves[h] = 2 THEN 2 ELSE 0]
    BY DEF EndPass
  <1>2. TypeOK /\ ticks \in Stamp /\ Lag \in Nat /\ Lag <= MaxLag /\ swallowed \in Nat
    BY LagIs DEF IInv, Stamp
  <1>3. Lag' = 0
    <2>1. Lag' = Since(ticks)
      BY <1>1 DEF Lag, Since
    <2>2. QED
      BY <1>2, <2>1, SinceNow
  <1>4. moves' \in [Ids -> 0 .. 2] /\ Handles' = Handles
    BY <1>1 DEF Handles
  <1>5. TypeOK'
    BY <1>1, <1>2, <1>4 DEF TypeOK
  <1>6. LagInv' /\ ListInv'
    BY <1>1, <1>3, Widths DEF IInv, LagInv, ListInv, Sorted
  <1>7. ASSUME NEW i \in DOMAIN s_tasks
        PROVE  AgeOK(s_tasks[i])' /\ ScanOK(s_tasks[i])'
    <2> DEFINE task == s_tasks[i]
               h == task.s_task_id
    <2>1. task \in TaskNode /\ AgeOK(task) /\ h \in Ids
      BY <1>2, TypeOfList DEF IInv, TaskNode
    <2>2. Since(task.n_ticks) \in Nat /\ task.s_ticks \in Nat
          /\ Since(task.n_ticks)' = Since(task.n_ticks)
      BY <1>1, <1>2, <2>1, SinceIs, Widths DEF TaskNode, Stamp, Since
    <2>3. task.active /\ moves[h] # 2 => h \notin waiting
      BY NobodyLeft
    <2>4. moves'[h] # 2 => moves[h] # 2
      BY <1>1, <2>1
    <2>5. AgeOK(task)'
      BY <1>1, <1>2, <1>3, <2>1, <2>2, <2>3, <2>4, Widths DEF AgeOK
    <2>6. ScanOK(task)'
      BY <1>1 DEF ScanOK
    <2>7. QED
      BY <2>5, <2>6
  <1>8. QED
    BY <1>1, <1>5, <1>6, <1>7 DEF IInv

-----------------------------------------------------------------------------
(* Steps that change a node of the list *)

\* One node is replaced; the others wait for their turn as before.
LEMMA ReplaceStep ==
    ASSUME IInv, NEW h \in Handles, NEW t \in TaskNode, t.s_task_id = h,
           s_tasks' = [s_tasks EXCEPT ![Position(h)] = t],
           UNCHANGED <<ticks, ticks_snap, index, cs_task, beyond, created, swallowed>>,
           pc' \in {"main", "scan", "run"}, pc = "main" <=> pc' = "main",
           pc' = "run" => cs_task # NoTask /\ cs_task \notin waiting',
           calls' \in 0 .. MaxCalls,
           waiting' \subseteq waiting,
           moves' \in [Ids -> 0 .. 2],
           \A g \in Ids : g # h => (g \in waiting <=> g \in waiting') /\ moves'[g] = moves[g],
           AgeOK(t)', ScanOK(t)'
    PROVE  IInv'
  <1> DEFINE k == Position(h)
  <1>1. TypeOK /\ Sorted(s_tasks) /\ s_tasks \in Seq(TaskNode)
    BY DEF IInv, ListInv, TypeOK, TaskNode, Stamp
  <1>2. k \in DOMAIN s_tasks /\ s_tasks[k].s_task_id = h
    BY <1>1, TaskFound
  <1> HIDE DEF k
  <1>3. s_tasks' = [s_tasks EXCEPT ![k] = t]
    BY DEF k
  <1>4. /\ s_tasks' \in Seq(TaskNode) /\ DOMAIN s_tasks' = DOMAIN s_tasks
        /\ s_tasks'[k] = t
        /\ \A i \in DOMAIN s_tasks : i # k => s_tasks'[i] = s_tasks[i]
    <2>1. k \in 1 .. Len(s_tasks) /\ DOMAIN s_tasks = 1 .. Len(s_tasks)
      BY <1>1, <1>2
    <2>2. /\ [s_tasks EXCEPT ![k] = t] \in Seq(TaskNode)
          /\ Len([s_tasks EXCEPT ![k] = t]) = Len(s_tasks)
          /\ \A j \in 1 .. Len(s_tasks) :
                [s_tasks EXCEPT ![k] = t][j] = IF j = k THEN t ELSE s_tasks[j]
      BY <1>1, <2>1
    <2>3. QED
      BY <1>3, <2>1, <2>2
  <1>5. \A i \in DOMAIN s_tasks : s_tasks'[i].s_task_id = s_tasks[i].s_task_id
    BY <1>2, <1>4
  <1>6. Handles' = Handles
    BY <1>4, <1>5 DEF Handles
  <1>7. TypeOK'
    <2>1. s_tasks' \in Seq(TaskNode)'
      BY <1>4 DEF TaskNode, Stamp, Ids, Priority
    <2>2. QED
      BY <1>1, <1>6, <2>1 DEF TypeOK, TaskNode, Stamp
  <1>8. Lag' = Lag
    BY DEF Lag, Since
  <1>9. LagInv'
    BY <1>8 DEF IInv, LagInv
  <1>10. ListInv'
    BY <1>4, <1>5 DEF IInv, ListInv, Sorted
  <1>11. ASSUME NEW i \in DOMAIN s_tasks
         PROVE  AgeOK(s_tasks[i])' /\ ScanOK(s_tasks[i])'
    <2>1. CASE i = k
      BY <1>4, <2>1 DEF AgeOK, ScanOK, Turn, Since
    <2>2. CASE i # k
      <3>1. PICK u \in TaskNode : u = s_tasks[i] /\ u = s_tasks'[i] /\ u.s_task_id # h
        <4>1. s_tasks[i].s_task_id # h
          BY <1>1, <1>2, <2>2, OnlyOne
        <4>2. QED
          BY <1>1, <1>4, <2>2, <4>1, TypeOfList
      <3>2. AgeOK(u) /\ ScanOK(u)
        BY <3>1 DEF IInv
      <3>3. u.s_task_id \in Ids
        BY DEF TaskNode
      <3>4. AgeOK(u)' /\ ScanOK(u)'
        BY <1>8, <3>1, <3>2, <3>3 DEF AgeOK, ScanOK, Turn, Since
      <3>5. QED
        BY <3>1, <3>4 DEF AgeOK, ScanOK, Turn, Since
    <2>3. QED
      BY <2>1, <2>2
  <1>12. QED
    BY <1>4, <1>7, <1>9, <1>10, <1>11 DEF IInv

\* A task with a new start is as young as it need be and waits for nothing.
LEMMA StartedAnew ==
    ASSUME IInv, NEW t \in TaskNode, UNCHANGED <<ticks, ticks_snap, swallowed>>,
           pc = "main" <=> pc' = "main",
           Since(t.n_ticks) \in {0, t.s_ticks},
           t.s_task_id \notin waiting'
    PROVE  AgeOK(t)' /\ ScanOK(t)'
  <1>1. Lag' = Lag /\ Lag \in Nat /\ (pc # "main" => Lag >= 1) /\ swallowed \in Nat
    BY LagIs DEF Lag, Since, Stamp
  <1>2. t.s_ticks \in Nat \ {0} /\ Since(t.n_ticks)' = Since(t.n_ticks)
    BY Widths DEF TaskNode, Since
  <1>3. Since(t.n_ticks) \in Nat /\ Since(t.n_ticks) <= t.s_ticks
    BY <1>2
  <1>4. AgeOK(t)'
    BY <1>1, <1>2, <1>3, Widths DEF AgeOK
  <1>5. QED
    BY <1>4 DEF ScanOK

\* Running a task takes it off the list of those that wait.
LEMMA RunStep == IInv /\ RunTask => IInv'
  <1> SUFFICES ASSUME IInv, RunTask PROVE IInv'
    OBVIOUS
  <1> DEFINE k == Position(cs_task)
  <1>1. /\ UNCHANGED <<ticks, ticks_snap, index, cs_task, beyond, created, calls, swallowed>>
        /\ pc = "scan" /\ pc' = "run" /\ cs_task # NoTask
        /\ waiting' = waiting \ {cs_task}
        /\ moves' = [moves EXCEPT ![cs_task] = 0]
        /\ s_tasks' = [s_tasks EXCEPT ![k].n_ticks = ticks]
    BY DEF RunTask, NewStart
  <1>2. /\ TypeOK /\ Sorted(s_tasks) /\ s_tasks \in Seq(TaskNode)
        /\ ticks \in Stamp /\ Lag \in Nat /\ Lag <= MaxLag /\ Lag >= 1
    BY <1>1, LagIs DEF IInv, ListInv, TypeOK, TaskNode, Stamp
  <1>3. cs_task \in Handles /\ k \in DOMAIN s_tasks /\ s_tasks[k].s_task_id = cs_task
        /\ cs_task \in Ids
    BY <1>1, <1>2, TaskFound, TypeOfList DEF TypeOK, TaskNode
  <1>4. PICK t : t = [s_tasks[k] EXCEPT !.n_ticks = ticks]
    OBVIOUS
  <1>5. s_tasks[k] \in TaskNode
    BY <1>2, <1>3, TypeOfList
  <1>6. t \in TaskNode /\ t.s_task_id = cs_task /\ t.n_ticks = ticks
    BY <1>2, <1>3, <1>4, <1>5 DEF TaskNode
  <1>7. s_tasks' = [s_tasks EXCEPT ![k] = t]
    BY <1>1, <1>4
  <1>8. Since(t.n_ticks) = 0
    BY <1>2, <1>6, SinceNow
  <1>9. AgeOK(t)' /\ ScanOK(t)'
    BY <1>1, <1>6, <1>8, StartedAnew
  <1>10. moves' \in [Ids -> 0 .. 2]
    BY <1>1, <1>2, <1>3 DEF TypeOK
  <1>11. \A g \in Ids : g # cs_task => (g \in waiting <=> g \in waiting') /\ moves'[g] = moves[g]
    BY <1>1, <1>2 DEF TypeOK
  <1>12. calls' \in 0 .. MaxCalls /\ waiting' \subseteq waiting /\ cs_task \notin waiting'
    BY <1>1, <1>2 DEF TypeOK
  <1>13. QED
    BY <1>1, <1>3, <1>6, <1>7, <1>9, <1>10, <1>11, <1>12, ReplaceStep

\* s_task_resume and s_task_set_periodic_ticks: a new start.
LEMMA NewStartStep ==
    ASSUME IInv, NEW h, Call(h), NEW t \in TaskNode, t.s_task_id = h, Update(h, t),
           NewStart(h), Since(t.n_ticks) \in {0, t.s_ticks}
    PROVE  IInv'
  <1>1. /\ UNCHANGED <<ticks, ticks_snap, pc, index, cs_task, beyond, created, swallowed>>
        /\ h \in Handles /\ calls < MaxCalls /\ calls' = calls + 1
        /\ waiting' = waiting \ {h} /\ moves' = [moves EXCEPT ![h] = 0]
        /\ s_tasks' = [s_tasks EXCEPT ![Position(h)] = t]
        /\ pc \in {"main", "run"}
    BY DEF Call, Calls, Update, NewStart
  <1>2. TypeOK /\ ListInv /\ h \in Ids
    BY <1>1, TaskFound DEF IInv, TaskNode
  <1>3. AgeOK(t)' /\ ScanOK(t)'
    BY <1>1, StartedAnew
  <1>4. calls' \in 0 .. MaxCalls
    BY <1>1, <1>2, SchedulerAssumption DEF TypeOK
  <1>5. moves' \in [Ids -> 0 .. 2]
    BY <1>1, <1>2 DEF TypeOK
  <1>6. \A g \in Ids : g # h => (g \in waiting <=> g \in waiting') /\ moves'[g] = moves[g]
    BY <1>1, <1>2 DEF TypeOK
  <1>7. pc' = "run" => cs_task # NoTask /\ cs_task \notin waiting'
    BY <1>1, <1>2 DEF TypeOK, ListInv
  <1>8. QED
    BY <1>1, <1>3, <1>4, <1>5, <1>6, <1>7, ReplaceStep

LEMMA ResumeStep ==
    ASSUME IInv, NEW h \in Handles, s_task_resume(h)
    PROVE  IInv'
  <1>1. Task(h) \in TaskNode /\ Task(h).s_task_id = h /\ ticks \in Stamp
    BY TaskFound, LagIs DEF IInv
  <1>2. Task(h).s_ticks \in Stamp
    BY <1>1, Widths DEF TaskNode, Stamp
  <1>3. PICK n \in Stamp : n = (ticks - Task(h).s_ticks) % Wrap
    BY <1>1, <1>2, SinceBack
  <1>4. Since(n) = Task(h).s_ticks
    BY <1>1, <1>2, <1>3, SinceBack
  <1>5. PICK t : t = [Task(h) EXCEPT !.active = TRUE, !.n_ticks = n]
    OBVIOUS
  <1>6. t \in TaskNode /\ t.s_task_id = h /\ t.n_ticks = n /\ t.s_ticks = Task(h).s_ticks
    BY <1>1, <1>5 DEF TaskNode
  <1>7. Call(h) /\ Update(h, t) /\ NewStart(h)
    BY <1>3, <1>5 DEF s_task_resume
  <1>8. QED
    BY <1>4, <1>6, <1>7, NewStartStep

LEMMA SetPeriodStep ==
    ASSUME IInv, NEW h \in Handles, NEW period \in Periods, NEW run \in BOOLEAN,
           s_task_set_periodic_ticks(h, period, run)
    PROVE  IInv'
  <1>1. Task(h) \in TaskNode /\ Task(h).s_task_id = h /\ ticks \in Stamp
    BY TaskFound, LagIs DEF IInv
  <1>2. period \in Stamp
    BY Widths DEF Stamp
  <1>3. PICK n \in Stamp : n = IF run THEN (ticks - period) % Wrap ELSE ticks
    BY <1>1, <1>2, SinceBack
  <1>4. Since(n) \in {0, period}
    BY <1>1, <1>2, <1>3, SinceBack, SinceNow
  <1>5. PICK t : t = [Task(h) EXCEPT !.s_ticks = period, !.n_ticks = n]
    OBVIOUS
  <1>6. t \in TaskNode /\ t.s_task_id = h /\ t.n_ticks = n /\ t.s_ticks = period
    BY <1>1, <1>5 DEF TaskNode
  <1>7. Call(h) /\ Update(h, t) /\ NewStart(h)
    BY <1>3, <1>5 DEF s_task_set_periodic_ticks
  <1>8. QED
    BY <1>4, <1>6, <1>7, NewStartStep

LEMMA SuspendStep ==
    ASSUME IInv, NEW h \in Handles, s_task_suspend(h)
    PROVE  IInv'
  <1>1. /\ UNCHANGED <<ticks, ticks_snap, pc, index, cs_task, beyond, created, waiting,
                     swallowed, moves>>
        /\ calls < MaxCalls /\ calls' = calls + 1 /\ pc \in {"main", "run"}
    BY DEF s_task_suspend, Call, Calls, history
  <1>2. Task(h) \in TaskNode /\ Task(h).s_task_id = h /\ TypeOK /\ ListInv
    BY TaskFound DEF IInv
  <1>3. PICK t : t = [Task(h) EXCEPT !.active = FALSE]
    OBVIOUS
  <1>4. t \in TaskNode /\ t.s_task_id = h /\ t.active = FALSE
    BY <1>2, <1>3 DEF TaskNode
  <1>5. s_tasks' = [s_tasks EXCEPT ![Position(h)] = t]
    BY <1>3 DEF s_task_suspend, Update
  <1>6. AgeOK(t)' /\ ScanOK(t)'
    BY <1>4 DEF AgeOK, ScanOK
  <1>7. calls' \in 0 .. MaxCalls
    BY <1>1, <1>2, SchedulerAssumption DEF TypeOK
  <1>8. pc' = "run" => cs_task # NoTask /\ cs_task \notin waiting'
    BY <1>1, <1>2 DEF TypeOK, ListInv
  <1>9. moves' \in [Ids -> 0 .. 2]
    BY <1>1, <1>2 DEF TypeOK
  <1>10. QED
    BY <1>1, <1>4, <1>5, <1>6, <1>7, <1>8, <1>9, ReplaceStep

\* Whatever the priority was and whatever it becomes, the last entry of the new
\* one comes after the first entry of the old one.
LEMMA SetPriorityStep ==
    ASSUME IInv, NEW h \in Handles, NEW priority \in Priority,
           s_task_set_priority(h, priority)
    PROVE  IInv'
  <1>1. /\ UNCHANGED <<ticks, ticks_snap, pc, index, cs_task, beyond, created, waiting, swallowed>>
        /\ calls < MaxCalls /\ calls' = calls + 1 /\ pc \in {"main", "run"}
        /\ moves' = [moves EXCEPT ![h] = IF moves[h] = 2 \/ pc = "main" THEN moves[h]
                                         ELSE moves[h] + 1]
    BY DEF s_task_set_priority, Call, Calls
  <1>2. Task(h) \in TaskNode /\ Task(h).s_task_id = h /\ TypeOK /\ ListInv /\ h \in Ids
        /\ AgeOK(Task(h)) /\ ScanOK(Task(h))
    BY TaskFound DEF IInv, TaskNode
  <1>3. PICK u \in TaskNode : u = Task(h)
    BY <1>2
  <1>4. PICK t : t = [u EXCEPT !.s_priority = priority]
    OBVIOUS
  <1>5. /\ t \in TaskNode /\ t.s_task_id = h /\ t.s_priority = priority
        /\ t.active = u.active /\ t.n_ticks = u.n_ticks /\ t.s_ticks = u.s_ticks
    BY <1>2, <1>3, <1>4 DEF TaskNode
  <1>6. s_tasks' = [s_tasks EXCEPT ![Position(h)] = t]
    BY <1>3, <1>4 DEF s_task_set_priority, Update
  <1>7. moves \in [Ids -> 0 .. 2]
    BY <1>2 DEF TypeOK
  <1>8. /\ moves' \in [Ids -> 0 .. 2]
        /\ \A g \in Ids : g # h => moves'[g] = moves[g]
        /\ moves'[h] = IF moves[h] = 2 \/ pc = "main" THEN moves[h] ELSE moves[h] + 1
    BY <1>1, <1>2, <1>7
  <1>9. moves'[h] # 2 => moves[h] # 2
    BY <1>8
  <1>10. AgeOK(t)'
    <2>1. Lag' = Lag /\ Since(t.n_ticks)' = Since(u.n_ticks)
      BY <1>1, <1>5 DEF Lag, Since
    <2>2. QED
      BY <1>1, <1>2, <1>3, <1>5, <1>9, <2>1 DEF AgeOK
  <1>11. ScanOK(t)'
    <2>1. SUFFICES ASSUME h \in waiting, t.active, moves'[h] # 2
                   PROVE  \/ index < Turn(t)'
                          \/ index = Turn(t)' /\ cs_task # NoTask /\ h >= cs_task
      BY <1>1, <1>5 DEF ScanOK
    <2>2. pc = "run"
      BY <1>1, <1>2, <2>1 DEF ListInv
    <2>3. moves[h] = 0 /\ moves'[h] = 1
      BY <1>2, <1>7, <1>8, <2>1, <2>2
    <2>4. \/ index < Turn(u)
          \/ index = Turn(u) /\ cs_task # NoTask /\ h >= cs_task
      BY <1>2, <1>3, <1>5, <1>9, <2>1 DEF ScanOK
    <2>5. Turn(u) \in {0, 1, 3} /\ Turn(t)' \in {3, 4, 5} /\ index \in 0 .. 6
      BY <1>2, <1>3, <1>5, <2>3 DEF Turn, TaskNode, Priority, TypeOK
    <2>6. QED
      BY <2>4, <2>5
  <1>12. calls' \in 0 .. MaxCalls
    BY <1>1, <1>2, SchedulerAssumption DEF TypeOK
  <1>13. pc' = "run" => cs_task # NoTask /\ cs_task \notin waiting'
    BY <1>1, <1>2 DEF TypeOK, ListInv
  <1>14. QED
    BY <1>1, <1>5, <1>6, <1>8, <1>10, <1>11, <1>12, <1>13, ReplaceStep

-----------------------------------------------------------------------------
(* Steps that change the length of the list *)

\* The tasks that stay wait for their turn as before.
LEMMA OthersStay ==
    ASSUME IInv, NEW u \in TaskNode, AgeOK(u), ScanOK(u),
           UNCHANGED <<ticks, ticks_snap, pc, index, cs_task, waiting, swallowed, moves>>
    PROVE  AgeOK(u)' /\ ScanOK(u)'
  BY DEF AgeOK, ScanOK, Turn, Since, Lag

LEMMA CreateStep ==
    ASSUME IInv, NEW a \in Actives, NEW p \in Priority, NEW period \in Periods,
           s_task_create(a, p, period)
    PROVE  IInv'
  <1>1. /\ UNCHANGED <<ticks, ticks_snap, pc, index, cs_task, beyond, calls, waiting,
                     swallowed, moves>>
        /\ created < MaxTasks /\ created' = created + 1
        /\ s_tasks' = Append(s_tasks, NewTask(created', a, p, period, ticks))
    BY DEF s_task_create, history
  <1>2. /\ TypeOK /\ ListInv /\ LagInv /\ s_tasks \in Seq(TaskNode) /\ ticks \in Stamp
        /\ created \in Nat /\ created \in Ids
    BY LagIs DEF IInv, TypeOK, TaskNode, Stamp, Ids
  <1>3. PICK t : t = NewTask(created + 1, a, p, period, ticks)
    OBVIOUS
  <1>4. /\ t \in TaskNode /\ t.s_task_id = created + 1 /\ t.n_ticks = ticks
        /\ created + 1 \in Ids
    BY <1>1, <1>2, <1>3, Widths, SchedulerAssumption DEF NewTask, TaskNode, Ids
  <1> DEFINE n == Len(s_tasks)
  <1>5. /\ s_tasks' \in Seq(TaskNode) /\ n \in Nat /\ DOMAIN s_tasks' = 1 .. n + 1
        /\ DOMAIN s_tasks = 1 .. n
        /\ s_tasks'[n + 1] = t
        /\ \A i \in 1 .. n : s_tasks'[i] = s_tasks[i]
    BY <1>1, <1>2, <1>3, <1>4
  <1> HIDE DEF n
  <1>6. Handles \subseteq Handles'
    <2>1. ASSUME NEW h \in Handles PROVE h \in Handles'
      <3>1. PICK i \in DOMAIN s_tasks : s_tasks[i].s_task_id = h
        BY DEF Handles
      <3>2. i \in DOMAIN s_tasks' /\ s_tasks'[i].s_task_id = h
        BY <1>5, <3>1
      <3>3. QED
        BY <3>2 DEF Handles
    <2>2. QED
      BY <2>1
  <1>7. TypeOK'
    <2>1. s_tasks' \in Seq(TaskNode)'
      BY <1>5 DEF TaskNode, Stamp, Ids, Priority
    <2>2. created' \in Ids
      BY <1>1, <1>4
    <2>3. cs_task' \in Handles' \cup {NoTask}
      BY <1>1, <1>2, <1>6 DEF TypeOK
    <2>4. QED
      BY <1>1, <1>2, <2>1, <2>2, <2>3 DEF TypeOK, TaskNode, Stamp
  <1>8. LagInv'
    BY <1>1, <1>2 DEF LagInv, Lag, Since
  <1>9. ListInv'
    <2>1. \A i \in 1 .. n : s_tasks[i].s_task_id \in Nat /\ s_tasks[i].s_task_id <= created
      BY <1>2, <1>5, TypeOfList DEF ListInv
    <2>2. Sorted(s_tasks)'
      <3>1. SUFFICES ASSUME NEW i \in 1 .. n + 1, NEW j \in 1 .. n + 1, i < j
                     PROVE  s_tasks'[i].s_task_id < s_tasks'[j].s_task_id
        BY <1>5 DEF Sorted
      <3>2. i \in 1 .. n
        BY <1>5, <3>1
      <3>3. CASE j \in 1 .. n
        BY <1>2, <1>5, <3>1, <3>2, <3>3 DEF ListInv, Sorted
      <3>4. CASE j = n + 1
        BY <1>2, <1>4, <1>5, <2>1, <3>2, <3>4
      <3>5. QED
        BY <1>5, <3>3, <3>4
    <2>3. \A i \in 1 .. n + 1 : s_tasks'[i].s_task_id <= created'
      BY <1>1, <1>2, <1>4, <1>5, <2>1
    <2>4. waiting' \subseteq 1 .. created'
      BY <1>1, <1>2 DEF ListInv
    <2>5. QED
      BY <1>1, <1>2, <1>5, <2>2, <2>3, <2>4 DEF ListInv
  <1>10. AgeOK(t)' /\ ScanOK(t)'
    <2>1. t.s_task_id \notin waiting'
      BY <1>1, <1>2, <1>4 DEF ListInv
    <2>2. Since(t.n_ticks) = 0
      BY <1>2, <1>4, SinceNow
    <2>3. QED
      BY <1>1, <1>4, <2>1, <2>2, StartedAnew
  <1>11. ASSUME NEW i \in 1 .. n + 1
         PROVE  AgeOK(s_tasks[i])' /\ ScanOK(s_tasks[i])'
    <2>1. CASE i = n + 1
      BY <1>5, <1>10, <2>1 DEF AgeOK, ScanOK, Turn, Since
    <2>2. CASE i \in 1 .. n
      <3>1. PICK u \in TaskNode : u = s_tasks[i] /\ u = s_tasks'[i]
        BY <1>2, <1>5, <2>2, TypeOfList
      <3>2. AgeOK(u) /\ ScanOK(u)
        BY <1>5, <2>2, <3>1 DEF IInv
      <3>3. AgeOK(u)' /\ ScanOK(u)'
        BY <1>1, <3>2, OthersStay
      <3>4. QED
        BY <3>1, <3>3 DEF AgeOK, ScanOK, Turn, Since
    <2>3. QED
      BY <1>5, <2>1, <2>2
  <1>12. QED
    BY <1>5, <1>7, <1>8, <1>9, <1>11 DEF IInv

LEMMA DeleteStep ==
    ASSUME IInv, NEW h \in Handles, s_task_delete(h)
    PROVE  IInv'
  <1> DEFINE k == Position(h)
             n == Len(s_tasks)
             Old(i) == IF i < k THEN i ELSE i + 1
  <1>1. /\ UNCHANGED <<ticks, ticks_snap, pc, index, cs_task, beyond, created, waiting,
                     swallowed, moves>>
        /\ calls < MaxCalls /\ calls' = calls + 1 /\ pc \in {"main", "run"}
        /\ pc = "run" => h # cs_task
        /\ s_tasks' = RemoveAt(s_tasks, k)
    BY DEF s_task_delete, Call, Calls, history
  <1>2. TypeOK /\ ListInv /\ LagInv /\ s_tasks \in Seq(TaskNode)
    BY DEF IInv, TypeOK, TaskNode, Stamp
  <1>3. n \in Nat /\ DOMAIN s_tasks = 1 .. n /\ k \in 1 .. n /\ s_tasks[k].s_task_id = h
    BY <1>2, TaskFound
  <1> HIDE DEF k
  <1>4. /\ s_tasks' \in Seq(TaskNode) /\ DOMAIN s_tasks' = 1 .. n - 1
        /\ \A i \in 1 .. n - 1 : s_tasks'[i] = s_tasks[Old(i)] /\ Old(i) \in 1 .. n
    <2>1. /\ RemoveAt(s_tasks, k) \in Seq(TaskNode)
          /\ Len(RemoveAt(s_tasks, k)) = n - 1
          /\ \A i \in 1 .. n - 1 :
                RemoveAt(s_tasks, k)[i] = IF i < k THEN s_tasks[i] ELSE s_tasks[i + 1]
      BY <1>2, <1>3, Removed
    <2>2. QED
      BY <1>1, <1>3, <2>1
  <1> HIDE DEF n
  <1>5. cs_task' \in Handles' \cup {NoTask}
    <2>1. SUFFICES ASSUME cs_task # NoTask PROVE cs_task \in Handles'
      BY <1>1
    <2>2. cs_task \in Handles /\ cs_task # h
      BY <1>1, <1>2, <2>1 DEF TypeOK, ListInv
    <2>3. PICK j \in 1 .. n : s_tasks[j].s_task_id = cs_task
      BY <1>3, <2>2 DEF Handles
    <2>4. j # k
      BY <1>3, <2>2, <2>3
    <2>5. \E i \in 1 .. n - 1 : Old(i) = j
      <3>1. CASE j < k
        <4>1. j \in 1 .. n - 1 /\ Old(j) = j
          BY <1>3, <3>1
        <4>2. QED
          BY <4>1
      <3>2. CASE j > k
        <4>1. j - 1 \in 1 .. n - 1 /\ Old(j - 1) = j
          BY <1>3, <3>2
        <4>2. QED
          BY <4>1
      <3>3. QED
        BY <1>3, <2>4, <3>1, <3>2
    <2>6. QED
      BY <1>4, <2>3, <2>5 DEF Handles
  <1>6. TypeOK'
    <2>1. s_tasks' \in Seq(TaskNode)'
      BY <1>4 DEF TaskNode, Stamp, Ids, Priority
    <2>2. calls' \in 0 .. MaxCalls
      BY <1>1, <1>2, SchedulerAssumption DEF TypeOK
    <2>3. QED
      BY <1>1, <1>2, <1>5, <2>1, <2>2 DEF TypeOK, TaskNode, Stamp
  <1>7. LagInv'
    BY <1>1, <1>2 DEF LagInv, Lag, Since
  <1>8. ListInv'
    <2>1. \A i, j \in 1 .. n - 1 : i < j => Old(i) < Old(j)
      BY <1>3
    <2> HIDE DEF Old
    <2>2. Sorted(s_tasks)'
      BY <1>2, <1>3, <1>4, <2>1 DEF ListInv, Sorted
    <2>3. \A i \in 1 .. n - 1 : s_tasks'[i].s_task_id <= created
      BY <1>2, <1>3, <1>4 DEF ListInv
    <2>4. QED
      BY <1>1, <1>2, <1>4, <2>2, <2>3 DEF ListInv
  <1>9. ASSUME NEW i \in 1 .. n - 1
        PROVE  AgeOK(s_tasks[i])' /\ ScanOK(s_tasks[i])'
    <2>1. PICK u \in TaskNode : u = s_tasks[Old(i)] /\ u = s_tasks'[i]
      BY <1>2, <1>3, <1>4, TypeOfList
    <2>2. AgeOK(u) /\ ScanOK(u)
      BY <1>3, <1>4, <2>1 DEF IInv
    <2>3. AgeOK(u)' /\ ScanOK(u)'
      BY <1>1, <2>2, OthersStay
    <2>4. QED
      BY <2>1, <2>3 DEF AgeOK, ScanOK, Turn, Since
  <1>10. QED
    BY <1>4, <1>6, <1>7, <1>8, <1>9 DEF IInv

-----------------------------------------------------------------------------
(* The theorems *)

LEMMA StutterStep == IInv /\ UNCHANGED vars => IInv'
  <1> SUFFICES ASSUME IInv, UNCHANGED vars PROVE IInv'
    OBVIOUS
  <1>1. UNCHANGED <<ticks, ticks_snap, s_tasks, pc, index, cs_task, beyond, created,
                    calls, waiting, swallowed, moves>>
    BY DEF vars, history
  <1>2. TypeOK' /\ LagInv' /\ ListInv'
    BY <1>1 DEF IInv, TypeOK, Handles, LagInv, Lag, Since, ListInv, Sorted
  <1>3. \A i \in DOMAIN s_tasks : AgeOK(s_tasks[i])' /\ ScanOK(s_tasks[i])'
    BY <1>1 DEF IInv, AgeOK, ScanOK, Turn, Since, Lag
  <1>4. QED
    BY <1>1, <1>2, <1>3 DEF IInv

LEMMA NextIInv == IInv /\ [Next]_vars => IInv'
  <1> SUFFICES ASSUME IInv, [Next]_vars PROVE IInv'
    OBVIOUS
  <1>1. CASE Tick
    BY <1>1, TickStep
  <1>2. CASE TurnWithoutTick
    BY <1>2, SwallowStep
  <1>3. CASE Pass
    BY <1>3, BeginStep, SkipStep, RunStep, NextPriorityStep, EndStep DEF Pass
  <1>4. CASE TaskReturns
    BY <1>4, ReturnStep
  <1>5. CASE Interface
    BY <1>5, CreateStep, DeleteStep, SetPriorityStep, SuspendStep, ResumeStep,
       SetPeriodStep DEF Interface
  <1>6. CASE UNCHANGED vars
    BY <1>6, StutterStep
  <1>7. QED
    BY <1>1, <1>2, <1>3, <1>4, <1>5, <1>6 DEF Next

LEMMA IInvHolds == Spec => []IInv
  BY InitIInv, NextIInv, PTL DEF Spec

\* Type correctness: in particular the task the scan is at is in the list,
\* whatever a running task deletes (scheduler, s_task_delete_node).
THEOREM TypeCorrect == Spec => []TypeOK
  <1>1. IInv => TypeOK
    BY DEF IInv
  <1>2. QED
    BY <1>1, IInvHolds, PTL

\* The difference of the counters is the time since a task ran (`ticks_diff >=
\* s_ticks` in scheduler), for every period and every width of the counter.
THEOREM CountsHold == Spec => []CountsDoNotWrap
  <1>1. IInv => CountsDoNotWrap
    <2>1. SUFFICES ASSUME IInv, NEW i \in DOMAIN s_tasks, s_tasks[i].active,
                          moves[s_tasks[i].s_task_id] # 2
                   PROVE  Since(s_tasks[i].n_ticks) <= s_tasks[i].s_ticks + 2 * MaxLag
                              + MaxSwallowed
      BY DEF CountsDoNotWrap
    <2>2. /\ s_tasks[i] \in TaskNode /\ AgeOK(s_tasks[i])
          /\ Lag \in Nat /\ Lag <= MaxLag /\ ticks \in Stamp
          /\ swallowed \in Nat /\ swallowed <= MaxSwallowed
      BY <2>1, LagIs, TypeOfList DEF IInv, Stamp
    <2>3. Since(s_tasks[i].n_ticks) \in Nat /\ s_tasks[i].s_ticks \in Nat
      BY <2>2, SinceIs, Widths DEF TaskNode, Stamp
    <2>4. QED
      BY <2>1, <2>2, <2>3, Widths DEF AgeOK
  <1>2. QED
    BY <1>1, IInvHolds, PTL

\* Every task that is due when a pass begins is run in it, or was given a new
\* start, is gone or suspended, or had its priority set twice (scheduler).
THEOREM NobodyPassedOver == Spec => ServedInPass
  <1>1. IInv /\ [Next]_vars =>
            [EndPass => \A h \in waiting \cap Handles : Task(h).active => moves[h] = 2]_vars
    <2>1. SUFFICES ASSUME IInv, EndPass, NEW h \in waiting \cap Handles, Task(h).active
                   PROVE  moves[h] = 2
      OBVIOUS
    <2>2. PICK i \in DOMAIN s_tasks : s_tasks[i] = Task(h) /\ s_tasks[i].s_task_id = h
      BY <2>1, TaskFound DEF IInv
    <2>3. QED
      BY <2>1, <2>2, NobodyLeft
  <1>2. QED
    BY <1>1, IInvHolds, PTL DEF Spec, ServedInPass
=============================================================================
