------------------------------ MODULE Mailbox ------------------------------
(***************************************************************************)
(* The messages of the scheduler: one mailbox, a doubly linked list in the *)
(* order of sending, from which a task that is about to run has its        *)
(* messages moved to a list of its own.  The task frees that list or keeps *)
(* it for its next run, and the messages of a deleted task are freed.      *)
(*                                                                         *)
(* Tasks are not preempted and no interrupt sends, so that an insertion is *)
(* one step; the scan of the mailbox is taken step by step.  The tasks of  *)
(* this program send no messages: the users of the interface are any.      *)
(***************************************************************************)
EXTENDS Naturals, Sequences, FiniteSets

CONSTANTS
    Handles,     \* handles messages are sent to, of tasks that exist or not
    Messages,    \* the memory there is for messages
    NULL,
    Sizes        \* numbers of bytes sent

MailboxAssumption == NULL \notin Messages /\ Sizes \subseteq Nat /\ IsFiniteSet(Messages)

VARIABLES
    tasks,                        \* the tasks that exist
    mailbox_head, mailbox_tail, mailbox_count,
    next, previous, dst,          \* the fields of the messages
    data_size, room,              \* bytes of a message, and bytes allocated for them
    allocated,                    \* messages malloc has given away
    s_task_msg,                   \* the list of each task
    scnr, msg_tail,               \* locals of s_task_extract_msg
    caller                        \* who called it: <<"run", t>>, <<"delete", t>> or <<>>

mailbox == <<mailbox_head, mailbox_tail, mailbox_count>>
nodes == <<next, previous>>
payload == <<dst, data_size, room>>
vars == <<tasks, mailbox, nodes, payload, allocated, s_task_msg, scnr, msg_tail, caller>>

Pointers == Messages \cup {NULL}

TypeOK ==
    /\ tasks \subseteq Handles
    /\ {mailbox_head, mailbox_tail, scnr, msg_tail} \subseteq Pointers
    /\ mailbox_count \in 0 .. Cardinality(Messages)
    /\ next \in [Messages -> Pointers] /\ previous \in [Messages -> Pointers]
    /\ dst \in [Messages -> Handles]
    /\ data_size \in [Messages -> Sizes \cup {0}] /\ room \in [Messages -> Nat]
    /\ allocated \subseteq Messages
    /\ s_task_msg \in [Handles -> Pointers]
    /\ caller \in {<<>>} \cup {"run", "running", "delete"} \X Handles

Init ==
    /\ tasks \in SUBSET Handles
    /\ mailbox_head = NULL /\ mailbox_tail = NULL /\ mailbox_count = 0
    /\ next = [m \in Messages |-> NULL] /\ previous = [m \in Messages |-> NULL]
    /\ dst \in {[m \in Messages |-> t] : t \in Handles}
    /\ data_size = [m \in Messages |-> 0] /\ room = [m \in Messages |-> 0]
    /\ allocated = {} /\ s_task_msg = [t \in Handles |-> NULL]
    /\ scnr = NULL /\ msg_tail = NULL /\ caller = <<>>

-----------------------------------------------------------------------------
(* Sending *)

\* malloc(sizeof(bytes_count)): the size of a uint16_t, whatever it holds.
Malloc(bytes_count) == 2

s_task_insert_message(m) ==
    /\ mailbox_head' = IF mailbox_head = NULL THEN m ELSE mailbox_head
    /\ mailbox_tail' = m
    /\ mailbox_count' = mailbox_count + 1
    /\ next' = [n \in Messages |-> IF n = m THEN NULL
                                   ELSE IF n = mailbox_tail THEN m ELSE next[n]]
    /\ previous' = [previous EXCEPT ![m] = mailbox_tail]

\* Any code of the main loop may send, a running task too, but not during a scan.
MaySend == IF caller = <<>> THEN TRUE ELSE caller[1] = "running"

\* malloc fails, and s_task_send_msg with it.
OutOfMemory == MaySend /\ UNCHANGED vars

\* The destination is not looked up.
s_task_send_msg(t) ==
    /\ MaySend
    /\ \E m \in Messages \ allocated, bytes_count \in Sizes :
        /\ allocated' = allocated \cup {m}
        /\ dst' = [dst EXCEPT ![m] = t]
        /\ data_size' = [data_size EXCEPT ![m] = bytes_count]
        /\ room' = [room EXCEPT ![m] = Malloc(bytes_count)]
        /\ s_task_insert_message(m)
    /\ UNCHANGED <<tasks, s_task_msg, scnr, msg_tail, caller>>

-----------------------------------------------------------------------------
(* Extracting *)

\* The messages from m on, along next.
ListFrom(m) ==
    LET walk[k \in 0 .. Cardinality(Messages)] ==
            IF k = 0 THEN [at |-> m, seen |-> <<>>]
            ELSE IF walk[k - 1].at = NULL THEN walk[k - 1]
            ELSE [at |-> next[walk[k - 1].at], seen |-> Append(walk[k - 1].seen, walk[k - 1].at)]
    IN walk[Cardinality(Messages)].seen

s_task_locate_tail(m) == IF m = NULL THEN NULL ELSE ListFrom(m)[Len(ListFrom(m))]

\* scheduler is about to run a task, or s_task_delete to delete one.
Extract(t, why) ==
    /\ caller = <<>> /\ t \in tasks
    /\ caller' = <<why, t>>
    /\ scnr' = mailbox_head
    /\ msg_tail' = s_task_locate_tail(s_task_msg[t])
    /\ UNCHANGED <<tasks, mailbox, nodes, payload, allocated, s_task_msg>>

Scanning == caller # <<>> /\ caller[1] \in {"run", "delete"} /\ scnr # NULL

\* A message of another task is passed by.
Skip ==
    /\ Scanning /\ dst[scnr] # caller[2]
    /\ scnr' = next[scnr]
    /\ UNCHANGED <<tasks, mailbox, nodes, payload, allocated, s_task_msg, msg_tail, caller>>

\* And the count that its caller takes down.  What becomes of the links is Move's.
s_task_remove_message(m) ==
    /\ mailbox_head' = IF m # mailbox_head THEN mailbox_head
                       ELSE IF mailbox_count = 1 THEN NULL ELSE next[m]
    /\ mailbox_tail' = IF m = mailbox_head
                       THEN IF mailbox_count = 1 THEN NULL ELSE mailbox_tail
                       ELSE IF m = mailbox_tail THEN previous[m] ELSE mailbox_tail
    /\ mailbox_count' = mailbox_count - 1

\* The links of the neighbours in the mailbox, and of the end of the task's
\* list, once m is detached and attached again.
NextWithout(m) ==
    [n \in Messages |->
        IF n = m THEN NULL
        ELSE IF n = msg_tail THEN m
        ELSE IF m # mailbox_head /\ n = previous[m] THEN next[m] ELSE next[n]]

PreviousWithout(m) ==
    [n \in Messages |->
        IF n = m THEN (IF s_task_msg[caller[2]] = NULL THEN NULL ELSE msg_tail)
        ELSE IF n = next[m] THEN (IF m = mailbox_head THEN NULL ELSE previous[m])
        ELSE previous[n]]

\* Mutant: the scan goes on from the message once it is detached.
MoveOne ==
    /\ Scanning /\ dst[scnr] = caller[2]
    /\ s_task_remove_message(scnr)
    /\ next' = NextWithout(scnr) /\ previous' = PreviousWithout(scnr)
    /\ s_task_msg' = IF s_task_msg[caller[2]] = NULL
                     THEN [s_task_msg EXCEPT ![caller[2]] = scnr] ELSE s_task_msg
    /\ msg_tail' = scnr
    /\ scnr' = next'[scnr]
    /\ UNCHANGED <<tasks, payload, allocated, caller>>

Move ==
    /\ Scanning /\ dst[scnr] = caller[2]
    /\ s_task_remove_message(scnr)
    /\ next' = NextWithout(scnr) /\ previous' = PreviousWithout(scnr)
    /\ s_task_msg' = IF s_task_msg[caller[2]] = NULL
                     THEN [s_task_msg EXCEPT ![caller[2]] = scnr] ELSE s_task_msg
    /\ msg_tail' = scnr
    /\ scnr' = next[scnr]
    /\ UNCHANGED <<tasks, payload, allocated, caller>>

\* The scan is over and the task's function is called.
Run ==
    /\ caller # <<>> /\ caller[1] = "run" /\ scnr = NULL
    /\ caller' = <<"running", caller[2]>>
    /\ UNCHANGED <<tasks, mailbox, nodes, payload, allocated, s_task_msg, scnr, msg_tail>>

Freed(t) ==
    LET list == ListFrom(s_task_msg[t])
    IN {list[k] : k \in DOMAIN list}

\* What freed memory holds is not looked at and is NULL here.
s_task_flush_msgs(t) ==
    /\ allocated' = allocated \ Freed(t)
    /\ next' = [m \in Messages |-> IF m \in Freed(t) THEN NULL ELSE next[m]]
    /\ previous' = [m \in Messages |-> IF m \in Freed(t) THEN NULL ELSE previous[m]]
    /\ s_task_msg' = [s_task_msg EXCEPT ![t] = NULL]

\* The running task frees its messages,
Flush ==
    /\ caller # <<>> /\ caller[1] = "running"
    /\ s_task_flush_msgs(caller[2])
    /\ UNCHANGED <<tasks, mailbox, payload, scnr, msg_tail, caller>>

\* and returns, having done so or not.
Return ==
    /\ caller # <<>> /\ caller[1] = "running"
    /\ caller' = <<>>
    /\ UNCHANGED <<tasks, mailbox, nodes, payload, allocated, s_task_msg, scnr, msg_tail>>

\* The task is deleted with the messages it had.
s_task_delete_node ==
    /\ caller # <<>> /\ caller[1] = "delete" /\ scnr = NULL
    /\ s_task_flush_msgs(caller[2])
    /\ tasks' = tasks \ {caller[2]}
    /\ caller' = <<>>
    /\ UNCHANGED <<mailbox, payload, scnr, msg_tail>>

Next ==
    \/ \E t \in Handles : s_task_send_msg(t) \/ Extract(t, "run") \/ Extract(t, "delete")
    \/ OutOfMemory \/ Skip \/ Move \/ Run \/ Flush \/ Return \/ s_task_delete_node

Spec == Init /\ [][Next]_vars

-----------------------------------------------------------------------------
(* Properties *)

Elements(list) == {list[k] : k \in DOMAIN list}

\* A list that ends, is linked backwards as it is forwards and has no
\* message twice.
IsList(list) ==
    /\ list # <<>> => previous[list[1]] = NULL /\ next[list[Len(list)]] = NULL
    /\ \A k \in 2 .. Len(list) : previous[list[k]] = list[k - 1]
    /\ Cardinality(Elements(list)) = Len(list)

\* No message is lost in the links and none is on two lists: the mailbox, with
\* its tail and its count, and the lists of the tasks are well formed, disjoint,
\* and together they are the messages that are allocated.  That holds in the
\* middle of a scan as well, whichever messages it takes out.
NothingLost ==
    LET inMailbox == ListFrom(mailbox_head)
        lists == {inMailbox} \cup {ListFrom(s_task_msg[t]) : t \in Handles}
    IN /\ \A list \in lists : IsList(list)
       /\ mailbox_count = Len(inMailbox)
       /\ mailbox_tail = IF inMailbox = <<>> THEN NULL ELSE inMailbox[Len(inMailbox)]
       /\ allocated = UNION {Elements(list) : list \in lists}
       /\ \A l1, l2 \in lists : l1 # l2 => Elements(l1) \cap Elements(l2) = {}

\* A task is called with every message sent to it by then: the scan, which
\* takes messages out of the list it runs along, misses none.
AllAreDelivered ==
    [][Run => \A k \in DOMAIN ListFrom(mailbox_head) :
                  dst[ListFrom(mailbox_head)[k]] # caller[2]]_vars

\* The messages on their way to a task: those it has and those of the mailbox.
OnTheWay ==
    [t \in Handles |->
        ListFrom(s_task_msg[t]) \o SelectSeq(ListFrom(mailbox_head), LAMBDA m : dst[m] = t)]

\* The lists implement a queue for every task, in the order of sending: a
\* message enters one queue when it is in none; a task that runs takes its
\* oldest messages in one go or leaves them all, and those of a task that is
\* deleted are dropped.
Queued(m, t) ==
    /\ \A u \in Handles : m \notin Elements(OnTheWay[u])
    /\ OnTheWay' = [OnTheWay EXCEPT ![t] = Append(@, m)]
    /\ UNCHANGED tasks

Taken(t) ==
    /\ t \in tasks
    /\ \E k \in 1 .. Len(OnTheWay[t]) :
          OnTheWay' = [OnTheWay EXCEPT ![t] = SubSeq(@, k + 1, Len(@))]
    /\ UNCHANGED tasks

Dropped(t) ==
    /\ t \in tasks
    /\ tasks' = tasks \ {t}
    /\ OnTheWay' = [OnTheWay EXCEPT ![t] = <<>>]

IsFifo ==
    /\ OnTheWay = [t \in Handles |-> <<>>]
    /\ [][\E t \in Handles :
             Taken(t) \/ Dropped(t) \/ \E m \in Messages : Queued(m, t)]_<<OnTheWay, tasks>>

(***************************************************************************)
(* "data bytes are copied inside this function" (scheduler.c:562), to      *)
(* memory of their own: it is large enough for them.  It is allocated with *)
(* the size of the length, two bytes.                                      *)
(***************************************************************************)
CopyFits == \A m \in allocated : data_size[m] <= room[m]
=============================================================================
