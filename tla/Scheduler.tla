----------------------------- MODULE Scheduler -----------------------------
(***************************************************************************)
(* The cooperative scheduler (scheduler.c, built with USE_RETIMER).  A     *)
(* pass goes through the table of priorities and, for each entry, through  *)
(* the list of tasks, and runs to its end every task of that priority that *)
(* is due.  Ticks arrive from the timer interrupt at any time, also while  *)
(* a task runs, and the counters wrap.  A turn of the main loop that finds *)
(* no tick takes the snapshot of the ticks all the same: a tick that comes *)
(* between the two reads is swallowed.  The tasks, and the main loop       *)
(* between passes, call the scheduler's interface.                         *)
(*                                                                         *)
(* The doubly linked list of task nodes is the sequence of its nodes.      *)
(* Messages, e_ticks and the CPU usage of the idle task, which nothing in  *)
(* this program reads, are left out.                                       *)
(***************************************************************************)
EXTENDS Integers, Sequences, SequencesExt

CONSTANTS
    Wrap,       \* ticks are counted modulo Wrap (2^32)
    Periods,    \* periods tasks are created with
    Actives,    \* whether they are created active: main creates only active ones
    Behind,     \* what may lie behind the table of priorities
    MaxLag,     \* assumption: a turn of the main loop takes at most MaxLag ticks
    MaxSwallowed, \* assumption: ticks swallowed between two passes
    MaxTasks,   \* bound: tasks created in a behaviour, the idle task included
    MaxCalls    \* bound: other calls of the interface in a behaviour

\* Between two looks at a task, at most two turns with a pass apart, the
\* difference of the counters must not wrap: true of 2^32 ms and any turn that ends.
ASSUME SchedulerAssumption ==
    /\ Wrap \in Nat /\ MaxLag \in Nat \ {0} /\ MaxSwallowed \in Nat
    /\ MaxTasks \in Nat \ {0} /\ MaxCalls \in Nat
    /\ Actives \subseteq BOOLEAN
    /\ Periods \subseteq Nat \ {0}
    /\ \A p \in Periods \cup {1} : p + 2 * MaxLag + MaxSwallowed <= Wrap

Priority == {"HIGH", "NORMAL", "LOW"}
NoTask == 0
Ids == 1 .. MaxTasks

VARIABLES
    ticks,        \* alt_nticks
    ticks_snap,
    s_tasks,      \* the list of task nodes
    pc,           \* "main", "scan", "run": outside, at, or in task cs_task
    index,        \* prior_cycle_index
    cs_task,      \* handle of the task the scan is at, or NoTask at the end
    beyond,       \* what is read behind the end of the table
    created,      \* tasks created: the last handle given out
    calls,        \* other calls made
    waiting,      \* history: tasks that were due when the pass began and have
                  \* neither been run in it since nor been given a new start
    swallowed,    \* history: ticks since the last pass that were swallowed
    moves         \* history: how often in this pass, since a task was run or
                  \* given a new start, its priority was set.  2 stands for more
                  \* than once, and stays until the task is run or started

history == <<waiting, swallowed, moves>>
vars == <<ticks, ticks_snap, s_tasks, pc, index, cs_task, beyond, created, calls,
          history>>

\* Mutant: the entry of the lowest priority is missing from the table.
CycleWithoutLow(i) ==
    IF i = 6 THEN beyond
    ELSE <<"HIGH", "NORMAL", "HIGH", "HIGH", "HIGH", "NORMAL">>[i + 1]

\* priority_cycle.  The scan reads one entry more than the table has; what
\* lies behind it is fixed when the program is linked.
priority_cycle(i) ==
    IF i = 6 THEN beyond
    ELSE <<"HIGH", "NORMAL", "HIGH", "LOW", "HIGH", "NORMAL">>[i + 1]

Since(t) == (ticks - t) % Wrap

IsDue(task) == task.active /\ Since(task.n_ticks) >= task.s_ticks

Handles == {s_tasks[i].s_task_id : i \in DOMAIN s_tasks}
Position(h) == CHOOSE i \in DOMAIN s_tasks : s_tasks[i].s_task_id = h
Task(h) == s_tasks[Position(h)]
HandleAt(tasks, i) == IF i <= Len(tasks) THEN tasks[i].s_task_id ELSE NoTask

NewTask(h, active, priority, period, now) ==
    [s_task_id |-> h, active |-> active, s_priority |-> priority,
     s_ticks |-> period, n_ticks |-> now]

-----------------------------------------------------------------------------
\* scheduler_init: the idle task alone.
Init ==
    /\ ticks = 0
    /\ ticks_snap = 0
    /\ s_tasks = <<NewTask(1, TRUE, "HIGH", 1, 0)>>
    /\ pc = "main"
    /\ index = 0
    /\ cs_task = NoTask
    /\ beyond \in Behind
    /\ created = 1
    /\ calls = 0
    /\ waiting = {}
    /\ swallowed = 0
    /\ moves = [h \in Ids |-> 0]

Tick ==
    /\ Since(ticks_snap) < MaxLag
    /\ ticks' = (ticks + 1) % Wrap
    /\ UNCHANGED <<ticks_snap, s_tasks, pc, index, cs_task, beyond, created, calls,
                   history>>

\* The scheduler is entered, finds no tick elapsed and takes the snapshot anew
\* all the same: a tick between its two reads of the counter is swallowed.
TurnWithoutTick ==
    /\ pc = "main"
    /\ Since(ticks_snap) = 0
    /\ swallowed < MaxSwallowed
    /\ ticks' = (ticks + 1) % Wrap
    /\ ticks_snap' = ticks'
    /\ swallowed' = swallowed + 1
    /\ UNCHANGED <<s_tasks, pc, index, cs_task, beyond, created, calls, waiting, moves>>

\* The scheduler is entered and at least one tick has elapsed.
BeginPass ==
    /\ pc = "main"
    /\ Since(ticks_snap) # 0
    /\ pc' = "scan"
    /\ index' = 0
    /\ cs_task' = HandleAt(s_tasks, 1)
    /\ waiting' = {h \in Handles : IsDue(Task(h))}
    /\ swallowed' = 0
    /\ UNCHANGED <<ticks, ticks_snap, s_tasks, beyond, created, calls, moves>>

NewStart(h) ==
    /\ waiting' = waiting \ {h}
    /\ moves' = [moves EXCEPT ![h] = 0]
    /\ UNCHANGED swallowed

Matches == priority_cycle(index) = Task(cs_task).s_priority /\ IsDue(Task(cs_task))

Skip ==
    /\ pc = "scan" /\ cs_task # NoTask
    /\ ~Matches
    /\ cs_task' = HandleAt(s_tasks, Position(cs_task) + 1)
    /\ UNCHANGED <<ticks, ticks_snap, s_tasks, pc, index, beyond, created, calls,
                   history>>

\* Mutant: the tick count is not reloaded when the task is run.
RunWithoutReload ==
    /\ pc = "scan" /\ cs_task # NoTask
    /\ Matches
    /\ pc' = "run"
    /\ NewStart(cs_task)
    /\ UNCHANGED <<ticks, ticks_snap, s_tasks, index, cs_task, beyond, created, calls>>

RunTask ==
    /\ pc = "scan" /\ cs_task # NoTask
    /\ Matches
    /\ s_tasks' = [s_tasks EXCEPT ![Position(cs_task)].n_ticks = ticks]
    /\ pc' = "run"
    /\ NewStart(cs_task)
    /\ UNCHANGED <<ticks, ticks_snap, index, cs_task, beyond, created, calls>>

TaskReturns ==
    /\ pc = "run"
    /\ pc' = "scan"
    /\ cs_task' = HandleAt(s_tasks, Position(cs_task) + 1)
    /\ UNCHANGED <<ticks, ticks_snap, s_tasks, index, beyond, created, calls, history>>

\* The end of the list, with an entry of the table left or none.
NextPriority ==
    /\ pc = "scan" /\ cs_task = NoTask
    /\ index < 6
    /\ index' = index + 1
    /\ cs_task' = HandleAt(s_tasks, 1)
    /\ UNCHANGED <<ticks, ticks_snap, s_tasks, pc, beyond, created, calls, history>>

EndPass ==
    /\ pc = "scan" /\ cs_task = NoTask
    /\ index = 6
    /\ pc' = "main"
    /\ ticks_snap' = ticks
    /\ waiting' = {}
    /\ moves' = [h \in Ids |-> IF moves[h] = 2 THEN 2 ELSE 0]
    /\ UNCHANGED <<ticks, s_tasks, index, cs_task, beyond, created, calls, swallowed>>

-----------------------------------------------------------------------------
(* The interface, called by the task that runs or by the main loop.        *)

Calls == pc \in {"main", "run"}

\* Mutant: the priority is not stored.
CreateWithoutPriority(active, priority, period) ==
    /\ Calls
    /\ created < MaxTasks
    /\ created' = created + 1
    /\ s_tasks' = Append(s_tasks, NewTask(created', active, "unset", period, ticks))
    /\ UNCHANGED <<ticks, ticks_snap, pc, index, cs_task, beyond, calls, history>>

s_task_create(active, priority, period) ==
    /\ Calls
    /\ created < MaxTasks
    /\ created' = created + 1
    /\ s_tasks' = Append(s_tasks, NewTask(created', active, priority, period, ticks))
    /\ UNCHANGED <<ticks, ticks_snap, pc, index, cs_task, beyond, calls, history>>

\* One of the other calls, for a handle that is found.
Call(h) ==
    /\ Calls
    /\ h \in Handles
    /\ calls < MaxCalls
    /\ calls' = calls + 1
    /\ UNCHANGED <<ticks, ticks_snap, pc, index, cs_task, beyond, created>>

Update(h, task) == s_tasks' = [s_tasks EXCEPT ![Position(h)] = task]

\* A task that deletes itself is freed before the scan reads its next field:
\* no task of this program does, and the model lets none.
s_task_delete(h) ==
    /\ Call(h)
    /\ pc = "run" => h # cs_task
    /\ s_tasks' = RemoveAt(s_tasks, Position(h))
    /\ UNCHANGED history

s_task_set_priority(h, priority) ==
    /\ Call(h)
    /\ Update(h, [Task(h) EXCEPT !.s_priority = priority])
    /\ moves' = [moves EXCEPT ![h] = IF @ = 2 \/ pc = "main" THEN @ ELSE @ + 1]
    /\ UNCHANGED <<waiting, swallowed>>

s_task_suspend(h) ==
    /\ Call(h)
    /\ Update(h, [Task(h) EXCEPT !.active = FALSE])
    /\ UNCHANGED history

\* Mutant: the start lies one period too far back.
ResumeTwoPeriodsAgo(h) ==
    /\ Call(h)
    /\ Update(h, [Task(h) EXCEPT !.active = TRUE, !.n_ticks = ticks - 2 * Task(h).s_ticks])
    /\ NewStart(h)

\* The task is due at once: its count starts one period ago.
s_task_resume(h) ==
    /\ Call(h)
    /\ Update(h, [Task(h) EXCEPT !.active = TRUE,
                                 !.n_ticks = (ticks - Task(h).s_ticks) % Wrap])
    /\ NewStart(h)

s_task_set_periodic_ticks(h, period, run) ==
    /\ Call(h)
    /\ Update(h, [Task(h) EXCEPT !.s_ticks = period,
                                 !.n_ticks = IF run THEN (ticks - period) % Wrap ELSE ticks])
    /\ NewStart(h)

Interface ==
    \/ \E a \in Actives, p \in Priority, s \in Periods : s_task_create(a, p, s)
    \/ \E h \in Handles :
          \/ s_task_delete(h)
          \/ \E p \in Priority : s_task_set_priority(h, p)
          \/ s_task_suspend(h)
          \/ s_task_resume(h)
          \/ \E s \in Periods, r \in BOOLEAN : s_task_set_periodic_ticks(h, s, r)

Pass == BeginPass \/ Skip \/ RunTask \/ NextPriority \/ EndPass

Next ==
    \/ Tick
    \/ TurnWithoutTick
    \/ Pass
    \/ TaskReturns
    \/ Interface

Spec == Init /\ [][Next]_vars

\* Ticks keep coming, the main loop goes round and every task returns.
FairSpec == Spec /\ WF_vars(Tick) /\ WF_vars(Pass) /\ WF_vars(TaskReturns)

-----------------------------------------------------------------------------
TypeOK ==
    /\ ticks \in 0 .. Wrap - 1 /\ ticks_snap \in 0 .. Wrap - 1
    /\ s_tasks \in Seq([s_task_id : Ids, active : BOOLEAN, s_priority : Priority,
                        s_ticks : Periods \cup {1}, n_ticks : 0 .. Wrap - 1])
    /\ pc \in {"main", "scan", "run"}
    /\ index \in 0 .. 6
    /\ cs_task \in Handles \cup {NoTask}
    /\ pc = "run" => cs_task # NoTask
    /\ created \in Ids /\ calls \in 0 .. MaxCalls
    /\ waiting \subseteq Ids /\ swallowed \in 0 .. MaxSwallowed /\ moves \in [Ids -> 0 .. 2]

(***************************************************************************)
(* No task is passed over: a task that was due when a pass began and is    *)
(* still there and active at its end has been run in it, or was given a    *)
(* new start by a call, also if its priority was set to any other or the   *)
(* list was edited in mid-scan (scheduler).  Setting it twice in a pass    *)
(* can move a task out of the way of the scan both times.                  *)
(***************************************************************************)
ServedInPass ==
    [][EndPass => \A h \in waiting \cap Handles : Task(h).active => moves[h] = 2]_vars

(***************************************************************************)
(* The tick counts never look into the future: an active task's count is   *)
(* at most its period, two turns and the ticks swallowed between passes    *)
(* old, so that the difference of the counters is the time since the task  *)
(* ran, across the wrap of either (the check `ticks_diff >= s_ticks`).  A  *)
(* task kept from running by its changes of priority is the exception.     *)
(***************************************************************************)
CountsDoNotWrap ==
    \A i \in DOMAIN s_tasks :
        s_tasks[i].active /\ moves[s_tasks[i].s_task_id] # 2 =>
            Since(s_tasks[i].n_ticks) <= s_tasks[i].s_ticks + 2 * MaxLag + MaxSwallowed

(***************************************************************************)
(* Every task that stays active is run again and again (scheduler): the    *)
(* ticks that are swallowed delay it, MaxSwallowed of them at most.        *)
(***************************************************************************)
EveryTaskRuns ==
    \A h \in Ids : []<>(h \in Handles /\ Task(h).active => pc = "run" /\ cs_task = h)
=============================================================================
