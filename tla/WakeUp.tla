------------------------------- MODULE WakeUp -------------------------------
(***************************************************************************)
(* Sleeping and waking as the wait queues see it (sched.c, fork.c and the  *)
(* wait_event() macros of sched.h): what schedule(), try_to_wake_up() and  *)
(* the scan of a wait queue do to the state of the tasks.  Which runnable  *)
(* task gets a CPU is the business of module Sched.                        *)
(***************************************************************************)
EXTENDS Integers, FiniteSets, SequencesExt

TaskState == {"RUNNING", "INTERRUPTIBLE", "UNINTERRUPTIBLE"}
TASK_NORMAL == {"INTERRUPTIBLE", "UNINTERRUPTIBLE"}

\* runnable: p->array is not NULL.
task_t == [state : TaskState, runnable : BOOLEAN]
Awake == [state |-> "RUNNING", runnable |-> TRUE]

\* An entry of a wait queue; the flag is WQ_FLAG_EXCLUSIVE.
wait_queue_t(Task) == [task : Task, exclusive : BOOLEAN]

\* A task on the runqueue keeps its place there and only changes its state.
try_to_wake_up(t) == Awake

\* pending: a signal is pending.
schedule(t, pending) ==
    IF t.state = "RUNNING" \/ (t.state = "INTERRUPTIBLE" /\ pending) THEN Awake
    ELSE [t EXCEPT !.runnable = FALSE]

(***************************************************************************)
(* __wake_up_common(): the scan goes through the queue, wakes every task   *)
(* whose state is in mode, and stops after nr exclusive ones that were     *)
(* really asleep; with nr = 0 it never stops.                              *)
(***************************************************************************)
Hit(q, task, mode, i) == task[q[i].task].state \in mode
Counts(q, task, mode, i) ==
    Hit(q, task, mode, i) /\ ~task[q[i].task].runnable /\ q[i].exclusive

Scanned(q, task, mode, nr) ==
    {i \in 1 .. Len(q) :
        nr = 0 \/ Cardinality({j \in 1 .. i - 1 : Counts(q, task, mode, j)}) < nr}

\* Mutant: an exclusive task that was not asleep uses the wakeup up.
wake_up_common_counts_all(q, task, mode, nr) ==
    LET scanned == {i \in 1 .. Len(q) :
            nr = 0 \/ Cardinality({j \in 1 .. i - 1 : q[j].exclusive}) < nr}
        woken == {q[i].task : i \in {j \in scanned : Hit(q, task, mode, j)}}
    IN  [p \in DOMAIN task |-> IF p \in woken THEN try_to_wake_up(task[p]) ELSE task[p]]

wake_up_common(q, task, mode, nr) ==
    LET woken == {q[i].task : i \in {j \in Scanned(q, task, mode, nr) : Hit(q, task, mode, j)}}
    IN  [p \in DOMAIN task |-> IF p \in woken THEN try_to_wake_up(task[p]) ELSE task[p]]

\* list_del() of the entry of p, which is on the queue.
remove_wait_queue(q, p) == RemoveAt(q, CHOOSE i \in 1 .. Len(q) : q[i].task = p)
=============================================================================
