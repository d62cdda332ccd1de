----------------------------- MODULE WaitEvent -----------------------------
(***************************************************************************)
(* Tasks that wait on a wait queue for a condition, with the wait_event()  *)
(* macros of sched.h, or simply for the next wakeup, with the sleep_on()   *)
(* functions of sched.c; and those who make the condition true and call    *)
(* __wake_up(), or send a signal.  The wait queue's lock is held for one   *)
(* list operation or one scan at a time, so these are single steps.        *)
(***************************************************************************)
EXTENDS WakeUp

CONSTANTS
    Event,            \* call wait_event()
    Interruptible,    \* call wait_event_interruptible()
    Sleeper,          \* call sleep_on() or interruptible_sleep_on()
    Waker

Waiter == Event \cup Interruptible \cup Sleeper

ASSUME WaitEventAssumption ==
    /\ Event \cap Interruptible = {} /\ (Event \cup Interruptible) \cap Sleeper = {}
    /\ Waiter \cap Waker = {}

VARIABLES
    task,        \* state of the waiters
    queue,       \* q->task_list
    condition,   \* what wait_event() waits for
    signal,      \* signal_pending(); only interruptible waiters are sent signals
    pc,
    woken       \* the sleepers a wakeup has found on the queue; not in the code

vars == <<task, queue, condition, signal, pc, woken>>

TypeOK ==
    /\ task \in [Waiter -> task_t]
    /\ queue \in Seq(wait_queue_t(Waiter)) /\ IsInjective(queue)
    /\ condition \in BOOLEAN
    /\ signal \in [Waiter -> BOOLEAN]
    /\ pc \in [Waiter \cup Waker ->
                 {"call", "join", "queued", "test", "sched", "finish", "remove", "out", "idle", "wake"}]
    /\ woken \subseteq Sleeper

Init ==
    /\ task = [p \in Waiter |-> Awake]
    /\ queue = << >> /\ condition = FALSE
    /\ signal = [p \in Waiter |-> FALSE]
    /\ pc = [p \in Waiter \cup Waker |-> IF p \in Waiter THEN "call" ELSE "idle"]
    /\ woken = {}

Queued == {p \in Waiter : \E i \in 1 .. Len(queue) : queue[i].task = p}

At(p, label) == pc[p] = label /\ (p \in Waiter => task[p].runnable)
Goto(p, label) == pc' = [pc EXCEPT ![p] = label]

-----------------------------------------------------------------------------
(* wait_event() and wait_event_interruptible()                             *)

Waits(p) == p \in Event \cup Interruptible

\* add_wait_queue() and sleep_on() put the entry, not exclusive, at the head.
Join(p) == queue' = <<[task |-> p, exclusive |-> FALSE]>> \o queue

\* The macro's first test, before anything is set up.
Enter(p) ==
    /\ Waits(p) /\ At(p, "call")
    /\ Goto(p, IF condition THEN "out" ELSE "join")
    /\ UNCHANGED <<task, queue, condition, signal, woken>>

\* add_wait_queue().
JoinQueue(p) ==
    /\ At(p, "join")
    /\ Join(p) /\ Goto(p, "queued")
    /\ UNCHANGED <<task, condition, signal, woken>>

SleepState(p) == IF p \in Event THEN "UNINTERRUPTIBLE" ELSE "INTERRUPTIBLE"

\* Mutant: the state is set after the test, on the way to schedule().
SetState_after_test(p) ==
    \/ /\ Waits(p) /\ At(p, "queued")
       /\ Goto(p, IF condition THEN "finish" ELSE "tested")
       /\ UNCHANGED <<task, queue, condition, signal, woken>>
    \/ /\ At(p, "tested")
       /\ task' = [task EXCEPT ![p].state = SleepState(p)]
       /\ Goto(p, "sched")
       /\ UNCHANGED <<queue, condition, signal, woken>>

SetState(p) ==
    /\ Waits(p) /\ At(p, "queued")
    /\ task' = [task EXCEPT ![p].state = SleepState(p)]
    /\ Goto(p, "test")
    /\ UNCHANGED <<queue, condition, signal, woken>>

\* Mutant: a pending signal is noticed by schedule() only.
Test_no_signal(p) ==
    /\ At(p, "test")
    /\ Goto(p, IF condition THEN "finish" ELSE "sched")
    /\ UNCHANGED <<task, queue, condition, signal, woken>>

\* The test in the loop; then the interruptible one looks for a signal.
Test(p) ==
    /\ At(p, "test")
    /\ Goto(p, IF condition \/ (p \in Interruptible /\ signal[p]) THEN "finish" ELSE "sched")
    /\ UNCHANGED <<task, queue, condition, signal, woken>>

Schedule(p) ==
    /\ At(p, "sched")
    /\ task' = [task EXCEPT ![p] = schedule(@, signal[p])]
    /\ Goto(p, IF Waits(p) THEN "queued" ELSE "remove")
    /\ UNCHANGED <<queue, condition, signal, woken>>

Finish(p) ==
    /\ At(p, "finish")
    /\ task' = [task EXCEPT ![p].state = "RUNNING"]
    /\ Goto(p, "remove")
    /\ UNCHANGED <<queue, condition, signal, woken>>

\* remove_wait_queue(), and the return to the caller.
Leave(p) ==
    /\ At(p, "remove")
    /\ queue' = remove_wait_queue(queue, p)
    /\ woken' = woken \ {p}
    /\ Goto(p, "out")
    /\ UNCHANGED <<task, condition, signal>>

-----------------------------------------------------------------------------
(* sleep_on(): the state is set before the entry is on the queue.          *)

SleepOn(p) ==
    /\ p \in Sleeper /\ At(p, "call")
    /\ \E state \in TASK_NORMAL : task' = [task EXCEPT ![p].state = state]
    /\ Goto(p, "queued")
    /\ UNCHANGED <<queue, condition, signal, woken>>

\* Mutant: the state is set after SLEEP_ON_HEAD, and the queue is joined first.
SleepOnHead_first(p) ==
    \/ /\ p \in Sleeper /\ At(p, "queued") /\ p \notin Queued
       /\ Join(p)
       /\ UNCHANGED <<task, condition, signal, woken, pc>>
    \/ /\ p \in Sleeper /\ At(p, "queued") /\ p \in Queued
       /\ task' = [task EXCEPT ![p].state = "UNINTERRUPTIBLE"]
       /\ Goto(p, "sched")
       /\ UNCHANGED <<queue, condition, signal, woken>>

SleepOnHead(p) ==
    /\ p \in Sleeper /\ At(p, "queued")
    /\ Join(p) /\ Goto(p, "sched")
    /\ UNCHANGED <<task, condition, signal, woken>>

-----------------------------------------------------------------------------
(* The others.                                                             *)

\* The condition comes true; the wakeup follows.
Produce(k) ==
    /\ pc[k] = "idle"
    /\ condition' = TRUE
    /\ Goto(k, "wake")
    /\ UNCHANGED <<task, queue, signal, woken>>

\* Mutant: one task is woken, as if all entries were exclusive.
WakeUp_one(k) ==
    /\ pc[k] = "wake"
    /\ task' = wake_up_common([i \in 1 .. Len(queue) |-> [queue[i] EXCEPT !.exclusive = TRUE]],
                              task, TASK_NORMAL, 1)
    /\ woken' = woken \cup (Sleeper \cap Queued)
    /\ Goto(k, "idle")
    /\ UNCHANGED <<queue, condition, signal>>

\* wake_up() or wake_up_all().
WakeUp(k) ==
    /\ pc[k] = "wake"
    /\ \E nr \in {0, 1} : task' = wake_up_common(queue, task, TASK_NORMAL, nr)
    /\ woken' = woken \cup (Sleeper \cap Queued)
    /\ Goto(k, "idle")
    /\ UNCHANGED <<queue, condition, signal>>

\* Somebody uses the event up.
Consume ==
    /\ condition /\ condition' = FALSE
    /\ UNCHANGED <<task, queue, signal, pc, woken>>

\* send_sig(): a signal wakes an interruptible sleeper.
Signal(p) ==
    /\ ~signal[p]
    /\ signal' = [signal EXCEPT ![p] = TRUE]
    /\ task' = [task EXCEPT ![p] = IF @.state = "INTERRUPTIBLE" THEN try_to_wake_up(@) ELSE @]
    /\ UNCHANGED <<queue, condition, pc, woken>>

\* The caller goes on to wait for the next event; its signal is delivered first.
Again(p) ==
    /\ At(p, "out")
    /\ signal' = [signal EXCEPT ![p] = FALSE]
    /\ Goto(p, "call")
    /\ UNCHANGED <<task, queue, condition, woken>>

Next ==
    \/ \E p \in Waiter : \/ Enter(p) \/ JoinQueue(p) \/ SetState(p) \/ Test(p)
                         \/ Schedule(p) \/ Finish(p) \/ Leave(p) \/ SleepOn(p) \/ SleepOnHead(p) \/ Again(p)
    \/ \E p \in Interruptible : Signal(p)
    \/ \E k \in Waker : Produce(k) \/ WakeUp(k)
    \/ Consume

Spec == Init /\ [][Next]_vars

\* The waiters and wakers run.
FairSpec ==
    /\ Spec
    /\ \A p \in Waiter : WF_vars(Enter(p) \/ JoinQueue(p) \/ SetState(p) \/ Test(p)
                                 \/ Schedule(p) \/ Finish(p) \/ Leave(p) \/ SleepOn(p) \/ SleepOnHead(p))
    /\ \A k \in Waker : WF_vars(WakeUp(k))

-----------------------------------------------------------------------------
Asleep(p) == p \in Queued /\ ~task[p].runnable

(***************************************************************************)
(* No wakeup is lost: when the condition is true and everyone who made it  *)
(* true has called wake_up(), nobody who waits for it is asleep.           *)
(***************************************************************************)
NoLostWakeup ==
    condition /\ (\A k \in Waker : pc[k] = "idle") => \A p \in Event \cup Interruptible : ~Asleep(p)

(***************************************************************************)
(* A task that is on the queue when wake_up() is called wakes up, also if  *)
(* it has not called schedule() yet: sleep_on() sets the state first.      *)
(***************************************************************************)
SleepOnIsWoken == \A p \in woken : task[p].runnable

\* wait_event_interruptible() returns after a signal, whatever becomes of the condition.
SignalEndsWait == \A p \in Interruptible : (signal[p] /\ pc[p] # "call") ~> (pc[p] = "out")

\* wait_event() returns when the condition stays true.
EventEndsWait ==
    <>[]condition => \A p \in Event \cup Interruptible : pc[p] # "call" ~> pc[p] = "out"
=============================================================================
