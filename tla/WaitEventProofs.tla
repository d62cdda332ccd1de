--------------------------- MODULE WaitEventProofs ---------------------------
(***************************************************************************)
(* The invariants of WaitEvent, for any number of waiters and wakers.      *)
(***************************************************************************)
EXTENDS WaitEvent, CollectionLemmas

\* A scan of a queue without exclusive entries goes to the end.
LEMMA AllScanned ==
    ASSUME NEW Task, NEW q \in Seq(wait_queue_t(Task)), Flags(q, {FALSE}),
           NEW st, NEW mode, NEW nr \in {0, 1}
    PROVE  Scanned(q, st, mode, nr) = 1 .. Len(q)
<1>0. Len(q) \in Nat
  BY LenProperties
<1>1. ASSUME NEW i \in 1 .. Len(q)
      PROVE  nr = 0 \/ Cardinality({j \in 1 .. i - 1 : Counts(q, st, mode, j)}) < nr
  <2>1. \A j \in 1 .. i - 1 : j \in 1 .. Len(q)
    BY <1>0
  <2>2. {j \in 1 .. i - 1 : Counts(q, st, mode, j)} = {}
    BY <2>1 DEF Counts, Flags
  <2>3. Cardinality({j \in 1 .. i - 1 : Counts(q, st, mode, j)}) = 0
    BY <2>2, FS_EmptySet
  <2> QED BY <2>3
<1> QED BY <1>1 DEF Scanned

\* Then every task on the queue in a state of mode is woken.
LEMMA AllWoken ==
    ASSUME NEW Task, NEW q \in Seq(wait_queue_t(Task)), Flags(q, {FALSE}),
           NEW st, NEW mode, NEW nr \in {0, 1}, NEW p \in DOMAIN st
    PROVE  wake_up_common(q, st, mode, nr)[p]
             = IF OnQueue(q, p) /\ st[p].state \in mode THEN Awake ELSE st[p]
<1> DEFINE Hits == {q[i].task : i \in {j \in Scanned(q, st, mode, nr) : Hit(q, st, mode, j)}}
<1>1. p \in Hits <=> OnQueue(q, p) /\ st[p].state \in mode
  <2>1. Scanned(q, st, mode, nr) = 1 .. Len(q)
    BY AllScanned
  <2>2. p \in Hits <=> \E i \in 1 .. Len(q) : st[q[i].task].state \in mode /\ p = q[i].task
    BY <2>1 DEF Hit
  <2> QED BY <2>2 DEF OnQueue
<1>2. wake_up_common(q, st, mode, nr)
        = [r \in DOMAIN st |-> IF r \in Hits THEN try_to_wake_up(st[r]) ELSE st[r]]
  BY DEF wake_up_common
<1> HIDE DEF Hits
<1> QED BY <1>1, <1>2 DEF try_to_wake_up

Waiting == Event \cup Interruptible

\* Where the waiters and wakers are.
Labels ==
    /\ \A p \in Sleeper : pc[p] \in {"call", "queued", "sched", "remove", "out"}
    /\ \A p \in Waiting : pc[p] \in {"call", "join", "queued", "test", "sched", "finish",
                                     "remove", "out"}
    /\ \A k \in Waker : pc[k] \in {"idle", "wake"}

\* Between these labels a waiter is on the queue.
Joined(p) == pc[p] \in IF p \in Sleeper THEN {"sched", "remove"}
                       ELSE {"queued", "test", "sched", "finish", "remove"}

QueueSound ==
    /\ Unique(queue) /\ Flags(queue, {FALSE})
    /\ \A p \in Waiter : OnQueue(queue, p) <=> Joined(p)

\* Only schedule() takes a waiter off the CPU.
SleepSound ==
    \A p \in Waiter : ~task[p].runnable => /\ task[p].state \in TASK_NORMAL
                                          /\ pc[p] = IF p \in Sleeper THEN "remove" ELSE "queued"

\* When the condition is true and everybody has been told, no one sleeps or
\* is on the way to schedule() with a sleeping state.
AllTold ==
    condition /\ (\A k \in Waker : pc[k] = "idle") =>
        \A p \in Waiting : task[p].runnable /\ (pc[p] = "sched" => task[p].state = "RUNNING")

\* A sleeper that was found on the queue stays awake until it has left.
WokenSound ==
    \A p \in woken : /\ pc[p] \in {"sched", "remove"}
                     /\ task[p].state = "RUNNING" /\ task[p].runnable

Typed ==
    /\ task \in [Waiter -> task_t]
    /\ queue \in Seq(wait_queue_t(Waiter))
    /\ condition \in BOOLEAN
    /\ signal \in [Waiter -> BOOLEAN]
    /\ pc \in [Waiter \cup Waker ->
                 {"call", "join", "queued", "test", "sched", "finish", "remove", "out", "idle", "wake"}]
    /\ woken \subseteq Sleeper

IInv == Typed /\ Labels /\ QueueSound /\ SleepSound /\ AllTold /\ WokenSound

\* The kinds of processes are different.
LEMMA Kinds ==
    /\ \A p \in Waiter : p \notin Waker /\ (p \in Sleeper <=> p \notin Waiting)
    /\ Waiter = Waiting \cup Sleeper
BY WaitEventAssumption DEF Waiter, Waiting

(***************************************************************************)
(* A step of the waiter p, or a signal to it, leaves p with the fields t   *)
(* at label and the queue as q2.                                           *)
(***************************************************************************)
StepOf(p, t, label, q2) ==
    /\ task' = [task EXCEPT ![p] = t] /\ pc' = [pc EXCEPT ![p] = label]
    /\ queue' = q2 /\ (woken' = woken \/ woken' = woken \ {p})
    /\ condition' = condition /\ signal' \in [Waiter -> BOOLEAN]

\* What p may not be left with.
Allowed(p, t, label) ==
    /\ label \in IF p \in Sleeper THEN {"call", "queued", "sched", "remove", "out"}
                 ELSE {"call", "join", "queued", "test", "sched", "finish", "remove", "out"}
    /\ ~t.runnable => /\ t.state \in TASK_NORMAL
                      /\ label = IF p \in Sleeper THEN "remove" ELSE "queued"
    /\ condition /\ (\A k \in Waker : pc[k] = "idle") /\ p \in Waiting =>
          t.runnable /\ (label = "sched" => t.state = "RUNNING")
    /\ p \in woken' => label \in {"sched", "remove"} /\ t.state = "RUNNING" /\ t.runnable

\* A step of one waiter keeps the invariant when the waiter is left as Allowed says.
LEMMA Step ==
    ASSUME IInv, NEW p \in Waiter, NEW t \in task_t, NEW label, NEW q2 \in Seq(wait_queue_t(Waiter)),
           StepOf(p, t, label, q2), Allowed(p, t, label),
           Unique(q2), Flags(q2, {FALSE}), OnQueue(q2, p) <=> Joined(p)',
           \A q \in Waiter \ {p} : OnQueue(q2, q) <=> OnQueue(queue, q)
    PROVE  IInv'
<1>1. Typed'
  BY Kinds DEF IInv, Typed, StepOf, Allowed
<1>2. /\ pc'[p] = label /\ task'[p] = t
      /\ \A q \in Waiter \cup Waker : q # p => pc'[q] = pc[q]
      /\ \A q \in Waiter : q # p => task'[q] = task[q]
  BY DEF IInv, Typed, StepOf
<1>3. Labels'
  BY <1>2, Kinds DEF IInv, Labels, Allowed
<1>4. QueueSound'
  <2>1. \A q \in Waiter \ {p} : Joined(q)' <=> Joined(q)
    BY <1>2 DEF Joined
  <2>2. queue' = q2
    BY DEF StepOf
  <2>3. \A q \in Waiter : OnQueue(queue, q) <=> Joined(q)
    BY DEF IInv, QueueSound
  <2> QED BY <2>1, <2>2, <2>3 DEF QueueSound
<1>5. SleepSound'
  BY <1>2, Kinds DEF IInv, SleepSound, Allowed
<1>6. AllTold'
  BY <1>2, Kinds DEF IInv, AllTold, Allowed, StepOf
<1>7. WokenSound'
  BY <1>2, Kinds DEF IInv, WokenSound, Typed, Allowed, StepOf
<1> QED BY <1>1, <1>3, <1>4, <1>5, <1>6, <1>7 DEF IInv

\* The same for a step that does not touch the queue.
LEMMA StepAside ==
    ASSUME IInv, NEW p \in Waiter, NEW t \in task_t, NEW label,
           StepOf(p, t, label, queue), Allowed(p, t, label), Joined(p)' <=> Joined(p)
    PROVE  IInv'
<1>1. /\ queue \in Seq(wait_queue_t(Waiter)) /\ Unique(queue) /\ Flags(queue, {FALSE})
      /\ OnQueue(queue, p) <=> Joined(p)
  BY DEF IInv, Typed, QueueSound
<1> QED BY <1>1, Step

\* The waiters' own steps, and signals.
LEMMA WaiterStep ==
    ASSUME IInv, NEW p \in Waiter,
           \/ Enter(p) \/ SetState(p) \/ Test(p) \/ Schedule(p) \/ Finish(p)
           \/ SleepOn(p) \/ Again(p) \/ (p \in Interruptible /\ Signal(p))
    PROVE  IInv'
<1>0. /\ Typed /\ task[p] \in task_t /\ Labels /\ SleepSound /\ AllTold /\ WokenSound
      /\ (p \in Sleeper \/ p \in Waiting) /\ ~(p \in Sleeper /\ p \in Waiting)
      /\ task' \in {task, task'} /\ [task EXCEPT ![p] = task[p]] = task
      /\ [pc EXCEPT ![p] = pc[p]] = pc
  BY Kinds DEF IInv, Typed
<1>1. CASE Enter(p)
  <2> DEFINE label == IF condition THEN "out" ELSE "join"
  <2>1. /\ p \in Waiting /\ pc[p] = "call" /\ task[p].runnable /\ p \notin woken
        /\ pc' = [pc EXCEPT ![p] = label]
        /\ UNCHANGED <<task, queue, condition, signal, woken>>
    BY <1>0, <1>1 DEF Enter, Waits, At, Goto, Waiting, WokenSound
  <2>2. StepOf(p, task[p], label, queue) /\ Allowed(p, task[p], label)
    BY <1>0, <2>1 DEF StepOf, Allowed, Typed
  <2>3. Joined(p)' <=> Joined(p)
    BY <1>0, <2>1 DEF Joined, Typed
  <2> QED BY <1>0, <2>2, <2>3, StepAside
<1>2. CASE SetState(p)
  <2> DEFINE t == [task[p] EXCEPT !.state = SleepState(p)]
  <2>1. /\ p \in Waiting /\ pc[p] = "queued" /\ task[p].runnable /\ p \notin woken
        /\ pc' = [pc EXCEPT ![p] = "test"] /\ task' = [task EXCEPT ![p] = t]
        /\ UNCHANGED <<queue, condition, signal, woken>>
    BY <1>0, <1>2 DEF SetState, Waits, At, Goto, Waiting, WokenSound
  <2>2. t \in task_t /\ t.runnable
    BY <1>0, <2>1 DEF SleepState, task_t, TaskState
  <2> HIDE DEF t
  <2>3. StepOf(p, t, "test", queue) /\ Allowed(p, t, "test")
    BY <1>0, <2>1, <2>2 DEF StepOf, Allowed, Typed
  <2>4. Joined(p)' <=> Joined(p)
    BY <1>0, <2>1 DEF Joined, Typed
  <2> QED BY <2>2, <2>3, <2>4, StepAside
<1>3. CASE Test(p)
  <2> DEFINE label == IF condition \/ (p \in Interruptible /\ signal[p]) THEN "finish" ELSE "sched"
  <2>1. /\ p \in Waiting /\ pc[p] = "test" /\ task[p].runnable /\ p \notin woken
        /\ pc' = [pc EXCEPT ![p] = label]
        /\ UNCHANGED <<task, queue, condition, signal, woken>>
    BY <1>0, <1>3 DEF Test, At, Goto, Labels, WokenSound
  <2>2. StepOf(p, task[p], label, queue) /\ Allowed(p, task[p], label)
    BY <1>0, <2>1 DEF StepOf, Allowed, Typed
  <2>3. Joined(p)' <=> Joined(p)
    BY <1>0, <2>1 DEF Joined, Typed
  <2> QED BY <1>0, <2>2, <2>3, StepAside
<1>4. CASE Schedule(p)
  <2> DEFINE t == schedule(task[p], signal[p])
             label == IF Waits(p) THEN "queued" ELSE "remove"
  <2>1. /\ pc[p] = "sched" /\ task[p].runnable /\ pc' = [pc EXCEPT ![p] = label]
        /\ task' = [task EXCEPT ![p] = t]
        /\ UNCHANGED <<queue, condition, signal, woken>>
        /\ label = IF p \in Sleeper THEN "remove" ELSE "queued"
    BY <1>0, <1>4 DEF Schedule, At, Goto, Waits, Waiting
  <2>2. /\ t \in task_t /\ task[p].state = "RUNNING" => t = Awake
        /\ t.state \in {task[p].state, "RUNNING"} /\ (~t.runnable => task[p].state # "RUNNING" /\ t.state = task[p].state)
    BY <1>0 DEF schedule, Awake, task_t, TaskState
  <2>3. /\ t \in task_t /\ Awake.runnable /\ Awake.state = "RUNNING"
        /\ task[p].state \in TaskState
    BY <1>0, <2>1 DEF schedule, Awake, task_t, TaskState
  <2> HIDE DEF t, label
  <2>4. ~t.runnable => t.state \in TASK_NORMAL
    BY <2>2, <2>3 DEF TaskState, TASK_NORMAL
  <2>5. StepOf(p, t, label, queue)
    BY <1>0, <2>1 DEF StepOf, Typed
  <2>6. Allowed(p, t, label)
    <3>1. task[p].state = "RUNNING" => t.runnable /\ t.state = "RUNNING"
      BY <2>2, <2>3
    <3>2. p \in woken' => p \in Sleeper /\ task[p].state = "RUNNING"
      BY <1>0, <2>1 DEF WokenSound, Typed
    <3>3. condition /\ (\A k \in Waker : pc[k] = "idle") /\ p \in Waiting
            => task[p].state = "RUNNING"
      BY <1>0, <2>1 DEF AllTold
    <3> QED BY <1>0, <2>1, <2>4, <3>1, <3>2, <3>3 DEF Allowed
  <2>7. Joined(p)' <=> Joined(p)
    BY <1>0, <2>1 DEF Joined, Typed
  <2> QED BY <2>3, <2>5, <2>6, <2>7, StepAside
<1>5. CASE Finish(p)
  <2> DEFINE t == [task[p] EXCEPT !.state = "RUNNING"]
  <2>1. /\ p \in Waiting /\ pc[p] = "finish" /\ task[p].runnable /\ p \notin woken
        /\ pc' = [pc EXCEPT ![p] = "remove"] /\ task' = [task EXCEPT ![p] = t]
        /\ UNCHANGED <<queue, condition, signal, woken>>
    BY <1>0, <1>5 DEF Finish, At, Goto, Labels, WokenSound
  <2>2. t \in task_t /\ t.runnable
    BY <1>0, <2>1 DEF task_t, TaskState
  <2> HIDE DEF t
  <2>3. StepOf(p, t, "remove", queue) /\ Allowed(p, t, "remove")
    BY <1>0, <2>1, <2>2 DEF StepOf, Allowed, Typed
  <2>4. Joined(p)' <=> Joined(p)
    BY <1>0, <2>1 DEF Joined, Typed
  <2> QED BY <2>2, <2>3, <2>4, StepAside
<1>6. CASE SleepOn(p)
  <2>1. PICK state \in TASK_NORMAL : task' = [task EXCEPT ![p].state = state]
    BY <1>6 DEF SleepOn
  <2> DEFINE t == [task[p] EXCEPT !.state = state]
  <2>2. /\ p \in Sleeper /\ pc[p] = "call" /\ task[p].runnable /\ p \notin woken
        /\ pc' = [pc EXCEPT ![p] = "queued"] /\ task' = [task EXCEPT ![p] = t]
        /\ UNCHANGED <<queue, condition, signal, woken>>
    BY <1>0, <1>6, <2>1 DEF SleepOn, At, Goto, WokenSound
  <2>3. t \in task_t /\ t.runnable
    BY <1>0, <2>2 DEF task_t, TaskState, TASK_NORMAL
  <2> HIDE DEF t
  <2>4. StepOf(p, t, "queued", queue) /\ Allowed(p, t, "queued")
    BY <1>0, <2>2, <2>3 DEF StepOf, Allowed, Typed
  <2>5. Joined(p)' <=> Joined(p)
    BY <1>0, <2>2 DEF Joined, Typed
  <2> QED BY <2>3, <2>4, <2>5, StepAside
<1>7. CASE Again(p)
  <2>1. /\ pc[p] = "out" /\ task[p].runnable /\ p \notin woken
        /\ pc' = [pc EXCEPT ![p] = "call"] /\ signal' = [signal EXCEPT ![p] = FALSE]
        /\ UNCHANGED <<task, queue, condition, woken>>
    BY <1>0, <1>7 DEF Again, At, Goto, WokenSound
  <2>2. StepOf(p, task[p], "call", queue) /\ Allowed(p, task[p], "call")
    BY <1>0, <2>1 DEF StepOf, Allowed, Typed
  <2>3. Joined(p)' <=> Joined(p)
    BY <1>0, <2>1 DEF Joined, Typed
  <2> QED BY <1>0, <2>2, <2>3, StepAside
<1>8. CASE p \in Interruptible /\ Signal(p)
  <2> DEFINE t == IF task[p].state = "INTERRUPTIBLE" THEN Awake ELSE task[p]
  <2>1. /\ p \in Waiting /\ p \notin woken /\ signal' = [signal EXCEPT ![p] = TRUE]
        /\ task' = [task EXCEPT ![p] = t] /\ UNCHANGED <<queue, condition, pc, woken>>
    BY <1>0, <1>8, WaitEventAssumption DEF Signal, try_to_wake_up, Waiting, Typed
  <2>2. t \in task_t /\ (t = task[p] \/ (t.runnable /\ t.state = "RUNNING"))
    BY <1>0 DEF Awake, task_t, TaskState
  <2> HIDE DEF t
  <2>3. StepOf(p, t, pc[p], queue)
    BY <1>0, <2>1 DEF StepOf, Typed
  <2>4. Allowed(p, t, pc[p])
    BY <1>0, <2>1, <2>2 DEF Allowed, Labels, SleepSound, AllTold
  <2>5. Joined(p)' <=> Joined(p)
    BY <1>0, <2>1 DEF Joined
  <2> QED BY <2>2, <2>3, <2>4, <2>5, StepAside
<1> QED BY <1>1, <1>2, <1>3, <1>4, <1>5, <1>6, <1>7, <1>8

\* add_wait_queue(), sleep_on()'s SLEEP_ON_HEAD, and remove_wait_queue().
LEMMA QueueStep ==
    ASSUME IInv, NEW p \in Waiter, JoinQueue(p) \/ SleepOnHead(p) \/ Leave(p)
    PROVE  IInv'
<1>0. /\ Typed /\ task[p] \in task_t /\ Labels /\ AllTold /\ WokenSound
      /\ (p \in Sleeper \/ p \in Waiting) /\ ~(p \in Sleeper /\ p \in Waiting)
      /\ [task EXCEPT ![p] = task[p]] = task
      /\ queue \in Seq(wait_queue_t(Waiter)) /\ Unique(queue) /\ Flags(queue, {FALSE})
      /\ OnQueue(queue, p) <=> Joined(p)
  BY Kinds DEF IInv, Typed, QueueSound
<1>1. ASSUME ~OnQueue(queue, p), Join(p)
      PROVE  /\ queue' \in Seq(wait_queue_t(Waiter)) /\ Unique(queue')
             /\ Flags(queue', {FALSE})
             /\ \A q : OnQueue(queue', q) <=> OnQueue(queue, q) \/ q = p
  <2> DEFINE e == [task |-> p, exclusive |-> FALSE]
  <2>1. e \in wait_queue_t(Waiter) /\ e.task = p /\ e.exclusive = FALSE /\ queue' = <<e>> \o queue
    BY <1>1 DEF wait_queue_t, Join
  <2> HIDE DEF e
  <2> QED BY <1>0, <1>1, <2>1, HeadJoined
<1>2. CASE JoinQueue(p)
  <2>1. /\ pc[p] = "join" /\ task[p].runnable /\ Join(p) /\ pc' = [pc EXCEPT ![p] = "queued"]
        /\ UNCHANGED <<task, condition, signal, woken>> /\ p \in Waiting /\ p \notin woken
    BY <1>0, <1>2 DEF JoinQueue, At, Goto, Labels, WokenSound
  <2>2. ~OnQueue(queue, p)
    BY <1>0, <2>1 DEF Joined
  <2>3. StepOf(p, task[p], "queued", queue') /\ Allowed(p, task[p], "queued")
    BY <1>0, <2>1 DEF StepOf, Allowed, Typed
  <2>4. Joined(p)'
    BY <1>0, <2>1 DEF Joined, Typed
  <2>5. PICK q2 : q2 = queue'
    OBVIOUS
  <2> QED BY <1>0, <1>1, <2>1, <2>2, <2>3, <2>4, <2>5, Step
<1>3. CASE SleepOnHead(p)
  <2>1. /\ p \in Sleeper /\ pc[p] = "queued" /\ task[p].runnable /\ Join(p)
        /\ pc' = [pc EXCEPT ![p] = "sched"]
        /\ UNCHANGED <<task, condition, signal, woken>> /\ p \notin woken
    BY <1>0, <1>3 DEF SleepOnHead, At, Goto, WokenSound
  <2>2. ~OnQueue(queue, p)
    BY <1>0, <2>1 DEF Joined
  <2>3. StepOf(p, task[p], "sched", queue') /\ Allowed(p, task[p], "sched")
    BY <1>0, <2>1, Kinds DEF StepOf, Allowed, Typed
  <2>4. Joined(p)'
    BY <1>0, <2>1 DEF Joined, Typed
  <2>5. PICK q2 : q2 = queue'
    OBVIOUS
  <2> QED BY <1>0, <1>1, <2>1, <2>2, <2>3, <2>4, <2>5, Step
<1>4. CASE Leave(p)
  <2>1. /\ pc[p] = "remove" /\ task[p].runnable /\ pc' = [pc EXCEPT ![p] = "out"]
        /\ queue' = remove_wait_queue(queue, p) /\ woken' = woken \ {p}
        /\ UNCHANGED <<task, condition, signal>>
    BY <1>4 DEF Leave, At, Goto
  <2>2. OnQueue(queue, p)
    BY <1>0, <2>1 DEF Joined
  <2>3. /\ queue' \in Seq(wait_queue_t(Waiter)) /\ Unique(queue')
        /\ Flags(queue', {FALSE})
        /\ \A q : OnQueue(queue', q) <=> OnQueue(queue, q) /\ q # p
    BY <1>0, <2>1, <2>2, EntryRemoved DEF remove_wait_queue
  <2>4. StepOf(p, task[p], "out", queue') /\ Allowed(p, task[p], "out")
    BY <1>0, <2>1 DEF StepOf, Allowed, Typed
  <2>5. ~Joined(p)'
    BY <1>0, <2>1 DEF Joined, Typed
  <2>6. PICK q2 : q2 = queue'
    OBVIOUS
  <2> QED BY <1>0, <2>1, <2>3, <2>4, <2>5, <2>6, Step
<1> QED BY <1>2, <1>3, <1>4

\* wake_up() leaves everybody on the queue awake.
LEMMA WakerStep ==
    ASSUME IInv, NEW k \in Waker, Produce(k) \/ WakeUp(k)
    PROVE  IInv'
<1>0. Typed /\ Labels /\ QueueSound /\ SleepSound /\ AllTold /\ WokenSound
  BY DEF IInv
<1>1. CASE Produce(k)
  <2>1. /\ condition' = TRUE /\ pc' = [pc EXCEPT ![k] = "wake"] /\ pc'[k] = "wake"
        /\ UNCHANGED <<task, queue, signal, woken>>
        /\ \A p \in Waiter \cup Waker : p # k => pc'[p] = pc[p]
        /\ \A p \in Waiter : pc'[p] = pc[p]
    BY <1>0, <1>1, Kinds DEF Produce, Goto, Typed
  <2>2. Typed'
    BY <1>0, <2>1 DEF Typed
  <2>3. Labels' /\ AllTold'
    BY <1>0, <2>1, Kinds DEF Labels, AllTold
  <2>4. QueueSound'
    BY <1>0, <2>1 DEF QueueSound, Joined
  <2>5. SleepSound' /\ WokenSound'
    BY <1>0, <2>1, Kinds DEF SleepSound, WokenSound, Typed
  <2> QED BY <2>2, <2>3, <2>4, <2>5 DEF IInv
<1>2. CASE WakeUp(k)
  <2>1. PICK nr \in {0, 1} : task' = wake_up_common(queue, task, TASK_NORMAL, nr)
    BY <1>2 DEF WakeUp
  <2>2. /\ pc' = [pc EXCEPT ![k] = "idle"] /\ woken' = woken \cup (Sleeper \cap Queued)
        /\ UNCHANGED <<queue, condition, signal>>
        /\ \A p \in Waiter \cup Waker : p # k => pc'[p] = pc[p]
        /\ \A p \in Waiter : pc'[p] = pc[p]
    BY <1>0, <1>2, Kinds DEF WakeUp, Goto, Typed
  <2>3. ASSUME NEW p \in Waiter
        PROVE  task'[p] = IF Joined(p) /\ task[p].state \in TASK_NORMAL THEN Awake ELSE task[p]
    <3>1. p \in DOMAIN task /\ (OnQueue(queue, p) <=> Joined(p))
      BY <1>0 DEF Typed, QueueSound
    <3>2. queue \in Seq(wait_queue_t(Waiter)) /\ Flags(queue, {FALSE})
      BY <1>0 DEF Typed, QueueSound
    <3>3. wake_up_common(queue, task, TASK_NORMAL, nr)[p]
            = IF OnQueue(queue, p) /\ task[p].state \in TASK_NORMAL THEN Awake ELSE task[p]
      BY <3>1, <3>2, AllWoken
    <3> QED BY <2>1, <3>1, <3>3
  <2>4. /\ Awake \in task_t /\ Awake.runnable /\ Awake.state = "RUNNING"
        /\ \A s \in TaskState : s \notin TASK_NORMAL => s = "RUNNING"
    BY DEF Awake, task_t, TaskState, TASK_NORMAL
  <2>5. DOMAIN task' = Waiter
    BY <1>0, <2>1 DEF wake_up_common, Typed
  <2>6. Typed'
    <3>1. \A p \in Waiter : task'[p] \in task_t
      BY <1>0, <2>3, <2>4 DEF Typed
    <3>2. task' = [p \in DOMAIN task |-> task'[p]]
      BY <1>0, <2>1, <2>5 DEF wake_up_common, Typed
    <3>3. task' \in [Waiter -> task_t]
      BY <1>0, <3>1, <3>2 DEF Typed
    <3>4. woken' \subseteq Sleeper /\ pc' \in [Waiter \cup Waker ->
                 {"call", "join", "queued", "test", "sched", "finish", "remove", "out", "idle", "wake"}]
      BY <1>0, <2>2 DEF Typed
    <3> QED BY <1>0, <2>2, <3>3, <3>4 DEF Typed
  <2>7. Labels'
    BY <1>0, <2>2, Kinds DEF Labels
  <2>8. QueueSound'
    BY <1>0, <2>2 DEF QueueSound, Joined
  <2>9. ASSUME NEW p \in Waiter, Joined(p)
        PROVE  task'[p].state = "RUNNING" /\ (task[p].runnable => task'[p].runnable)
               /\ task'[p].runnable
    <3>1. task[p] \in task_t /\ task[p].state \in TaskState
      BY <1>0 DEF Typed, task_t
    <3>2. ~task[p].runnable => task[p].state \in TASK_NORMAL
      BY <1>0 DEF SleepSound
    <3> QED BY <2>3, <2>4, <2>9, <3>1, <3>2
  <2>10. SleepSound'
    <3> SUFFICES ASSUME NEW p \in Waiter, ~task'[p].runnable
                 PROVE  /\ task'[p].state \in TASK_NORMAL
                        /\ pc'[p] = IF p \in Sleeper THEN "remove" ELSE "queued"
      BY DEF SleepSound
    <3>1. task'[p] = task[p]
      BY <2>3, <2>4
    <3> QED BY <3>1, <1>0, <2>2 DEF SleepSound
  <2>11. AllTold'
    <3> SUFFICES ASSUME NEW p \in Waiting
                 PROVE  task'[p].runnable /\ (pc'[p] = "sched" => task'[p].state = "RUNNING")
      BY DEF AllTold
    <3>1. p \in Waiter /\ p \notin Sleeper
      BY Kinds
    <3>2. CASE Joined(p)
      BY <2>9, <3>1, <3>2
    <3>3. CASE ~Joined(p)
      <4>1. pc[p] # "queued" /\ pc[p] # "sched"
        BY <3>1, <3>3 DEF Joined
      <4>2. task[p].runnable /\ task'[p] = task[p]
        BY <3>1, <3>3, <4>1, <2>3, <1>0 DEF SleepSound
      <4> QED BY <4>1, <4>2, <3>1, <2>2
    <3> QED BY <3>2, <3>3
  <2>12. WokenSound'
    <3> SUFFICES ASSUME NEW p \in woken'
                 PROVE  /\ pc'[p] \in {"sched", "remove"}
                        /\ task'[p].state = "RUNNING" /\ task'[p].runnable
      BY DEF WokenSound
    <3>1. p \in Waiter /\ p \in Sleeper
      BY <1>0, <2>2, Kinds DEF Typed
    <3>2. Joined(p)
      <4>1. CASE p \in woken
        BY <4>1, <3>1, <1>0 DEF WokenSound, Joined
      <4>2. CASE p \in Queued
        BY <4>2, <3>1, <1>0 DEF Queued, OnQueue, QueueSound
      <4> QED BY <4>1, <4>2, <2>2
    <3> QED BY <3>1, <3>2, <2>2, <2>9 DEF Joined
  <2> QED BY <2>6, <2>7, <2>8, <2>10, <2>11, <2>12 DEF IInv
<1> QED BY <1>1, <1>2

\* The invariant holds at first,
LEMMA InitInv == Init => IInv
<1> SUFFICES ASSUME Init
             PROVE  IInv
  OBVIOUS
<1>1. /\ task = [p \in Waiter |-> Awake] /\ queue = << >> /\ condition = FALSE
      /\ signal = [p \in Waiter |-> FALSE] /\ woken = {}
      /\ pc = [p \in Waiter \cup Waker |-> IF p \in Waiter THEN "call" ELSE "idle"]
  BY DEF Init
<1>2. /\ Awake \in task_t /\ Awake.runnable
      /\ << >> \in Seq(wait_queue_t(Waiter)) /\ Len(<< >>) = 0
  BY DEF Awake, task_t, TaskState
<1>3. /\ \A p \in Waiter : pc[p] = "call" /\ task[p].runnable
      /\ \A k \in Waker : pc[k] = "idle"
  BY <1>1, <1>2, Kinds
<1>4. Typed
  BY <1>1, <1>2 DEF Typed
<1>5. Labels /\ SleepSound /\ AllTold /\ WokenSound
  BY <1>1, <1>3, Kinds DEF Labels, SleepSound, AllTold, WokenSound
<1>6. QueueSound
  <2>1. Unique(queue) /\ Flags(queue, {FALSE}) /\ \A p : ~OnQueue(queue, p)
    BY <1>1, <1>2 DEF Unique, Flags, OnQueue
  <2> QED BY <2>1, <1>3 DEF QueueSound, Joined
<1> QED BY <1>4, <1>5, <1>6 DEF IInv

\* and every step keeps it.
LEMMA Inductive == IInv /\ [Next]_vars => IInv'
<1> SUFFICES ASSUME IInv, [Next]_vars
             PROVE  IInv'
  OBVIOUS
<1>1. CASE UNCHANGED vars \/ Consume
  <2>1. /\ UNCHANGED <<task, queue, signal, pc, woken>>
        /\ condition' = condition \/ condition' = FALSE
    BY <1>1 DEF vars, Consume
  <2>2. Typed' /\ Labels' /\ SleepSound' /\ WokenSound'
    BY <2>1 DEF IInv, Typed, Labels, SleepSound, WokenSound
  <2>4. AllTold'
    <3>1. CASE condition' = FALSE
      BY <3>1 DEF AllTold
    <3>2. CASE condition' = condition
      BY <3>2, <2>1 DEF IInv, AllTold
    <3> QED BY <2>1, <3>1, <3>2
  <2>3. QueueSound'
    BY <2>1 DEF IInv, QueueSound, Joined
  <2> QED BY <2>2, <2>3, <2>4 DEF IInv
<1>2. ASSUME NEW p \in Waiter,
             \/ Enter(p) \/ JoinQueue(p) \/ SetState(p) \/ Test(p) \/ Schedule(p)
             \/ Finish(p) \/ Leave(p) \/ SleepOn(p) \/ SleepOnHead(p) \/ Again(p)
      PROVE  IInv'
  BY <1>2, WaiterStep, QueueStep
<1>3. ASSUME NEW p \in Interruptible, Signal(p)
      PROVE  IInv'
  BY <1>3, WaiterStep DEF Waiter
<1>4. ASSUME NEW k \in Waker, Produce(k) \/ WakeUp(k)
      PROVE  IInv'
  BY <1>4, WakerStep
<1> QED BY <1>1, <1>2, <1>3, <1>4 DEF Next

\* The inductive invariant is one.
LEMMA Invariant == Spec => []IInv
BY InitInv, Inductive, PTL DEF Spec

-----------------------------------------------------------------------------
(* The results.                                                            *)

\* Every variable keeps its type, and no task has two entries on the queue.
THEOREM WaitEventTypeCorrect == Spec => []TypeOK
<1>1. IInv => TypeOK
  BY UniqueInjective DEF IInv, Typed, QueueSound, TypeOK
<1> QED BY <1>1, Invariant, PTL

\* When the condition is true and everyone who made it true has called
\* wake_up(), nobody who waits for it in wait_event() is asleep.
THEOREM NoWakeupIsLost == Spec => []NoLostWakeup
<1>1. IInv => NoLostWakeup
  BY DEF IInv, AllTold, NoLostWakeup, Asleep, Waiting
<1> QED BY <1>1, Invariant, PTL

\* Whoever is on the queue of sleep_on() when wake_up() is called is awake
\* until it has left.
THEOREM SleepersAreWoken == Spec => []SleepOnIsWoken
<1>1. IInv => SleepOnIsWoken
  BY DEF IInv, WokenSound, SleepOnIsWoken
<1> QED BY <1>1, Invariant, PTL
==============================================================================
