-------------------------------- MODULE Sched --------------------------------
(***************************************************************************)
(* The uniprocessor O(1) scheduler of sched.c with the SCHED_SHORT policy, *)
(* and the parts of fork.c, hw2_syscalls.c and entry.S that share its      *)
(* state.  One task holds the CPU (rq->curr).  It enters the kernel by a   *)
(* system call, the kernel is not preemptive, and interrupts (the timer    *)
(* tick, a wakeup) arrive between any two steps whose code does not run    *)
(* with interrupts disabled.                                               *)
(*                                                                         *)
(* The kernel code is written as functions of the kernel state             *)
(*     S = [task |-> ..., rq |-> ...]                                      *)
(* so that a handler that calls several functions is their composition.    *)
(***************************************************************************)
EXTENDS PrioArray

CONSTANTS
    Idle,            \* the swapper, rq->idle
    Reaper,          \* init: adopts orphans, never exits
    InitTasks,       \* the tasks that exist when the model starts
    MAX_RT_PRIO,     \* levels below this are real-time
    DefaultPrio,     \* static_prio of the initial tasks (nice 0)
    MIN_TIMESLICE,   \* in ticks
    MAX_TIMESLICE,   \* in ticks
    HZ,              \* ticks per second
    UINT,            \* number of values of an unsigned int
    Bonuses,         \* the dynamic bonuses sleep_avg can be worth
    ReqTimes,        \* values of sched_param.requested_time tried, in ms
    Workload         \* which system calls and interrupt windows occur

\* The names Workload is drawn from.
Features == {"sleep", "short", "normal", "nice", "yield", "exit", "fork",
             "clone_parent", "fork_block", "irq_in_copy", "irq_in_split"}

\* The value of child[p] when p is not in do_fork().
NoChild == "NoChild"

ASSUME SchedAssumption ==
    /\ Idle \notin Task /\ NoChild \notin Task
    /\ InitTasks \subseteq Task /\ Reaper \in InitTasks
    /\ MAX_RT_PRIO \in Nat \ {0} /\ MAX_RT_PRIO + 1 < MAX_PRIO
    /\ DefaultPrio \in MAX_RT_PRIO .. MAX_PRIO - 1
    /\ MIN_TIMESLICE \in Nat \ {0} /\ MAX_TIMESLICE \in Nat
    /\ MIN_TIMESLICE <= MAX_TIMESLICE
    /\ HZ \in Nat \ {0}
    /\ UINT \in Nat /\ MAX_TIMESLICE < UINT /\ 6 * HZ < UINT
    /\ Bonuses \subseteq Int
    /\ ReqTimes \subseteq Int
    /\ Workload \subseteq Features

AllTask == Task \cup {Idle}
UserPrio == MAX_RT_PRIO .. MAX_PRIO - 1
OVERDUE_PRIO == MAX_PRIO - 1

State  == {"RUNNING", "INTERRUPTIBLE", "UNINTERRUPTIBLE", "ZOMBIE", "UNUSED"}
Policy == {"OTHER", "FIFO", "RR", "SHORT"}
KernelStep == {"user", "kernel", "fork_copied", "fork_split"}

VARIABLES
    task,    \* the task_structs
    rq,      \* the runqueue
    pc,      \* how far each task is in its current system call; the idle loop
             \* counts as user code
    child    \* the task a task in do_fork() is building

vars == <<task, rq, pc, child>>

task_struct ==
    [state : State, policy : Policy, prio : 0 .. MAX_PRIO, static_prio : Prio,
     array : ArrayId \cup {NULL}, time_slice : 0 .. UINT - 1, first_time_slice : BOOLEAN,
     need_resched : BOOLEAN, p_opptr : AllTask, requestedTime : Int, iAmOverdue : BOOLEAN,
     iWasShort : BOOLEAN, overdue_static_prio : Prio, justGotForked : BOOLEAN]

(***************************************************************************)
(* misfiled records that some dequeue_task(p, array) named an array that p *)
(* was not on; from then on a bitmap and two counters are wrong.  panic    *)
(* stops the model where the C code dereferences a pointer that is not a   *)
(* task ("list") or executes BUG() ("BUG").  Neither exists in the code.   *)
(***************************************************************************)
runqueue ==
    [curr : AllTask, nr_running : Int, nr_uninterruptible : Int,
     active : {"array0", "array1"}, arrays : [ArrayId -> prio_array],
     misfiled : BOOLEAN, panic : {"none", "list", "BUG"}]

TypeOK ==
    /\ task \in [AllTask -> task_struct]
    /\ rq \in runqueue
    /\ pc \in [AllTask -> KernelStep]
    /\ child \in [Task -> Task \cup {NoChild}]

-----------------------------------------------------------------------------
(* Predicates on a task_struct t, and the numbers derived from one.        *)

rt_task(t) == t.prio < MAX_RT_PRIO
short_task(t) == t.policy = "SHORT" /\ ~t.iAmOverdue
overdue_task(t) == t.policy = "SHORT" /\ t.iAmOverdue
other_task(t) == t.policy = "OTHER"

TASK_TIMESLICE(t) ==
    MIN_TIMESLICE + ((MAX_TIMESLICE - MIN_TIMESLICE) * (MAX_PRIO - 1 - t.static_prio))
                        \div (MAX_PRIO - MAX_RT_PRIO - 1)

OS_TASK_TIMESLICE(t) ==
    ( IF short_task(t) THEN t.requestedTime
      ELSE IF overdue_task(t) THEN 2 * t.requestedTime
      ELSE TASK_TIMESLICE(t) ) % UINT

\* C division truncates towards zero.
CHANGE_MS_TO_JIFFIS(ms) ==
    IF ms >= 0 THEN (ms * HZ) \div 1000 ELSE - ((- ms * HZ) \div 1000)

\* bonus stands for the scaled sleep_avg.
effective_prio(t, bonus) ==
    IF short_task(t) THEN t.static_prio
    ELSE IF overdue_task(t) THEN OVERDUE_PRIO
    ELSE LET prio == t.static_prio - bonus
         IN  IF prio < MAX_RT_PRIO THEN MAX_RT_PRIO
             ELSE IF prio > MAX_PRIO - 1 THEN MAX_PRIO - 1 ELSE prio

\* The priorities activate_task() can give t: it leaves the priority alone
\* for a real-time task and when t has not slept for a whole tick.
activate_prios(t) ==
    {t.prio} \cup (IF rt_task(t) THEN {} ELSE {effective_prio(t, b) : b \in Bonuses})

expired(S) == IF S.rq.active = "array0" THEN "array1" ELSE "array0"

pointer_to_my_active_prio_array(t, S) ==
    IF short_task(t) \/ rt_task(t) THEN "rt_short"
    ELSE IF overdue_task(t) THEN "overdue"
    ELSE S.rq.active

-----------------------------------------------------------------------------
(* Moving tasks between the arrays.                                        *)

\* S with another task_struct for p, and with another runqueue.
put_task(S, p, t) == [task |-> [S.task EXCEPT ![p] = t], rq |-> S.rq]
put_rq(S, r) == [task |-> S.task, rq |-> r]

set_need_resched(S) ==
    put_task(S, S.rq.curr, [S.task[S.rq.curr] EXCEPT !.need_resched = TRUE])

\* dequeue_task() of a task that is on no list follows stale list pointers.
dequeue_task(S, p, array) ==
    LET t == S.task[p] IN
    IF t.array = NULL
    THEN put_rq(S, [S.rq EXCEPT !.panic = "list", !.misfiled = TRUE])
    ELSE put_rq(S, [S.rq EXCEPT !.arrays = array_dequeue(@, t.array, array, t.prio, p),
                                !.misfiled = @ \/ t.array # array])

\* The end of enqueue_task(): p is linked on its list, which becomes q.
enqueue_with(S, p, array, q) ==
    LET S1 == put_task(S, p, [S.task[p] EXCEPT !.array = array])
    IN  put_rq(S1, [S.rq EXCEPT !.arrays = array_enqueue(@, array, S.task[p].prio, q)])

list_of(S, p, array) == S.rq.arrays[array].queue[S.task[p].prio]

enqueue_head(S, p, array) == enqueue_with(S, p, array, list_add(list_of(S, p, array), p))
enqueue_tail(S, p, array) == enqueue_with(S, p, array, list_add_tail(list_of(S, p, array), p))

\* The condition under which enqueue_task() puts p at the head of its list,
\* right after moving the flagged parent of p to the tail.
forked_by_short(S, p) ==
    /\ S.task[S.rq.curr].policy = "SHORT"
    /\ S.task[S.rq.curr].justGotForked
    /\ ~S.task[p].iAmOverdue
    /\ S.task[S.task[p].p_opptr].justGotForked

\* The nested dequeue_task() of the parent, its flag cleared.
dequeue_parent(S, p, array) ==
    LET parent == S.task[p].p_opptr
    IN  dequeue_task(put_task(S, parent, [S.task[parent] EXCEPT !.justGotForked = FALSE]),
                     parent, array)

\* Mutant: the child goes behind its parent.
enqueue_child_last(S1, S2, p, array) ==
    IF S1.rq.panic # "none" THEN S1 ELSE enqueue_tail(S2, p, array)

\* S1 is dequeue_parent(), S2 the nested enqueue_task() after it.
enqueue_child(S1, S2, p, array) ==
    IF S1.rq.panic # "none" THEN S1 ELSE enqueue_head(S2, p, array)

\* enqueue_task() calls itself for the parent as long as the parents are flagged
\* (justGotForked).  Two generations of flagged ancestors are followed; a third
\* is queued like a task whose parent is not flagged.  That is the code for any
\* three tasks, and for any number of them as long as no three ancestors in a
\* row are flagged, which takes flags left behind by clones with CLONE_PARENT.
enqueue_ancestor(S, p, array) ==
    LET S1 == dequeue_parent(S, p, array)
        S2 == enqueue_tail(S1, S.task[p].p_opptr, array)
    IN  IF forked_by_short(S, p) THEN enqueue_child(S1, S2, p, array)
        ELSE enqueue_tail(S, p, array)

enqueue_task(S, p, array) ==
    LET S1 == dequeue_parent(S, p, array)
        S2 == enqueue_ancestor(S1, S.task[p].p_opptr, array)
    IN  IF forked_by_short(S, p) THEN enqueue_child(S1, S2, p, array)
        ELSE enqueue_tail(S, p, array)

\* k is the priority chosen from activate_prios().
activate_task(S, p, k) ==
    LET array == pointer_to_my_active_prio_array(S.task[p], S)
        S1 == enqueue_task(put_task(S, p, [S.task[p] EXCEPT !.prio = k]), p, array)
    IN  put_rq(S1, [S1.rq EXCEPT !.nr_running = @ + 1])

\* What t adds to nr_uninterruptible while it is off the runqueue.
uninterruptible(t) == IF t.state = "UNINTERRUPTIBLE" THEN 1 ELSE 0

\* Mutant: the task keeps its place in nr_running.
deactivate_task_uncounted(S, p) ==
    LET r  == [S.rq EXCEPT !.nr_uninterruptible = @ + uninterruptible(S.task[p])]
        S2 == dequeue_task(put_rq(S, r), p, S.task[p].array)
    IN  put_task(S2, p, [S2.task[p] EXCEPT !.array = NULL])

deactivate_task(S, p) ==
    LET r  == [S.rq EXCEPT !.nr_running = @ - 1,
                           !.nr_uninterruptible = @ + uninterruptible(S.task[p])]
        S2 == dequeue_task(put_rq(S, r), p, S.task[p].array)
    IN  put_task(S2, p, [S2.task[p] EXCEPT !.array = NULL])

set_running(S, p) == put_task(S, p, [S.task[p] EXCEPT !.state = "RUNNING"])

\* Mutant: nr_uninterruptible drops for a task that has not left the runqueue yet.
try_to_wake_up_early(S, p, k) ==
    LET r  == [S.rq EXCEPT !.nr_uninterruptible = @ - uninterruptible(S.task[p])]
        S1 == put_rq(S, r)
        S2 == activate_task(S1, p, k)
    IN  set_running(IF S.task[p].array # NULL THEN S1 ELSE S2, p)

try_to_wake_up(S, p, k) ==
    LET r  == [S.rq EXCEPT !.nr_uninterruptible = @ - uninterruptible(S.task[p])]
        S1 == put_rq(S, r)
        S2 == activate_task(S1, p, k)
        better == S2.task[p].prio < S2.task[S2.rq.curr].prio
    IN  IF S.task[p].array # NULL THEN set_running(S, p)
        ELSE set_running(IF better THEN set_need_resched(S2) ELSE S2, p)

-----------------------------------------------------------------------------
(* The timer interrupt.                                                    *)

\* Mutant: an overdue task does not get its static priority back; and a
\* SHORT task starts again instead of turning overdue.
lapse_keeps_prio(t) ==
    IF overdue_task(t)
    THEN [t EXCEPT !.policy = "OTHER", !.iAmOverdue = FALSE, !.requestedTime = 0]
    ELSE IF short_task(t)
    THEN [t EXCEPT !.iAmOverdue = TRUE, !.overdue_static_prio = t.static_prio,
                   !.static_prio = OVERDUE_PRIO]
    ELSE t

\* Mutant: the static priority is saved after it is overwritten.
lapse_saves_late(t) ==
    IF overdue_task(t)
    THEN [t EXCEPT !.policy = "OTHER", !.iAmOverdue = FALSE,
                   !.static_prio = t.overdue_static_prio, !.requestedTime = 0]
    ELSE IF short_task(t)
    THEN [t EXCEPT !.iAmOverdue = TRUE, !.overdue_static_prio = OVERDUE_PRIO,
                   !.static_prio = OVERDUE_PRIO]
    ELSE t

\* Mutant: nobody changes class.
lapse_never(t) == t

\* A SHORT task that used its time up becomes overdue; an overdue task that
\* used its time up becomes an OTHER task again.
lapse(t) ==
    IF overdue_task(t)
    THEN [t EXCEPT !.policy = "OTHER", !.iAmOverdue = FALSE,
                   !.static_prio = t.overdue_static_prio, !.requestedTime = 0]
    ELSE IF short_task(t)
    THEN [t EXCEPT !.iAmOverdue = TRUE, !.overdue_static_prio = t.static_prio,
                   !.static_prio = OVERDUE_PRIO]
    ELSE t

\* The task_struct scheduler_tick() leaves when the time slice reached zero.
refill(t, bonus) ==
    LET u == lapse(t)
    IN  [u EXCEPT !.prio = effective_prio(u, bonus), !.first_time_slice = FALSE,
                  !.time_slice = OS_TASK_TIMESLICE(u), !.need_resched = TRUE]

spend_tick(S, p) == put_task(S, p, [S.task[p] EXCEPT !.time_slice = (@ - 1) % UINT])

\* The time slice of an RR task ran out: a new slice, at the end of its list.
requeue_rr(S, p) ==
    LET t == [S.task[p] EXCEPT !.time_slice = TASK_TIMESLICE(S.task[p]) % UINT,
                               !.first_time_slice = FALSE, !.need_resched = TRUE]
        array == pointer_to_my_active_prio_array(S.task[p], S)
    IN  enqueue_task(dequeue_task(put_task(S, p, t), p, array), p, array)

\* Mutant: the array is chosen before the task_struct is updated.
expire_same_array(S, p, bonus, toExpired) ==
    LET array == pointer_to_my_active_prio_array(S.task[p], S)
        S1 == dequeue_task(S, p, array)
        u  == refill(S.task[p], bonus)
    IN  enqueue_task(put_task(S1, p, u), p,
                     IF other_task(u) /\ toExpired THEN expired(S) ELSE array)

\* toExpired: the task is not interactive, or the expired tasks are starving.
expire(S, p, bonus, toExpired) ==
    LET S1 == dequeue_task(S, p, pointer_to_my_active_prio_array(S.task[p], S))
        u  == refill(S.task[p], bonus)
        S2 == put_task(S1, p, u)
    IN  enqueue_task(S2, p, IF other_task(u) /\ toExpired THEN expired(S2)
                            ELSE pointer_to_my_active_prio_array(u, S2))

scheduler_tick(S, bonus, toExpired) ==
    LET p == S.rq.curr
        t == S.task[p]
        S1 == spend_tick(S, p)
    IN  IF p = Idle THEN S
        ELSE IF t.array = expired(S) THEN set_need_resched(S)
        ELSE IF rt_task(t) /\ t.policy # "RR" THEN S
        ELSE IF S1.task[p].time_slice # 0 THEN S1
        ELSE IF rt_task(t) THEN requeue_rr(S1, p)
        ELSE expire(S1, p, bonus, toExpired)

-----------------------------------------------------------------------------
(* schedule().                                                             *)

\* Mutant: a pending signal keeps any task on the runqueue.
put_prev_any(S, pending) ==
    LET prev == S.rq.curr IN
    IF S.task[prev].state = "RUNNING" \/ pending THEN S ELSE deactivate_task(S, prev)

\* The switch on prev->state; pending: a signal is pending for prev.
put_prev(S, pending) ==
    LET prev == S.rq.curr IN
    IF S.task[prev].state = "RUNNING" THEN S
    ELSE IF S.task[prev].state = "INTERRUPTIBLE" /\ pending
    THEN set_running(S, prev)
    ELSE deactivate_task(S, prev)

\* Mutants of pick_array: the wrong order, and the last case forgotten.
pick_array_other_first(S) ==
    IF S.rq.arrays[S.rq.active].nr_active # 0 THEN S.rq.active
    ELSE IF S.rq.arrays["rt_short"].nr_active # 0 THEN "rt_short"
    ELSE IF S.rq.arrays[expired(S)].nr_active # 0 THEN expired(S)
    ELSE "overdue"

pick_array_no_overdue(S) ==
    IF S.rq.arrays["rt_short"].nr_active # 0 THEN "rt_short"
    ELSE IF S.rq.arrays[S.rq.active].nr_active # 0 THEN S.rq.active
    ELSE expired(S)

\* The array the next task is taken from.
pick_array(S) ==
    IF S.rq.arrays["rt_short"].nr_active # 0 THEN "rt_short"
    ELSE IF S.rq.arrays[S.rq.active].nr_active # 0 THEN S.rq.active
    ELSE IF S.rq.arrays[expired(S)].nr_active # 0 THEN expired(S)
    ELSE "overdue"

\* Bit MAX_PRIO is the delimiter; its "list" and an empty one hold no task.
pick_list(S) ==
    LET array == S.rq.arrays[pick_array(S)]
        idx == sched_find_first_bit(array.bitmap)
    IN  IF idx \in Prio THEN array.queue[idx] ELSE << >>

pick_next(S) ==
    IF S.rq.nr_running = 0 THEN put_rq(S, [S.rq EXCEPT !.curr = Idle])
    ELSE IF pick_list(S) = << >> THEN put_rq(S, [S.rq EXCEPT !.panic = "list"])
    ELSE put_rq(S, [S.rq EXCEPT !.curr = Head(pick_list(S)),
                                !.active = IF pick_array(S) = expired(S) THEN expired(S) ELSE @])

schedule(S, pending) ==
    LET prev == S.rq.curr
        S1 == put_prev(S, pending)
    IN  pick_next(put_task(S1, prev, [S1.task[prev] EXCEPT !.need_resched = FALSE]))

-----------------------------------------------------------------------------
(* System calls that change scheduling parameters.                         *)

\* Mutant: a renewal for exactly the time already used is accepted.
renewal_allowed_equal(t, ms) ==
    /\ ms <= 3000
    /\ CHANGE_MS_TO_JIFFIS(ms) % UINT >= (t.requestedTime - t.time_slice) % UINT

\* requested_time <= 3000 and more than the time already used, compared as
\* unsigned ints because time_slice is one.
renewal_allowed(t, ms) ==
    /\ ms <= 3000
    /\ CHANGE_MS_TO_JIFFIS(ms) % UINT > (t.requestedTime - t.time_slice) % UINT

request_allowed(ms) == ms <= 3000 /\ CHANGE_MS_TO_JIFFIS(ms) >= 1

\* Mutant: a renewal starts a new slice.
renew_short_afresh(S, p, ms) ==
    LET j == CHANGE_MS_TO_JIFFIS(ms)
    IN  set_need_resched(put_task(S, p, [S.task[p] EXCEPT !.requestedTime = j,
                                                          !.time_slice = j % UINT]))

\* setscheduler() on a task that is SCHED_SHORT already.
renew_short(S, p, ms) ==
    LET j == CHANGE_MS_TO_JIFFIS(ms)
        t == S.task[p]
    IN  set_need_resched(put_task(S, p,
            [t EXCEPT !.requestedTime = j,
                      !.time_slice = (@ + j - t.requestedTime) % UINT]))

\* Mutant: the task is not put back.
reactivate_lost(S, p, t, k) ==
    IF S.task[p].array = NULL THEN put_task(S, p, t)
    ELSE put_task(deactivate_task(S, p), p, [t EXCEPT !.array = NULL])

\* deactivate_task(), change the task_struct, activate_task(); only the
\* change when p is not runnable.
reactivate(S, p, t, k) ==
    IF S.task[p].array = NULL THEN put_task(S, p, t)
    ELSE activate_task(put_task(deactivate_task(S, p), p, [t EXCEPT !.array = NULL]), p, k)

as_short(t, ms) ==
    [t EXCEPT !.policy = "SHORT", !.requestedTime = CHANGE_MS_TO_JIFFIS(ms),
              !.iWasShort = TRUE, !.time_slice = CHANGE_MS_TO_JIFFIS(ms) % UINT]

make_short(S, p, ms, k) == set_need_resched(reactivate(S, p, as_short(S.task[p], ms), k))

\* prio is MAX_USER_RT_PRIO-1 - rt_priority for a real-time policy.
as_normal(t, policy, prio) ==
    [t EXCEPT !.policy = policy, !.prio = IF policy = "OTHER" THEN t.static_prio ELSE prio]

\* set_user_nice() with nice converted by NICE_TO_PRIO.
set_user_nice(S, p, static) ==
    LET t == S.task[p]
        u == [t EXCEPT !.static_prio = static, !.prio = static]
        S1 == enqueue_task(put_task(dequeue_task(S, p, t.array), p, u), p, t.array)
    IN  IF t.static_prio = static THEN S
        ELSE IF rt_task(t) THEN put_task(S, p, [t EXCEPT !.static_prio = static])
        ELSE IF overdue_task(t) THEN put_task(S, p, [t EXCEPT !.overdue_static_prio = static])
        ELSE IF t.array = NULL THEN put_task(S, p, u)
        ELSE IF p = S.rq.curr THEN set_need_resched(S1) ELSE S1

\* Mutant: one level below, whether or not it has a list.
yield_level_next(bitmap, prio) == prio + 1

\* sys_sched_yield() up to its call of schedule().  A real-time task goes to
\* the tail.  Any other goes behind the first task of its list, or if it is
\* alone there, behind the first task of the next non-empty list; only the
\* bitmap changes with it, not nr_active.
yield_level(bitmap, prio) ==
    LET i == sched_find_first_bit(bitmap \ {prio})
    IN  IF i = MAX_PRIO \/ i <= prio THEN prio ELSE i

\* p moves to list k of its array, which becomes q.
yield_to(S, p, k, bitmap, q) ==
    LET t == S.task[p]
        arrays1 == unlink(S.rq.arrays, t.array, t.prio, p)
    IN  put_rq(put_task(S, p, [t EXCEPT !.prio = k]),
               [S.rq EXCEPT !.arrays = array_relink(arrays1, t.array, k, bitmap, q)])

yield(S, p) ==
    LET t == S.task[p]
        array == S.rq.arrays[t.array]
        others(k) == unlink(S.rq.arrays, t.array, t.prio, p)[t.array].queue[k]
        alone == list_del(array.queue[t.prio], p) = << >>
        k1 == yield_level(array.bitmap, t.prio)
        bitmap1 == (array.bitmap \ {t.prio}) \cup {k1}
    IN  IF rt_task(t)
        THEN yield_to(S, p, t.prio, array.bitmap, list_add_tail(others(t.prio), p))
        ELSE IF ~alone
        THEN yield_to(S, p, t.prio, array.bitmap, list_add_second(others(t.prio), p))
        ELSE yield_to(S, p, k1, bitmap1, list_add_second(others(k1), p))

-----------------------------------------------------------------------------
(* do_fork() and the end of a task.                                        *)

UnusedTask ==
    [state |-> "UNUSED", policy |-> "OTHER", prio |-> DefaultPrio, static_prio |-> DefaultPrio,
     array |-> NULL, time_slice |-> 0, first_time_slice |-> FALSE, need_resched |-> FALSE,
     p_opptr |-> Idle, requestedTime |-> 0, iAmOverdue |-> FALSE, iWasShort |-> FALSE,
     overdue_static_prio |-> 0, justGotForked |-> FALSE]

\* *p = *current, and the assignments up to copy_thread().
fork_copy(t) == [t EXCEPT !.state = "UNINTERRUPTIBLE", !.array = NULL]

\* The slice and policy of the child, from the parent t and its copy u.
child_slice(t, u) ==
    IF t.policy # "SHORT" THEN [u EXCEPT !.time_slice = ((t.time_slice + 1) % UINT) \div 2,
                                         !.first_time_slice = TRUE]
    ELSE IF short_task(t) THEN [u EXCEPT !.policy = "SHORT",
                                         !.time_slice = (t.time_slice \div 2) + (t.time_slice % 2),
                                         !.first_time_slice = TRUE]
    ELSE [u EXCEPT !.policy = "SHORT", !.first_time_slice = TRUE]

\* Mutant: the odd tick goes to both.
parent_slice_rounded_up(t) ==
    IF overdue_task(t) THEN t
    ELSE [t EXCEPT !.time_slice = (@ + 1) \div 2,
                   !.justGotForked = IF short_task(t) THEN TRUE ELSE @]

\* What the parent keeps.
parent_slice(t) ==
    IF overdue_task(t) THEN t
    ELSE [t EXCEPT !.time_slice = @ \div 2,
                   !.justGotForked = IF short_task(t) THEN TRUE ELSE @]

\* Mutant: no scheduler_tick() for a parent with nothing left.
fork_split_no_tick(S, p, c, bonus, toExpired) ==
    LET t == S.task[p]
        S1 == put_task(put_task(S, c, child_slice(t, S.task[c])), p, parent_slice(t))
    IN  IF t.time_slice = 0 THEN put_rq(S, [S.rq EXCEPT !.panic = "BUG"]) ELSE S1

\* The section of do_fork() with interrupts disabled.
fork_split(S, p, c, bonus, toExpired) ==
    LET t == S.task[p]
        S1 == put_task(put_task(S, c, child_slice(t, S.task[c])), p, parent_slice(t))
        last_tick == [S1.task[p] EXCEPT !.justGotForked = FALSE, !.time_slice = 1]
    IN  IF t.time_slice = 0 THEN put_rq(S, [S.rq EXCEPT !.panic = "BUG"])
        ELSE IF S1.task[p].time_slice # 0 THEN S1
        ELSE scheduler_tick(put_task(S1, p, last_tick), bonus, toExpired)

\* The priorities wake_up_forked_process() can give the child.
forked_prios(t) ==
    IF rt_task(t) THEN {t.prio} ELSE {effective_prio(t, b) : b \in Bonuses}

\* From the links to the parent to the end of do_fork(); CLONE_PARENT makes
\* the child a sibling.  An overdue parent does not give up the CPU.
fork_wake(S, p, c, clone_parent, k) ==
    LET parent == IF clone_parent THEN S.task[p].p_opptr ELSE p
        u  == [S.task[c] EXCEPT !.p_opptr = parent, !.state = "RUNNING"]
        S2 == activate_task(put_task(S, c, u), c, k)
    IN  IF overdue_task(S2.task[p]) THEN S2 ELSE set_need_resched(S2)

\* sched_exit(p) for a reaped child p of the current task.
sched_exit(S, p) ==
    LET t == S.task[S.rq.curr]
        sum == (t.time_slice + S.task[p].time_slice) % UINT
        capped == IF sum > MAX_TIMESLICE THEN MAX_TIMESLICE ELSE sum
    IN  IF ~S.task[p].first_time_slice THEN S
        ELSE put_task(S, S.rq.curr, [t EXCEPT !.time_slice = capped])

-----------------------------------------------------------------------------
(* The state machine.                                                      *)

Kernel == [task |-> task, rq |-> rq]
Becomes(S) == task' = S.task /\ rq' = S.rq

current == rq.curr

\* Boot leaves the initial tasks on the active array and the CPU idle.
BootOrders == {q \in [1 .. Cardinality(InitTasks) -> InitTasks] :
                 IsInjective(q) /\ \A p \in InitTasks : InList(q, p)}

BootTask(p) ==
    [UnusedTask EXCEPT !.state = "RUNNING", !.array = "array0",
                       !.time_slice = TASK_TIMESLICE(UnusedTask),
                       !.p_opptr = IF p = Reaper THEN Idle ELSE Reaper]

IdleTask == [UnusedTask EXCEPT !.state = "RUNNING", !.prio = MAX_PRIO, !.need_resched = TRUE]

Init ==
    /\ task = [p \in AllTask |-> IF p = Idle THEN IdleTask
                                 ELSE IF p \in InitTasks THEN BootTask(p) ELSE UnusedTask]
    /\ \E q \in BootOrders :
         rq = [curr |-> Idle, nr_running |-> Cardinality(InitTasks), nr_uninterruptible |-> 0,
               active |-> "array0", misfiled |-> FALSE, panic |-> "none",
               arrays |-> [a \in ArrayId |->
                   IF a = "array0" THEN [nr_active |-> Cardinality(InitTasks), bitmap |-> {DefaultPrio},
                                         queue |-> [EmptyArray.queue EXCEPT ![DefaultPrio] = q]]
                   ELSE EmptyArray]]
    /\ pc = [p \in AllTask |-> "user"]
    /\ child = [p \in Task |-> NoChild]

\* A task other processes can find by its pid.
Hashed(p) == task[p].state # "UNUSED" /\ \A q \in Task : child[q] # p

\* The current task executes kernel code of a system call, and not a sleep.
InKernel ==
    /\ rq.panic = "none"
    /\ pc[current] = "kernel" /\ task[current].state = "RUNNING"

ReturnsToUser == pc' = [pc EXCEPT ![current] = "user"]

\* The points at which an interrupt can arrive.
InterruptsOpen ==
    /\ rq.panic = "none"
    /\ \/ pc[current] \in {"user", "kernel"}
       \/ pc[current] = "fork_copied" /\ "irq_in_copy" \in Workload
       \/ pc[current] = "fork_split" /\ "irq_in_split" \in Workload

Tick ==
    /\ InterruptsOpen
    /\ \E b \in Bonuses, toExpired \in BOOLEAN : Becomes(scheduler_tick(Kernel, b, toExpired))
    /\ UNCHANGED <<pc, child>>

\* An interrupt handler, or the current task, wakes p.
Wake(p) ==
    /\ InterruptsOpen /\ Hashed(p)
    /\ task[p].state \in {"INTERRUPTIBLE", "UNINTERRUPTIBLE"}
    /\ \E k \in activate_prios(task[p]) : Becomes(try_to_wake_up(Kernel, p, k))
    /\ UNCHANGED <<pc, child>>

\* ret_from_sys_call and ret_from_intr act on need_resched, the idle loop does,
\* and kernel code calls schedule() when it waits.
Reschedule ==
    /\ rq.panic = "none"
    /\ \/ pc[current] = "user" /\ task[current].need_resched
       \/ pc[current] = "kernel"
       \/ pc[current] = "fork_copied" /\ "fork_block" \in Workload
    /\ \E pending \in BOOLEAN : Becomes(schedule(Kernel, pending))
    /\ UNCHANGED <<pc, child>>

SysEnter ==
    /\ rq.panic = "none" /\ current # Idle
    /\ pc[current] = "user" /\ ~task[current].need_resched
    /\ pc' = [pc EXCEPT ![current] = "kernel"]
    /\ UNCHANGED <<task, rq, child>>

\* A system call that changes nothing here, or returns an error.
SysReturn ==
    /\ InKernel /\ ReturnsToUser
    /\ UNCHANGED <<task, rq, child>>

\* set_current_state() before schedule(), and the assignment of TASK_RUNNING
\* when the condition waited for has come true.
SetState(state) ==
    /\ "sleep" \in Workload
    /\ rq.panic = "none"
    /\ \/ pc[current] = "kernel"
       \/ pc[current] = "fork_copied" /\ "fork_block" \in Workload
    /\ task[current].state \notin {state, "ZOMBIE"}
    /\ task' = [task EXCEPT ![current].state = state]
    /\ UNCHANGED <<rq, pc, child>>

Yield ==
    /\ "yield" \in Workload /\ InKernel /\ ReturnsToUser
    /\ Becomes(schedule(yield(Kernel, current), FALSE))
    /\ UNCHANGED child

RenewShort(p, ms) ==
    /\ "short" \in Workload /\ InKernel /\ ReturnsToUser /\ Hashed(p)
    /\ task[p].policy = "SHORT" /\ renewal_allowed(task[p], ms)
    /\ Becomes(renew_short(Kernel, p, ms))
    /\ UNCHANGED child

MakeShort(p, ms) ==
    /\ "short" \in Workload /\ InKernel /\ ReturnsToUser /\ Hashed(p)
    /\ task[p].policy = "OTHER" /\ request_allowed(ms)
    /\ \E k \in activate_prios(as_short(task[p], ms)) : Becomes(make_short(Kernel, p, ms, k))
    /\ UNCHANGED child

SetNormal(p, policy, prio) ==
    /\ "normal" \in Workload /\ InKernel /\ ReturnsToUser /\ Hashed(p)
    /\ task[p].policy # "SHORT"
    /\ LET t == as_normal(task[p], policy, prio)
       IN  \E k \in activate_prios(t) : Becomes(reactivate(Kernel, p, t, k))
    /\ UNCHANGED child

\* sys_setpriority() on any process, and sys_nice() on the caller.
SetNice(p, static) ==
    /\ "nice" \in Workload /\ InKernel /\ ReturnsToUser /\ Hashed(p)
    /\ Becomes(set_user_nice(Kernel, p, static))
    /\ UNCHANGED child

ForkCopy(c) ==
    /\ "fork" \in Workload /\ InKernel
    /\ task[c].state = "UNUSED"
    /\ task' = [task EXCEPT ![c] = fork_copy(task[current])]
    /\ child' = [child EXCEPT ![current] = c]
    /\ pc' = [pc EXCEPT ![current] = "fork_copied", ![c] = "user"]
    /\ UNCHANGED rq

\* One of the copy functions failed: the bad_fork exits free the task_struct.
ForkFail ==
    /\ rq.panic = "none"
    /\ pc[current] = "fork_copied" /\ task[current].state = "RUNNING"
    /\ task' = [task EXCEPT ![child[current]] = UnusedTask]
    /\ child' = [child EXCEPT ![current] = NoChild]
    /\ ReturnsToUser
    /\ UNCHANGED rq

ForkSplit ==
    /\ rq.panic = "none"
    /\ pc[current] = "fork_copied" /\ task[current].state = "RUNNING"
    /\ \E b \in Bonuses, toExpired \in BOOLEAN :
         Becomes(fork_split(Kernel, current, child[current], b, toExpired))
    /\ pc' = [pc EXCEPT ![current] = "fork_split"]
    /\ UNCHANGED child

ForkWake(clone_parent) ==
    /\ rq.panic = "none"
    /\ pc[current] = "fork_split"
    /\ clone_parent => "clone_parent" \in Workload
    /\ \E k \in forked_prios(task[child[current]]) :
         Becomes(fork_wake(Kernel, current, child[current], clone_parent, k))
    /\ child' = [child EXCEPT ![current] = NoChild]
    /\ ReturnsToUser

\* do_exit(): the orphans go to init; the task calls schedule() next.
Exit ==
    /\ "exit" \in Workload /\ InKernel /\ current # Reaper
    /\ task' = [p \in AllTask |->
                  IF p = current THEN [task[p] EXCEPT !.state = "ZOMBIE"]
                  ELSE IF p # Idle /\ task[p].state # "UNUSED" /\ task[p].p_opptr = current
                       THEN [task[p] EXCEPT !.p_opptr = Reaper]
                  ELSE task[p]]
    /\ UNCHANGED <<rq, pc, child>>

\* wait4() of the parent collects a zombie.
Reap(p) ==
    /\ InKernel /\ ReturnsToUser
    /\ task[p].state = "ZOMBIE" /\ task[p].p_opptr = current
    /\ Becomes(put_task(sched_exit(Kernel, p), p, UnusedTask))
    /\ UNCHANGED child

Next ==
    \/ Tick \/ Reschedule \/ SysEnter \/ SysReturn \/ Yield
    \/ \E s \in {"RUNNING", "INTERRUPTIBLE", "UNINTERRUPTIBLE"} : SetState(s)
    \/ \E p \in Task : \/ Wake(p) \/ Reap(p) \/ ForkCopy(p)
                       \/ \E ms \in ReqTimes : RenewShort(p, ms) \/ MakeShort(p, ms)
                       \/ \E k \in UserPrio : SetNice(p, k)
                       \/ SetNormal(p, "OTHER", DefaultPrio)
                       \/ \E policy \in {"FIFO", "RR"}, k \in 0 .. MAX_RT_PRIO - 2 :
                            SetNormal(p, policy, k)
    \/ ForkFail \/ ForkSplit \/ \E cp \in BOOLEAN : ForkWake(cp)
    \/ Exit

Spec == Init /\ [][Next]_vars

(***************************************************************************)
(* Fairness.  The timer keeps interrupting; the return to user mode looks  *)
(* at need_resched; a system call that does not sleep returns; and an      *)
(* OTHER task does not stay interactive for ever while it uses up slices,  *)
(* because every tick takes one from its sleep_avg.  The last holds as     *)
(* long as nobody sleeps, so FairSpec is for a Workload without "sleep".   *)
(***************************************************************************)
Preempt == pc[current] = "user" /\ task[current].need_resched /\ Reschedule

ExpireOther ==
    /\ task[current].time_slice = 1 /\ ~short_task(task[current])
    /\ Tick /\ task'[current].array = expired(Kernel)

FairSpec ==
    /\ Spec
    /\ WF_vars(Tick) /\ WF_vars(Preempt) /\ WF_vars(SysReturn)
    /\ SF_vars(ExpireOther)

-----------------------------------------------------------------------------
(* Correctness.                                                            *)

Runnable == {p \in Task : task[p].array # NULL}

On(S) == [p \in Task |-> S.task[p].array]
At(S) == [p \in Task |-> S.task[p].prio]

(***************************************************************************)
(* The lists, bitmaps and counters of the four arrays describe the same    *)
(* set of tasks, each on the list its task_struct names, and nr_running    *)
(* counts them (sched.c dequeue_task, enqueue_task, sys_sched_yield).      *)
(***************************************************************************)
RunqueueExact ==
    rq.panic = "none" /\ ~rq.misfiled =>
        /\ ArraysExact(On(Kernel), At(Kernel), rq.arrays)
        /\ rq.nr_running = Cardinality(Runnable)

(***************************************************************************)
(* A runnable task is on the array of its class; only OTHER tasks wait on  *)
(* the expired array.  dequeue_task(p, pointer_to_my_active_prio_array(p)) *)
(* in scheduler_tick() relies on it.                                       *)
(***************************************************************************)
HomeMatchesClass ==
    rq.panic = "none" /\ ~rq.misfiled =>
        \A p \in Runnable :
            \/ task[p].array = pointer_to_my_active_prio_array(task[p], Kernel)
            \/ task[p].array = expired(Kernel) /\ other_task(task[p]) /\ ~rt_task(task[p])

(***************************************************************************)
(* schedule() never follows the list head of an empty list, although it    *)
(* trusts nr_active and the bitmap and does not look at the overdue        *)
(* array's counter at all.                                                 *)
(***************************************************************************)
PickIsATask == rq.panic = "list" => rq.misfiled

\* No dequeue_task() ever names an array its task is not on.
NeverMisfiled == ~rq.misfiled

(***************************************************************************)
(* "The current process is always on the run-queue (except when the actual *)
(* re-schedule is in progress)": the comment on try_to_wake_up().          *)
(***************************************************************************)
CurrentOnRunqueue == rq.panic = "none" /\ current # Idle => current \in Runnable

(***************************************************************************)
(* nr_uninterruptible, which the load average is computed from, counts the *)
(* tasks asleep in TASK_UNINTERRUPTIBLE: nothing is leaked by a wakeup     *)
(* that comes before schedule(), a fork or a change of policy.             *)
(***************************************************************************)
UninterruptibleExact ==
    rq.panic = "none" =>
        rq.nr_uninterruptible = Cardinality({p \in Task \ Runnable :
                                    task[p].state = "UNINTERRUPTIBLE" /\ Hashed(p)})

\* The order in which schedule() prefers classes: real-time and SHORT by
\* priority, then OTHER, OTHER that used its slice, overdue.
Rank(t, S) ==
    IF short_task(t) \/ rt_task(t) THEN 0
    ELSE IF overdue_task(t) THEN 3
    ELSE IF t.array = expired(S) THEN 2 ELSE 1

Better(t, u, S) ==
    \/ Rank(t, S) < Rank(u, S)
    \/ Rank(t, S) = Rank(u, S) /\ t.prio < u.prio

(***************************************************************************)
(* A context switch gives the CPU to a task than which no runnable task is *)
(* better, and to the idle task only if nobody is runnable (schedule()).   *)
(***************************************************************************)
BestTaskRuns ==
    [][ rq'.curr # rq.curr /\ ~rq.misfiled =>
          \A p \in Task : task'[p].array # NULL =>
             /\ rq'.curr # Idle
             /\ ~Better(task'[p], task'[rq'.curr], Kernel') ]_vars

(***************************************************************************)
(* A SHORT task has some of the time it asked for left and never more, and *)
(* an overdue one never more than twice that time: renewals by setparam,   *)
(* real-time wakeups and yields do not change that.  Two things in the     *)
(* code do, and are left out: a renewal for a negative time, which the     *)
(* unsigned comparison lets pass, leaves time_slice near UINT until a      *)
(* renewal for a positive time is accepted; and a child that exits gives   *)
(* its ticks to its parent (sched_exit()), so this is about tasks that do  *)
(* not fork.                                                               *)
(***************************************************************************)
SliceWithinRequest ==
    "fork" \notin Workload =>
        \A p \in Task : task[p].requestedTime >= 0 =>
            /\ short_task(task[p]) => task[p].time_slice \in 1 .. task[p].requestedTime
            /\ overdue_task(task[p]) => task[p].time_slice \in 1 .. 2 * task[p].requestedTime

(***************************************************************************)
(* do_fork()'s BUG(): a task that runs do_fork() has time left, whatever   *)
(* happened to it and to its ancestors before.                             *)
(***************************************************************************)
ForkHasTime == rq.panic # "BUG"

(***************************************************************************)
(* "Share the timeslice between parent and child, thus the total amount of *)
(* pending timeslices in the system doesnt change" (do_fork): for a fork   *)
(* that leaves the parent some of its slice.  An overdue parent shares     *)
(* nothing; and UINT - 1 ticks, which only a renewal for a negative time   *)
(* leaves, are excepted, because rounding them up for the child wraps.     *)
(***************************************************************************)
Splits(p) == pc[p] = "fork_copied" /\ pc'[p] = "fork_split" /\ rq'.panic = "none"
SharesSlice(p) == task'[p].time_slice + task'[child[p]].time_slice = task[p].time_slice

ForkSharesSlice ==
    [][\A p \in Task : Splits(p) /\ task[p].time_slice \in 2 .. UINT - 2
                            /\ ~overdue_task(task[p]) => SharesSlice(p)]_vars

Position(S, p) ==
    LET q == S.rq.arrays[S.task[p].array].queue[S.task[p].prio]
    IN  CHOOSE i \in 1 .. Len(q) : q[i] = p

\* child c of p, both SHORT and runnable after the step, runs before p.
AheadOfParent(c, p, S) ==
    \/ S.task[c].prio < S.task[p].prio
    \/ S.task[c].prio = S.task[p].prio /\ Position(S, c) < Position(S, p)

Born(p) == pc[p] = "fork_split" /\ pc'[p] = "user" /\ rq'.panic = "none"
BothShort(p) == short_task(task'[p]) /\ short_task(task'[child[p]])

(***************************************************************************)
(* "Let the child process run first" (do_fork): the child of a SHORT task  *)
(* is placed before a parent of the same priority.                         *)
(***************************************************************************)
ChildAheadOfEqualParent ==
    [][\A p \in Task : Born(p) /\ BothShort(p) /\ task'[child[p]].prio = task'[p].prio
                            => AheadOfParent(child[p], p, Kernel')]_vars

(***************************************************************************)
(* What release_task() frees is on no list: an exited task leaves the      *)
(* runqueue with its last schedule() and nothing puts it back.             *)
(***************************************************************************)
DeadNotLinked ==
    rq.panic = "none" =>
        \A p \in Runnable \ {current} : task[p].state \notin {"ZOMBIE", "UNUSED"}

(***************************************************************************)
(* A process cannot stay SHORT for ever by renewing its request: one that  *)
(* keeps receiving ticks as a SHORT task keeps leaving the class.          *)
(***************************************************************************)
ShortTick(p) == Tick /\ current = p /\ short_task(task[p])
RenewalsEnd ==
    \A p \in Task : []<><<ShortTick(p)>>_vars => []<>~short_task(task[p])

(***************************************************************************)
(* SHORT tasks starve the others only by becoming SHORT again after they   *)
(* were overdue: if that stops, a runnable OTHER task gets the CPU or      *)
(* another class, however often the others renew their requests or yield.  *)
(***************************************************************************)
BecomesShort == \E p \in Task, ms \in ReqTimes : MakeShort(p, ms)
OtherRuns ==
    <>[][~BecomesShort]_vars =>
        \A p \in Task : (p \in Runnable /\ other_task(task[p]))
                            ~> (current = p \/ ~other_task(task[p]))

-----------------------------------------------------------------------------
(* Statements of the repository's documents that the code does not meet.   *)

\* ControlPaths.txt, "Short to overdue": "Move process to overdue->queue".
OverdueIsOnOverdueArray ==
    \A p \in Runnable : overdue_task(task[p]) => task[p].array = "overdue"

-----------------------------------------------------------------------------
(* The scheduler implements the life of a process.                         *)

Class(t) ==
    IF t.state = "UNUSED" THEN "none"
    ELSE IF short_task(t) THEN "short"
    ELSE IF overdue_task(t) THEN "overdue"
    ELSE IF other_task(t) THEN "other" ELSE "rt"

UserNice(t) == IF overdue_task(t) THEN t.overdue_static_prio ELSE t.static_prio

Lifecycle == INSTANCE ShortPolicy WITH
    Process  <- Task,
    Nice     <- Prio,
    Nobody   <- Idle,
    class    <- [p \in Task |-> Class(task[p])],
    nice     <- [p \in Task |-> UserNice(task[p])],
    wasShort <- [p \in Task |-> task[p].iWasShort],
    running  <- rq.curr

(***************************************************************************)
(* Every step of the kernel is a step of the policy ControlPaths.txt draws *)
(* or changes nothing that the policy is about.                            *)
(***************************************************************************)
ImplementsShortPolicy == Lifecycle!Spec
=============================================================================
