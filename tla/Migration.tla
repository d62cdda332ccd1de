------------------------------ MODULE Migration ------------------------------
(***************************************************************************)
(* The scheduler of sched.c on several CPUs (CONFIG_SMP): the tasks of a   *)
(* runqueue move to another one by load_balance(), by the migration        *)
(* threads that serve set_cpus_allowed(), and by synchronous wakeups.      *)
(*                                                                         *)
(* A step is the code between two points where other CPUs can interfere:   *)
(* what is done under the lock of one runqueue is one step that needs the  *)
(* lock free, and a lock is held across steps only where the code takes a  *)
(* second one.  Priorities are left to Sched: any task of a runqueue may   *)
(* be the next, except that the migration thread (SCHED_FIFO, priority 0)  *)
(* goes first; the active and the expired array are one.                   *)
(***************************************************************************)
EXTENDS Integers, FiniteSets, Sequences

CONSTANTS
    N,             \* smp_num_cpus
    User,          \* the tasks that are not migration threads
    thread,        \* thread[c]: the thread started with migration_thread(c)
    Short,         \* the user tasks whose place is rt_short
    Calls,         \* <<t, p>>: t may call set_cpus_allowed() for p
    Idle, NULL

CPU == 0 .. N - 1
Thread == {thread[c] : c \in CPU}
Task == User \cup Thread

ASSUME MigrationAssumption ==
    /\ N \in Nat \ {0} /\ IsFiniteSet(User)
    /\ thread \in [CPU -> Thread] /\ \A c, d \in CPU : thread[c] = thread[d] => c = d
    /\ User \cap Thread = {} /\ Short \subseteq User /\ Calls \subseteq User \X User
    /\ Idle \notin Task /\ NULL \notin Task \cup CPU \cup (CPU \X {"active", "rt_short"})

VARIABLES
    lock,              \* the CPU that holds rq->lock, or NULL
    nr_running, curr, need_resched, migration_queue, migration_thread,
    array,             \* p->array: a runqueue and its array, or NULL
    cpu, cpus_allowed, state,
    at,                \* where a task is in the kernel
    req,               \* the task that is called for or worked on
    rq,                \* a local runqueue: that of a call, or rq_src
    cpu_dest, sem,
    balance            \* the load_balance() in progress on every CPU

vars == <<lock, nr_running, curr, need_resched, migration_queue, migration_thread, array, cpu,
          cpus_allowed, state, at, req, rq, cpu_dest, sem, balance>>

queues == <<nr_running, array>>

\* A load_balance() is at a lock: that of the busiest runqueue, the same after
\* this_rq->lock was dropped, or its own again.
NoBalance == [at |-> "none", idle |-> FALSE, by |-> "tick", busiest |-> 0, imbalance |-> 0]
Balance == [at : {"none", "busiest", "dropped", "this"}, idle : BOOLEAN, by : {"tick", "schedule"},
            busiest : CPU, imbalance : Nat]

TypeOK ==
    /\ lock \in [CPU -> CPU \cup {NULL}]
    /\ nr_running \in [CPU -> 0 .. Cardinality(Task)]
    /\ curr \in [CPU -> Task \cup {Idle}]
    /\ need_resched \in [CPU -> BOOLEAN]
    /\ migration_queue \in [CPU -> Seq(Task)]
    /\ migration_thread \in [CPU -> Thread \cup {NULL}]
    /\ array \in [Task -> (CPU \X {"active", "rt_short"}) \cup {NULL}]
    /\ cpu \in [Task -> CPU]
    /\ cpus_allowed \in [Task -> (SUBSET CPU) \ {{}}]
    /\ state \in [Task -> {"running", "sleeping"}]
    /\ at \in [Task -> {"user", "sync", "wake", "down", "boot", "bind", "top", "sched", "dest",
                        "src", "first", "second", "up"}]
    /\ req \in [Task -> Task]
    /\ rq \in [Task -> CPU] /\ cpu_dest \in [Task -> CPU]
    /\ sem \in [Task -> {0, 1}]
    /\ balance \in [CPU -> Balance]

-----------------------------------------------------------------------------
Free(c) == lock[c] = NULL
ffs(mask) == CHOOSE c \in mask : \A d \in mask : c <= d
Lower(c, d) == IF c < d THEN c ELSE d
Upper(c, d) == IF c < d THEN d ELSE c

\* migration_init() waits for every migration thread before init goes on.
Booted == \A c \in CPU : migration_thread[c] # NULL

\* pointer_to_my_active_prio_array(): a migration thread is SCHED_FIFO once it
\* has called setscheduler().
home(t) == IF t \in Short \/ \E c \in CPU : migration_thread[c] = t THEN "rt_short" ELSE "active"

on_rq(q, c) == {t \in Task : q.array[t] # NULL /\ q.array[t][1] = c}

\* activate_task() and deactivate_task() with an explicit runqueue; q is the
\* pair of nr_running and array.
activate_task(q, p, c) ==
    [nr |-> [q.nr EXCEPT ![c] = @ + 1], array |-> [q.array EXCEPT ![p] = <<c, home(p)>>]]
deactivate_task(q, p, c) ==
    [nr |-> [q.nr EXCEPT ![c] = @ - 1], array |-> [q.array EXCEPT ![p] = NULL]]

now == [nr |-> nr_running, array |-> array]
set_queues(q) == nr_running' = q.nr /\ array' = q.array

Init ==
    /\ lock = [c \in CPU |-> NULL]
    /\ curr = [c \in CPU |-> Idle]
    /\ need_resched = [c \in CPU |-> TRUE]
    /\ migration_queue = [c \in CPU |-> <<>>]
    /\ migration_thread = [c \in CPU |-> NULL]
    /\ array = [t \in Task |-> IF t \in Thread THEN <<0, "active">> ELSE NULL]
    /\ nr_running = [c \in CPU |-> IF c = 0 THEN N ELSE 0]
    /\ cpu = [t \in Task |-> 0]
    /\ cpus_allowed = [t \in Task |-> IF t \in Thread THEN {0} ELSE CPU]
    /\ state = [t \in Task |-> IF t \in Thread THEN "running" ELSE "sleeping"]
    /\ at = [t \in Task |-> IF t \in Thread THEN "boot" ELSE "user"]
    /\ req = [t \in Task |-> t]
    /\ rq = [t \in Task |-> 0] /\ cpu_dest = [t \in Task |-> 0]
    /\ sem = [t \in Task |-> 0]
    /\ balance = [c \in CPU |-> NoBalance]

-----------------------------------------------------------------------------
\* The task t executes on c, outside of load_balance().
Runs(t, c) == curr[c] = t /\ balance[c].at = "none"

\* The loads are read without the locks.  An idle CPU takes what it finds on
\* the longest runqueue.
busiest_when_idle(q, c) ==
    {d \in CPU \ {c} : q.nr[d] > 1 /\ \A e \in CPU \ {c} : q.nr[e] <= q.nr[d]}

\* Of a busy one, the load of d is the smaller of the length of its queue now
\* and at the previous balancing; which one that was is not modelled.
imbalances(c, d) ==
    {(load - nr_running[c]) \div 2 : load \in
        {l \in 2 .. nr_running[d] : (l - nr_running[c]) \div 2 >= (l + 3) \div 4}}

\* The next task of runqueue c.
candidates(q, c) ==
    IF migration_thread[c] \in on_rq(q, c) THEN {migration_thread[c]}
    ELSE IF q.nr[c] = 0 THEN {Idle} ELSE on_rq(q, c)

switch_to(c, next) ==
    /\ curr' = [curr EXCEPT ![c] = next]
    /\ need_resched' = [need_resched EXCEPT ![c] = FALSE]

begin_balance(c, idle, by, d, imbalance) ==
    /\ lock' = [lock EXCEPT ![c] = c]
    /\ balance' = [balance EXCEPT ![c] =
                     [at |-> "busiest", idle |-> idle, by |-> by, busiest |-> d,
                      imbalance |-> imbalance]]

\* schedule() of the current task of c: off the runqueue if it sleeps, the next
\* task, or load_balance() when there is none, which keeps rq->curr as it is.
schedule(c, sleeps) ==
    LET q == IF sleeps THEN deactivate_task(now, curr[c], c) ELSE now
    IN  /\ Free(c)
        /\ set_queues(q)
        /\ IF q.nr[c] = 0 /\ busiest_when_idle(q, c) # {}
           THEN /\ \E d \in busiest_when_idle(q, c) : begin_balance(c, TRUE, "schedule", d, 1)
                /\ UNCHANGED <<curr, need_resched>>
           ELSE /\ \E next \in candidates(q, c) : switch_to(c, next)
                /\ UNCHANGED <<lock, balance>>

\* Mutant: a task that is on a runqueue already is put there again.
try_to_wake_up_again(p) ==
    /\ Free(cpu[p])
    /\ set_queues(activate_task(now, p, cpu[p]))
    /\ need_resched' = [need_resched EXCEPT ![cpu[p]] = @ \/ curr[cpu[p]] = Idle]
    /\ state' = [state EXCEPT ![p] = "running"]

\* try_to_wake_up() of p, under the lock of its runqueue.
try_to_wake_up(p) ==
    /\ Free(cpu[p])
    /\ set_queues(IF array[p] = NULL THEN activate_task(now, p, cpu[p]) ELSE now)
    /\ need_resched' = [need_resched EXCEPT ![cpu[p]] = @ \/ (array[p] = NULL /\ curr[cpu[p]] = Idle)]
    /\ state' = [state EXCEPT ![p] = "running"]

locals == <<req, rq, cpu_dest>>
affinity == <<cpu, cpus_allowed>>
requests == <<migration_queue, migration_thread, sem>>

\* The local variables of t go out of scope.
forget(t) ==
    /\ req' = [req EXCEPT ![t] = t]
    /\ rq' = [rq EXCEPT ![t] = 0] /\ cpu_dest' = [cpu_dest EXCEPT ![t] = 0]

-----------------------------------------------------------------------------
\* A user task is preempted or yields (its slice ends, sched_yield()), or the
\* idle task notices need_resched; a user task goes to sleep.
Preempt(c) ==
    /\ balance[c].at = "none"
    /\ IF curr[c] = Idle THEN need_resched[c] ELSE at[curr[c]] \in {"user", "boot"}
    /\ schedule(c, FALSE)
    /\ UNCHANGED <<affinity, requests, state, at, locals>>

Sleep(c, t) ==
    /\ Runs(t, c) /\ t \in User /\ at[t] = "user"
    /\ state' = [state EXCEPT ![t] = "sleeping"]
    /\ schedule(c, TRUE)
    /\ UNCHANGED <<affinity, requests, at, locals>>

\* An interrupt or another task wakes a user task.
Wake(p) ==
    /\ Booted /\ p \in User /\ at[p] = "user" /\ state[p] = "sleeping"
    /\ try_to_wake_up(p)
    /\ UNCHANGED <<lock, curr, affinity, requests, at, locals, balance>>

\* __wake_up_sync() by t, which runs on c: the sleeper p is to run here too if
\* it may.  Its cpu changes under the lock of its old runqueue, and the wakeup
\* starts again, which need not find p asleep any more.
moves_here(p, c) == array[p] = NULL /\ curr[cpu[p]] # p /\ cpu[p] # c /\ c \in cpus_allowed[p]

WakeSync(c, t, p) ==
    /\ Runs(t, c)
    /\ \/ /\ at[t] = "user" /\ t \in User
          /\ p \in User /\ at[p] = "user" /\ state[p] = "sleeping"
       \/ at[t] = "sync" /\ req[t] = p
    /\ moves_here(p, c) /\ Free(cpu[p])
    /\ cpu' = [cpu EXCEPT ![p] = c]
    /\ at' = [at EXCEPT ![t] = "sync"] /\ req' = [req EXCEPT ![t] = p]
    /\ UNCHANGED <<lock, curr, need_resched, queues, cpus_allowed, state, requests, rq, cpu_dest,
                   balance>>

WakeSyncEnds(c, t) ==
    /\ Runs(t, c) /\ at[t] = "sync" /\ ~moves_here(req[t], c)
    /\ try_to_wake_up(req[t])
    /\ at' = [at EXCEPT ![t] = "user"]
    /\ forget(t)
    /\ UNCHANGED <<lock, curr, affinity, requests, balance>>

-----------------------------------------------------------------------------
\* load_balance() from the tick, every time or from time to time: from
\* idle_tick() on an idle CPU, from scheduler_tick() on another one.  Between
\* local_irq_save() and the release of both locks a migration thread has no
\* ticks.
Tick(c) ==
    /\ balance[c].at = "none" /\ Free(c)
    /\ curr[c] \in Task => at[curr[c]] # "second"
    /\ IF curr[c] = Idle
       THEN \E d \in busiest_when_idle(now, c) : begin_balance(c, TRUE, "tick", d, 1)
       ELSE \E d \in CPU \ {c} : \E i \in imbalances(c, d) : begin_balance(c, FALSE, "tick", d, i)
    /\ UNCHANGED <<curr, need_resched, queues, affinity, requests, state, at, locals>>

\* Mutant: CAN_MIGRATE_TASK forgets cpus_allowed.
can_migrate_anywhere(p, c, d) == array[p] = <<d, "active">> /\ p # curr[d]

\* Tasks of the active and expired arrays only, and not cache-hot ones, which
\* may be any.
can_migrate(p, c, d) == array[p] = <<d, "active">> /\ p # curr[d] /\ c \in cpus_allowed[p]

\* The sets of tasks that may be pulled from d to c, both locked.
pulls(c, d) ==
    {S \in SUBSET {p \in Task : can_migrate(p, c, d)} :
        /\ Cardinality(S) <= balance[c].imbalance
        /\ S = {} \/ nr_running[d] > nr_running[c] + 1}

\* load_balance() with both locks, up to the release of busiest->lock; a tick
\* then releases its own lock, and schedule() picks the next task.
pull(c, locked) ==
    LET d == balance[c].busiest
    IN  \E S \in pulls(c, d) :
            LET q == [nr |-> [nr_running EXCEPT ![d] = @ - Cardinality(S), ![c] = @ + Cardinality(S)],
                      array |-> [t \in Task |-> IF t \in S THEN <<c, "active">> ELSE array[t]]]
            IN  /\ set_queues(q)
                /\ cpu' = [t \in Task |-> IF t \in S THEN c ELSE cpu[t]]
                /\ lock' = [locked EXCEPT ![c] = NULL, ![d] = NULL]
                /\ balance' = [balance EXCEPT ![c] = NoBalance]
                /\ IF balance[c].by = "schedule"
                   THEN \E next \in candidates(q, c) : switch_to(c, next)
                   ELSE /\ need_resched' = [need_resched EXCEPT ![c] = @ \/ (S # {} /\ curr[c] = Idle)]
                        /\ UNCHANGED curr

\* Mutant: double_lock_balance() keeps this_rq->lock whatever the order.
LockBusiest_kept(c) ==
    /\ balance[c].at = "busiest" /\ Free(balance[c].busiest)
    /\ pull(c, lock)
    /\ UNCHANGED <<cpus_allowed, requests, state, at, locals>>

\* double_lock_balance(): busiest->lock is free, or will be and is the upper
\* one; else this_rq->lock is dropped first.
LockBusiest(c) ==
    /\ balance[c].at = "busiest"
    /\ LET d == balance[c].busiest
       IN  \/ Free(d) /\ pull(c, lock)
          \/ /\ ~Free(d) /\ d < c
             /\ lock' = [lock EXCEPT ![c] = NULL]
             /\ balance' = [balance EXCEPT ![c].at = "dropped"]
             /\ UNCHANGED <<queues, curr, need_resched, cpu>>
    /\ UNCHANGED <<cpus_allowed, requests, state, at, locals>>

LockDropped(c) ==
    /\ balance[c].at = "dropped" /\ Free(balance[c].busiest)
    /\ lock' = [lock EXCEPT ![balance[c].busiest] = c]
    /\ balance' = [balance EXCEPT ![c].at = "this"]
    /\ UNCHANGED <<queues, curr, need_resched, affinity, requests, state, at, locals>>

LockThis(c) ==
    /\ balance[c].at = "this" /\ Free(c)
    /\ pull(c, lock)
    /\ UNCHANGED <<cpus_allowed, requests, state, at, locals>>

-----------------------------------------------------------------------------
\* set_cpus_allowed(p, mask) by t, from sys_sched_setaffinity() or, for itself,
\* by a migration thread: nothing to do, or p is off the runqueues and its cpu
\* is enough, or a request for the migration thread.
set_cpus_allowed(c, t, p, mask, done) ==
    LET src == cpu[p]
    IN  /\ Free(src)
        /\ cpus_allowed' = [cpus_allowed EXCEPT ![p] = mask]
        /\ IF src \in mask \/ (array[p] = NULL /\ p # curr[src])
           THEN /\ cpu' = [cpu EXCEPT ![p] = IF src \in mask THEN @ ELSE ffs(mask)]
                /\ at' = [at EXCEPT ![t] = done]
                /\ UNCHANGED <<requests, req, rq>>
           ELSE /\ migration_queue' = [migration_queue EXCEPT ![src] = <<t>> \o @]
                /\ sem' = [sem EXCEPT ![t] = 0]
                /\ req' = [req EXCEPT ![t] = p]
                /\ rq' = [rq EXCEPT ![t] = src]
                /\ at' = [at EXCEPT ![t] = "wake"]
                /\ UNCHANGED <<cpu, migration_thread>>
        /\ UNCHANGED <<lock, curr, need_resched, queues, state, cpu_dest, balance>>

SetCpusAllowed(c, t, p, mask) ==
    /\ Booted /\ Runs(t, c) /\ at[t] = "user" /\ <<t, p>> \in Calls
    /\ set_cpus_allowed(c, t, p, mask, "user")

\* wake_up_process(rq->migration_thread), with no lock held, then down().
WakeThread(c, t) ==
    /\ Runs(t, c) /\ at[t] = "wake"
    /\ try_to_wake_up(migration_thread[rq[t]])
    /\ at' = [at EXCEPT ![t] = "down"]
    /\ UNCHANGED <<lock, curr, affinity, requests, locals, balance>>

Down(c, t) ==
    /\ Runs(t, c) /\ at[t] = "down" /\ sem[t] = 1
    /\ sem' = [sem EXCEPT ![t] = 0]
    /\ at' = [at EXCEPT ![t] = IF t \in Thread THEN "bind" ELSE "user"]
    /\ forget(t)
    /\ UNCHANGED <<lock, curr, need_resched, queues, affinity, migration_queue, migration_thread,
                   state, balance>>

DownSleeps(c, t) ==
    /\ Runs(t, c) /\ at[t] = "down" /\ sem[t] = 0
    /\ state' = [state EXCEPT ![t] = "sleeping"]
    /\ schedule(c, TRUE)
    /\ UNCHANGED <<affinity, requests, at, locals>>

-----------------------------------------------------------------------------
\* The start of migration_thread(): the thread of CPU 0 is there first and
\* moves the others; each then binds itself to the runqueue it runs on.
Boot(c, t) ==
    /\ Runs(t, c) /\ at[t] = "boot"
    /\ IF t = thread[0]
       THEN /\ at' = [at EXCEPT ![t] = "bind"]
            /\ UNCHANGED <<lock, curr, need_resched, queues, affinity, requests, state, locals, balance>>
       ELSE /\ migration_thread[0] # NULL
            /\ \E d \in CPU : thread[d] = t /\ set_cpus_allowed(c, t, t, {d}, "bind")

\* setscheduler() moves the thread to rt_short.
Bind(c, t) ==
    /\ Runs(t, c) /\ at[t] = "bind" /\ Free(c)
    /\ array' = [array EXCEPT ![t] = <<c, "rt_short">>]
    /\ migration_thread' = [migration_thread EXCEPT ![c] = t]
    /\ at' = [at EXCEPT ![t] = "top"]
    /\ UNCHANGED <<lock, nr_running, curr, need_resched, affinity, migration_queue, sem, state,
                   locals, balance>>

\* The loop: the state is set before the list is tested, under the lock.
Top(c, t) ==
    /\ Runs(t, c) /\ at[t] = "top" /\ Free(c)
    /\ state' = [state EXCEPT ![t] = "sleeping"]
    /\ IF migration_queue[c] = <<>>
       THEN /\ at' = [at EXCEPT ![t] = "sched"]
            /\ UNCHANGED <<migration_queue, req>>
       ELSE /\ req' = [req EXCEPT ![t] = Head(migration_queue[c])]
            /\ migration_queue' = [migration_queue EXCEPT ![c] = Tail(@)]
            /\ at' = [at EXCEPT ![t] = "dest"]
    /\ UNCHANGED <<lock, curr, need_resched, queues, affinity, migration_thread, sem, rq, cpu_dest,
                   balance>>

\* Mutant: the state is set right before schedule() only.
ThreadSleeps_late(c, t) ==
    /\ Runs(t, c) /\ at[t] = "sched"
    /\ state' = [state EXCEPT ![t] = "sleeping"]
    /\ schedule(c, TRUE)
    /\ at' = [at EXCEPT ![t] = "top"]
    /\ UNCHANGED <<affinity, requests, locals>>

ThreadSleeps(c, t) ==
    /\ Runs(t, c) /\ at[t] = "sched"
    /\ schedule(c, state[t] = "sleeping")
    /\ at' = [at EXCEPT ![t] = "top"]
    /\ UNCHANGED <<affinity, requests, state, locals>>

\* The task the request of req[t] is for.
target(t) == req[req[t]]

\* Neither cpus_allowed nor cpu is read under a lock.
ReadDest(c, t) ==
    /\ Runs(t, c) /\ at[t] = "dest"
    /\ cpu_dest' = [cpu_dest EXCEPT ![t] = ffs(cpus_allowed[target(t)])]
    /\ at' = [at EXCEPT ![t] = "src"]
    /\ UNCHANGED <<lock, curr, need_resched, queues, affinity, requests, state, req, rq, balance>>

ReadSrc(c, t) ==
    /\ Runs(t, c) /\ at[t] = "src"
    /\ rq' = [rq EXCEPT ![t] = cpu[target(t)]]
    /\ at' = [at EXCEPT ![t] = "first"]
    /\ UNCHANGED <<lock, curr, need_resched, queues, affinity, requests, state, req, cpu_dest, balance>>

\* rq_src is another runqueue than that of the thread.
elsewhere(c, t) == rq[t] # c

\* Mutant: the task is counted off the wrong runqueue.
move_miscounted(p, src, dest) == activate_task(deactivate_task(now, p, dest), p, dest)

move(p, src, dest) == activate_task(deactivate_task(now, p, src), p, dest)

\* With both locks: again if the task has moved; else it is moved, if it is on
\* the runqueue of this migration thread.
migrate(c, t) ==
    LET p == target(t)
    IN  IF cpu[p] # rq[t]
        THEN /\ at' = [at EXCEPT ![t] = "src"]
             /\ UNCHANGED <<queues, cpu>>
        ELSE /\ at' = [at EXCEPT ![t] = "up"]
             /\ cpu' = IF elsewhere(c, t) THEN cpu ELSE [cpu EXCEPT ![p] = cpu_dest[t]]
             /\ set_queues(IF elsewhere(c, t) \/ array[p] = NULL THEN now
                           ELSE move(p, rq[t], cpu_dest[t]))

\* double_rq_lock(rq_src, rq_dest) in ascending order.
LockFirst(c, t) ==
    /\ Runs(t, c) /\ at[t] = "first" /\ Free(Lower(rq[t], cpu_dest[t]))
    /\ IF rq[t] = cpu_dest[t]
       THEN migrate(c, t) /\ UNCHANGED lock
       ELSE /\ lock' = [lock EXCEPT ![Lower(rq[t], cpu_dest[t])] = c]
            /\ at' = [at EXCEPT ![t] = "second"]
            /\ UNCHANGED <<queues, cpu>>
    /\ UNCHANGED <<curr, need_resched, cpus_allowed, requests, state, locals, balance>>

LockSecond(c, t) ==
    /\ Runs(t, c) /\ at[t] = "second" /\ Free(Upper(rq[t], cpu_dest[t]))
    /\ migrate(c, t)
    /\ lock' = [lock EXCEPT ![Lower(rq[t], cpu_dest[t])] = NULL]
    /\ UNCHANGED <<curr, need_resched, cpus_allowed, requests, state, locals, balance>>

\* up(): the caller may be in down() already, or not yet.
Up(c, t) ==
    /\ Runs(t, c) /\ at[t] = "up"
    /\ sem' = [sem EXCEPT ![req[t]] = 1]
    /\ IF state[req[t]] = "sleeping"
       THEN try_to_wake_up(req[t])
       ELSE UNCHANGED <<queues, need_resched, state>>
    /\ at' = [at EXCEPT ![t] = "top"]
    /\ forget(t)
    /\ UNCHANGED <<lock, curr, affinity, migration_queue, migration_thread, balance>>

-----------------------------------------------------------------------------
Balancing(c) == LockBusiest(c) \/ LockDropped(c) \/ LockThis(c)
CallStep(c, t) == WakeSyncEnds(c, t) \/ WakeThread(c, t) \/ Down(c, t) \/ DownSleeps(c, t)
ThreadStep(c, t) ==
    Boot(c, t) \/ Bind(c, t) \/ Top(c, t) \/ ThreadSleeps(c, t) \/ ReadDest(c, t) \/ ReadSrc(c, t)
    \/ LockFirst(c, t) \/ LockSecond(c, t) \/ Up(c, t)

Next ==
    \/ \E c \in CPU : Preempt(c) \/ Tick(c) \/ Balancing(c)
    \/ \E p \in User : Wake(p)
    \/ \E c \in CPU, t \in User : Sleep(c, t) \/ CallStep(c, t)
    \/ \E c \in CPU, t \in User, p \in User : WakeSync(c, t, p)
    \/ \E c \in CPU, t \in User, p \in User, mask \in (SUBSET CPU) \ {{}} :
           SetCpusAllowed(c, t, p, mask)
    \/ \E c \in CPU, t \in Thread : ThreadStep(c, t) \/ CallStep(c, t)

Spec == Init /\ [][Next]_vars

-----------------------------------------------------------------------------
\* A request for p is on its way.
Called(p) == \E t \in Task : at[t] \in {"wake", "down"} /\ req[t] = p

\* nr_running counts the tasks of the arrays, a queued task is on the runqueue
\* of its cpu and in the array of its class, and a task that runs has not been
\* moved: load_balance(), the migration threads and synchronous wakeups take
\* tasks from runqueues other CPUs work on.
QueueExact ==
    /\ \A c \in CPU : nr_running[c] = Cardinality(on_rq(now, c))
    /\ \A t \in Task : array[t] # NULL => array[t] = <<cpu[t], home(t)>>
    /\ \A c \in CPU : curr[c] # Idle =>
        /\ cpu[curr[c]] = c
        /\ array[curr[c]] = NULL => balance[c].by = "schedule" /\ balance[c].at # "none"

\* The tasks whose mask no two tasks set.
Single == {p \in Task : \A t, u \in User : <<t, p>> \in Calls /\ <<u, p>> \in Calls => t = u}

\* A task whose mask one task sets at most is where it is allowed to be, unless
\* a request for it is on its way: also when it was moved, slept or woke while
\* the request waited, whoever sets the masks of others, and also a migration
\* thread, which serves the runqueue it was started for.  With two setters the
\* code does not keep this: the thread reads the mask once and without a lock,
\* and the second set_cpus_allowed() finds the task where it may be, or makes a
\* request that is served before the first.
AffinityKept ==
    /\ \A p \in Single : Called(p) \/ cpu[p] \in cpus_allowed[p]
    /\ \A c \in CPU : migration_thread[c] \in {thread[c], NULL}

\* No request is slept over: while there is one on its queue the migration
\* thread will come to look, or the caller has still to wake it.
RequestNoticed ==
    \A c \in CPU : migration_queue[c] # <<>> =>
        LET m == migration_thread[c]
        IN  \/ at[m] = "sched" /\ state[m] = "running"
            \/ at[m] = "top" /\ array[m] # NULL
            \/ at[m] \in {"dest", "src", "first", "second", "up"}
            \/ \E t \in Task : at[t] = "wake" /\ rq[t] = c

-----------------------------------------------------------------------------
(***************************************************************************)
(* Fairness.  A CPU in the kernel goes on, whatever ticks it gets, and it  *)
(* gets a spinlock that is free again and again: it is held for a few      *)
(* instructions.  A synchronous wakeup is not overtaken for ever.  A task  *)
(* in user mode loses the CPU in the end: its slice ends, or the migration *)
(* thread preempts it.                                                     *)
(***************************************************************************)
InKernel(c) ==
    \/ \E t \in User : at[t] = "sync" /\ WakeSync(c, t, req[t])
    \/ \E t \in Task : CallStep(c, t) \/ (t \in Thread /\ ThreadStep(c, t))

FairSpec ==
    /\ Spec
    /\ \A c \in CPU :
        /\ SF_vars(InKernel(c)) /\ SF_vars(Balancing(c)) /\ SF_vars(Preempt(c))
        /\ SF_vars(\E t \in User : WakeSyncEnds(c, t))

\* A call that holds up an earlier one: it sets the mask of a task for which a
\* request is on its way, so that p->cpu may change before migration_thread()
\* has both locks and it goes back to repeat; or its request is put before one
\* that waits, which list_add() does.
HoldsUp ==
    \/ \E p \in Task : Called(p) /\ cpus_allowed'[p] # cpus_allowed[p]
    \/ \E c \in CPU : migration_queue[c] # <<>> /\ Len(migration_queue'[c]) > Len(migration_queue[c])

\* set_cpus_allowed() gets its answer, whatever happens to the task meanwhile,
\* unless it is held up over and over.
MigrationDone ==
    <>[][~HoldsUp]_vars => \A t \in Task : at[t] = "wake" ~> sem[t] = 1

\* No two CPUs wait for each other's lock: every lock is released.
LockReleased == \A c \in CPU : lock[c] # NULL ~> lock[c] = NULL

\* A task that is on the runqueue of an idle CPU gets to run there or is moved.
NotLeftBehind ==
    \A c \in CPU : curr[c] = Idle /\ nr_running[c] > 0 ~> curr[c] # Idle \/ nr_running[c] = 0
=============================================================================
