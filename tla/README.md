# A TLA+ model of the SCHED_SHORT kernel

This directory is a verification development of `src/sharedFolderHW2`: the
files of a Linux 2.4 kernel with the O(1) scheduler (`sched.c`, `sched.h`,
`fork.c`, `entry.S`, `list.h`) to which an exercise adds a scheduling policy,
`SCHED_SHORT`, and three system calls (`hw2_syscalls.c`). The modules are
written from the C code. The design notes (`ControlPaths.txt`, `Plan.txt`)
and the tests were read for what the authors promise; where a promise and the
code differ, section 4 says so, with a counterexample for the three that matter.

Line numbers below are of files in `src/sharedFolderHW2/`.

## 1. Inventory

### Components

| component | state it keeps | operations | modelled in |
|---|---|---|---|
| Run queue arrays (`sched.c` 119-149, 268-293; `list.h`) | `nr_active`, `bitmap`, `queue[]` of four `prio_array`s | `dequeue_task`, `enqueue_task`, list primitives | `PrioArray` |
| Scheduler (`sched.c`) | the runqueue: `curr`, `nr_running`, `nr_uninterruptible`, `active`/`expired`, `shortArrays`; in every `task_struct` the policy, priorities, slice, `array`, `need_resched` and the SHORT fields | `scheduler_tick`, `schedule`, `try_to_wake_up`, `wake_up_forked_process`, `setscheduler`, `set_user_nice`, `sys_sched_yield`, `sched_exit`, `sched_init` | `Sched` |
| The SHORT policy (`ControlPaths.txt`, `Plan.txt`) | the class and nice value of a process | its life: OTHER, SHORT, overdue, OTHER | `ShortPolicy` (abstract) |
| fork, scheduling side (`fork.c` 587-835) | the half-built child, the shared slice, `justGotForked` | copy, failure, split of the slice, wakeup | `Sched` |
| Return to user mode (`entry.S` 196-262) | `need_resched` | call of `schedule()` after system calls and interrupts | `Sched` |
| fork, resources (`fork.c` 144-585, 587-706, 767-835; `sched.h` 961-969) | reference counts of files, fs, signal handlers, mms, namespaces; the list of mms; `user->processes`, module use counts, `nr_threads` | `copy_files`, `copy_fs`, `copy_sighand`, `copy_mm`, `dup_mmap`, `mmput`, the `bad_fork` exits | `ForkResources`, `AtomicFork` (abstract) |
| Process ids (`fork.c` 88-142; `sched.h` 606-631, 961-969) | `last_pid`, `next_safe`, the pid hash, the list of tasks | `get_pid`, `hash_pid`, `unhash_pid`, `find_task_by_pid` | `ProcessIds` |
| Wait queues (`sched.c` 1038-1186, `sched.h` 876-926, `fork.c` 43-70) | the list of waiters, their states | `wait_event*`, `sleep_on`, `__wake_up` | `WakeUp`, `WaitEvent` |
| Completions, vfork (`sched.c` 1095-1123, `fork.c` 312-322, 656-662, 794-796) | `done`, the queue, `vfork_done` | `complete`, `wait_for_completion`, `mm_release` | `WakeUp`, `Completion` |
| SMP balancing and migration (`sched.c` 426-468, 579-790, 1906-2068) | a runqueue per CPU with its lock, `migration_queue`, `migration_thread`; `cpu` and `cpus_allowed` of every task | `load_balance`, `idle_tick`, `double_lock_balance`, the fast migration of `try_to_wake_up`, `set_cpus_allowed`, `migration_thread`, `migration_init` | `Migration` |
| Interactivity (`sched.c` 30-113, 295-351) | `sleep_avg` | `TASK_INTERACTIVE`, `effective_prio` | only as a nondeterministic choice in `Sched` |
| System calls that only read (`hw2_syscalls.c`; `sched.c` getters) | none of their own | one read under a lock | no behaviour of their own |
| Debug output, test programs | | | not modelled |

### Interactions

* The CPU is shared state: `rq->curr` is the task that executes. It calls the
  scheduler directly (system calls, sleeping) and is interrupted by the timer
  (`scheduler_tick()`) and by handlers that wake other tasks. There is no
  preemption inside the kernel: a switch happens in `schedule()` only, called by
  a task that sleeps or yields, or from `entry.S` when `need_resched` is set.
* `do_fork()` writes the fields the scheduler reads (slice, policy,
  `justGotForked`), calls `scheduler_tick()` itself when it halves a slice of
  one tick, and leaves a flag from which `enqueue_task()` later decides that it
  has to move the *parent* too. This call of `enqueue_task()` for another task,
  with the array of the child, is the most delicate interaction in the code.
* `wait()` of the parent calls `sched_exit()`, which gives the rest of the
  child's first slice back.
* `do_fork()` blocks in its copies, between taking a pid and linking the child,
  between the check of `max_threads` and the count it checks, and with some of the
  child's references taken: other forks, exits and execs run there.
* Wait queues and completions use `schedule()` and `try_to_wake_up()` as
  their two primitives; vfork's completion is a local variable of `do_fork()`
  which the child's `mm_release()` writes to.
* On several CPUs a task is moved by whoever holds the locks of both runqueues:
  `load_balance()` on the CPU that has too little, the migration thread of the CPU
  that has the task, a synchronous wakeup under the lock of the old runqueue alone.

### What is hard, and what correct means

* **Redundant state.** Lists, bitmap, `nr_active`, `nr_running`, `p->array`
  and `p->prio` say the same thing; `schedule()` trusts all of them and calls
  `list_entry()` on whatever the list head points to. Correct: they agree
  (`RunqueueExact`; `QueueExact` across CPUs), every task is on the array of its class
  (`HomeMatchesClass`), every `dequeue_task()` names the array the task is on
  (`NeverMisfiled`), and `schedule()` finds a task (`PickIsATask`), a best one
  (`BestTaskRuns`).
* **Interrupts between any two steps.** A wakeup between
  `set_current_state()` and `schedule()`; a tick that expires or lapses the
  task in a system call; a tick in `do_fork()`. Correct:
  `CurrentOnRunqueue`, `UninterruptibleExact`, and all of the above.
* **A class that changes while a task runs.** SHORT turns overdue, overdue
  turns OTHER, from the timer; the nice value is kept aside meanwhile. Correct:
  `ImplementsShortPolicy`, `SliceWithinRequest`.
* **Unsigned slices.** `time_slice` is unsigned, `requestedTime` signed; slices are
  halved, added, subtracted and compared. Correct: `SliceWithinRequest`,
  `ForkSharesSlice`, `ForkHasTime` (the `BUG()` of `do_fork()`).
* **Starvation.** SHORT goes before OTHER, may renew its request and may
  yield. Correct: `RenewalsEnd`, `OtherRuns`.
* **Life and death.** A freed task must not be linked anywhere
  (`DeadNotLinked`).
* **Half a fork.** Any copy may fail, with some of the references, charges and
  counts taken. Correct: every one is given back once (`ReferencesExact`), the list of
  mms stays a ring (`MmlistExact`), and the whole is atomic (`ForkIsAtomic`). What is
  checked before a blocking call is stale after it: `Limits`, `FsInOneNamespace`.
* **Cached knowledge of ids.** `next_safe` says up to where ids are free although
  tasks appear, change groups and wrap round meanwhile. Correct: `CacheSound`,
  `RightAnswer`, `FindsTheTask`.
* **Lost wakeups.** Correct: `NoLostWakeup`, `SleepOnIsWoken`,
  `WakeupPerCompletion`, `OneReturnPerCompletion`, and that every wait ends
  (`EventEndsWait`, `SignalEndsWait`, `EveryParentReturns`); `RequestNoticed` and
  `MigrationDone` for the migration threads.
* **Stack objects.** The vfork completion and every wait queue entry live in
  a frame that returns (`FrameOutlivesUse`).
* **Two locks.** Correct: no deadlock and `LockReleased`; and what was read before a
  lock was dropped or taken still leads a task to a CPU it may use (`AffinityKept`).

`PROJECT.json` lists these hazards line by line, with the properties that would
catch each. Some have none. For `sched_exit()` (`sched.c` 505), which caps the parent's slice at
`MAX_TIMESLICE` although a SHORT parent may own more, no document says what reaping
means for a SHORT parent, so there is no promise to state. The others go wrong in the code as it is, so that
the properties of their part have them as a premise: what follows a failure of `get_pid()` or a group
changed during a fork, a second setter of a mask, the second special insertion of `sched.c` 281, the missing preemption of `sched.c` 455. Section 4 describes them.

## 2. The modules and the code

```
 PrioArray <-- Sched <-- MCSched           ShortPolicy <.. Sched           (refinement)
                 ^                         AtomicFork  <.. ForkResources   (refinement)
                 |
            SchedProofs <-- HomeProofs

 WakeUp <-- Completion <-- CompletionProofs
    ^
    +------ WaitEvent <-- WaitEventProofs

 ForkResources <-- MCForkResources, ForkResourcesProofs
 Migration     <-- MCMigration, MigrationProofs
 ProcessIds    <-- MCProcessIds, ProcessIdsProofs

 CollectionLemmas <-- every module of proofs
```

### Run queues and the scheduler

**PrioArray** has the four `prio_array`s and the list operations. A circular
list with a head is the sequence of its entries; `list_add`, `list_add_tail`,
`list_del` are operations on sequences. `array_dequeue` keeps apart the list an
entry is unlinked from (where it *is*) and the array whose counter and bitmap
change (the *argument* of `dequeue_task()`): a wrong argument corrupts two
arrays, as in C. `ArraysExact` says that the copies of the information agree.

**Sched** is the uniprocessor kernel. Its state is `task` (the `task_struct`s),
`rq`, `pc` (where each task is in its system call) and `child` (the task a
`do_fork()` builds). Kernel functions are operators of the same name on
`S = [task, rq]`; a handler is their composition, so an action contains
everything the handler does. `rq.misfiled` and `rq.panic` are not in the code:
the first records that a `dequeue_task()` named a wrong array, the second stops
the model where the C code would use a list head as a task or executes
`BUG()`.

| action | code |
|---|---|
| `Tick` | timer interrupt, `scheduler_tick()` |
| `Wake(p)` | `wake_up_process(p)` from an interrupt or the current task |
| `Reschedule` | `schedule()` from `entry.S`, the idle loop, or kernel code that waits |
| `SysEnter`, `SysReturn` | entering the kernel, and a call with no effect here or an error return |
| `SetState` | `set_current_state()` before sleeping, or taking it back |
| `Yield` | `sys_sched_yield()` with its `schedule()` |
| `RenewShort`, `MakeShort`, `SetNormal` | the three ways through `setscheduler()` |
| `SetNice` | `sys_nice()`, `sys_setpriority()` with `set_user_nice()` |
| `ForkCopy`, `ForkFail`, `ForkSplit`, `ForkWake` | `do_fork()` up to the copies, its failure exits, the section under `cli`, the end |
| `Exit`, `Reap` | `do_exit()` and `wait4()`, external; `sched_exit()` is in the repository |

`do_fork()` is four steps because interrupts are open between them, and
tasks can be switched during the copies. `Workload` names the system calls
and interrupt windows an instance contains; a proof is for every `Workload`.

Abstractions of Sched. `sleep_avg` is replaced by `Bonuses`, the set of dynamic
bonuses it can be worth at any moment, and "is interactive, or the expired
array has waited too long" by a choice (`toExpired`). Checks of permissions are
refusals that may happen (`SysReturn`). A pending signal is a choice in
`schedule()`. `enqueue_task()` calls itself for a flagged parent (`sched.c` 285), and so on up the
family; the operator follows two generations. That is the code for any three tasks, which is
what the runs have, and for any number as long as no three ancestors in a row are flagged; a longer chain takes flags
left behind by `CLONE_PARENT`. It is not a recursive definition because the prover cannot
reason about what one computes. `sched_setscheduler` on a real-time target takes any
priority but the one kept for `MAX_USER_RT_PRIO`. `sched_init()` and the
creation of init are the initial state.

**ShortPolicy** is the abstract specification: processes with a class and a
nice value, no queues, slices or priorities. `Sched` implements it with the
mapping at the end of the module: the nice value of an overdue task is the one
saved in `overdue_static_prio`.

### fork

**ForkResources** is `do_fork()` as far as resources go. `at[c]` is the label of
`do_fork()` that works on the `task_struct` `c`, named after the resource it
copies or gives back; `res` has the pointers, `count` the reference counts, `mmlist` the
links of the mms (`next`, `prev`, also of objects that are not on the list) and `mmlist_nr`.
A step is the code between two points where `do_fork()` can block, so any number of
forks are in progress at once, while other tasks exec and exit. All tasks are of one user, with
one constant `RLIMIT_NPROC` (`setrlimit()` is not in the repository); whether the caller of `do_fork()` is
`capable()`, and so exempt from that limit (`fork.c` 625-626), is a choice at each call.

| action | code |
|---|---|
| `do_fork` | the checks up to the first copy: flags, `RLIMIT_NPROC`, `max_threads`, the module counts, `get_pid()` |
| `copy(c, k)` | `copy_files()`, `copy_fs()`, `copy_sighand()`; `copy_namespace()` is external |
| `copy_mm`, `mm_init`, `dup_mmap` | `copy_mm()`: the allocation with its `memcpy()`; `mm_init()`, `init_new_context()` and the head of `dup_mmap()` with the `list_add()`; the mappings |
| `thread_fails`, `SET_LINKS` | `copy_thread()` fails; the rest of `do_fork()` |
| `bad_fork_exit`, `bad_fork_cleanup` | the `bad_fork` exits, one label at a time while they block, then the rest |
| `exec`, `do_exit`, `release_task` | external code, modelled from the functions of `fork.c` it uses: `mm_alloc()`, `mmput()`, `unhash_process()` |

The memory of a cache is `slab[k]`, a set of addresses; an address is reused when its
count is zero. Memory charged for mappings (`vm_enough_memory()`) and the
contents of what is copied are left out. `exempt`, `peak` and `half` are history: the tasks that only a capability
let past `RLIMIT_NPROC`, the most forks there have been at once, and whether an mm was put before it was on the list.

**AtomicFork** is what fork promises: a child appears with every resource either
its parent's or one nobody has, and a fork that fails never happened. `ForkResources`
implements it; a child counts from `SET_LINKS` on.

**ProcessIds** has `get_pid()` with its two static variables, the list of tasks and
the hash. `get_pid` takes the next pid at once or begins the search; `for_each_task` is one turn of the loop
over the list, for a task that does not have the candidate among its ids; `repeat` is one for a task that
has it, with the `goto` to the label of that name or the return without a pid; `found` is the end of
the list. The search holds `lastpid_lock` and the list's lock for reading, so that no
other action is possible until it ends. Taking the pid, and
linking the child (`SET_LINKS`) or failing (`fork_fails`), are different steps; between them
others fork, exit (`unhash_process`) and change group and session (`setsid`,
`setpgid`, external). The order of the list of tasks matters to the search and is kept.

### Waiting

**WakeUp** reduces `schedule()`, `try_to_wake_up()` and `__wake_up_common()` to
what waiting depends on: the state and whether the task is on the runqueue.
**Completion** has `wait_for_completion()`, `complete()` and `mm_release()` with
the lock of the wait queue held from `Lock` to `Sleep` or `Take`, and in `complete()`
over both of its steps. Several parents and children share one completion, so
that exclusive entries, late arrivals and unrelated wakeups matter; vfork is
the case of one parent and one child. **WaitEvent** has `wait_event()`,
`wait_event_interruptible()` and the two `sleep_on()`s on one queue; a step is one
statement of the macro, since each is one access to shared state.

### Several CPUs

**Migration** is `sched.c` with `CONFIG_SMP`. A step is the code between two points
where another CPU can interfere: what is done under the lock of one runqueue is a step that
needs the lock free, and the lock is held across steps (`lock`) only where the code
takes a second one.

| action | code |
|---|---|
| `Preempt`, `Sleep` | `schedule()` of a task that stays on the runqueue or leaves it; with an empty runqueue it begins a `load_balance()` |
| `Tick` | `scheduler_tick()` and `idle_tick()`, as far as they balance |
| `LockBusiest`, `LockDropped`, `LockThis` | `double_lock_balance()` and the rest of `load_balance()` with `pull_task()` |
| `Wake`, `WakeSync`, `WakeSyncEnds` | `try_to_wake_up()`; with `sync`, the fast migration and its second turn |
| `SetCpusAllowed`, `WakeThread`, `Down`, `DownSleeps` | `set_cpus_allowed()`: under the lock, the `wake_up_process()`, and `down()` (external) |
| `Boot`, `Bind`, `Top`, `ThreadSleeps` | `migration_thread()` up to its `schedule()`, and `migration_init()` |
| `ReadDest`, `ReadSrc`, `LockFirst`, `LockSecond`, `Up` | the service of one request: `cpus_allowed` and `p->cpu` are read without a lock, the two locks are taken in ascending order |

Abstractions: the active and expired arrays of a runqueue are one, and any of its
tasks may be next except that the migration thread goes first (priorities are in
`Sched`); the load of an earlier balancing (`prev_nr_running`) is any number; no interrupt
arrives while interrupts are off. Not in it: `wait_task_inactive()`, `kick_if_running()`,
and tasks that exit while they are migrated.

## 3. Runs

`tlc -config <cfg> <module>`. The times are of two workers.

| run (module) | question | states | time |
|---|---|---|---|
| `core` (`MCSched`) | sleep, wake, yield, policies, renewals (negative ones too), ticks: are the structures exact, is the best task chosen, is `ShortPolicy` implemented? | 344 000 | 75 s |
| `fork` (`MCSched`) | SHORT, overdue and OTHER tasks fork (children fork too), no interrupts in `do_fork()` | 975 000 | 75 s |
| `windows` (`MCSched`) | the same with exits, changes of nice, `CLONE_PARENT` and interrupts in `do_fork()` | 408 000 | 50 s |
| `live` (`MCSched`) | renewals end, OTHER tasks run | 4 300 | 105 s |
| `fork_resources` (`MCForkResources`) | up to five tasks fork, exec and exit while every allocation may fail: is every reference given back once, is a fork atomic, are the limits kept? | 369 000 | 150 s |
| `process_ids` (`MCProcessIds`) | four tasks in a space of three free pids: is `next_safe` true, is the answer of `get_pid()` free? | 1 400 000 | 80 s |
| `completion` (`Completion`) | three vfork parents and children on one completion | 42 000 | 40 s |
| `wait_event` (`WaitEvent`) | three kinds of waiters, two wakers, a signal | 55 000 | 40 s |
| `migration` (`MCMigration`) | two CPUs, two tasks and the migration threads: are runqueues exact, masks kept, requests served, locks released? | 36 000 | 160 s |
| `V_overdue_array`, `V_fork_bug` (`MCSched`), `V_left_behind` (`MCMigration`) | section 4 | | |

What they show beyond the proofs of section 5: an instance reaches what the theorems are about
(the mutants of `PROJECT.json` break each property in it), and what is not proved holds
in it. That is everything about liveness, among it that every migration that is asked for is done, and the
properties that have an assumption in section 5 for the workloads of the runs that go beyond it.

### Bounds

* `Sched`: two or three tasks, init among them. Three are needed for a task, its parent and
  a third one whose order matters (`fork`), two for every race between a
  running and a woken task. `windows` has two: with three it does not finish, and
  what a third would add there, children handed over to init, is
  covered by the proofs, which are for any set of tasks.
* Two real-time and two user priorities. With two user priorities a dynamic priority
  differs from the static one, is clamped at the border, and coincides
  with `OVERDUE_PRIO`, which is the last level.
* `HZ = 1`, requests of 1 to 3 s, slices of one or two ticks
  (`MIN_TIMESLICE`, `MAX_TIMESLICE`): a slice of one halves to nothing, of
  two to one, of three unevenly. `UINT = 16` is more than any sum of slices and
  small enough for the unsigned wrap of a negative difference to be seen. `core` has a request of -1 s as
well, which a renewal accepts; there `UINT = 8`, just above the largest slice, so that a
slice that has wrapped is used up and renewed within the run.
* `Bonuses = {0, 1}`, or `{0}` where dynamic priorities are not the point.
* `Intact` ends a behaviour of `windows` at the first misfiled dequeue, and one of
  `fork_resources` at the first mm that is put unlisted, since counters drift without bound
  after it. The state it leads to is checked.
* `fork_resources`: `SmallSlab` has memory for three mms and two of every other kind, so
  allocations fail. There are five `task_struct`s, one more than either limit lets exist: `max_threads = 3` is
  passed by one when two tasks fork at once, and no more; `RLIMIT_NPROC = 4`, which counts the
  children being copied too, refuses the fifth process unless the caller is capable. All three are
  reached, and each half of `Limits` fails when its test is off by one. `SomeSharing` tries a process, a process with a namespace of its own,
  a thread with its own files, a child with only its own memory, and the combination that is rejected.
* `process_ids`: `PID_MAX = 5` and `RESERVED = 2` (300 in the code) leave three pids to four
  tasks: the counter goes round, and all ids get used. `Followed` ends a behaviour once `get_pid()` has
  found no pid or the counter went round within one fork (`exhausted`, `lapped`): after that the cache
  is wrong, as section 4 says. Each of the three history flags is needed: without any of them
  `CacheSound` fails.
* `migration`: two CPUs, tasks `a` and `b`, of which `b` is SHORT and so is not looked for by
  `load_balance()`; with `OwnAndOther` each sets its own mask, and `a` that of `b` too, so that the mask of `b` has two
  setters and that of `a` has one. With two CPUs the test
  `rq_src == rq` of `load_balance()` cannot go wrong. The safety properties were also checked
  with three tasks.
* `fork`, `fork_resources` and `process_ids` take the tasks other than init as a symmetry
  set; they have no liveness property.
* Deadlock is checked except in `windows` and `V_overdue_array`, in which the
  state after a panic has no successor.

### Fairness

`FairSpec` of `Sched` assumes that the timer keeps ticking (`WF(Tick)`), that the
return to user mode acts on `need_resched` (`WF(Preempt)`), that a system call which
does not sleep returns (`WF(SysReturn)`), and that an OTHER task that keeps
using up slices is found not interactive eventually (`SF(ExpireOther)`). The last is what
`sleep_avg` does, every tick takes one from it, and only as long
as nobody sleeps, so `live` has no `"sleep"`. No fairness is assumed
of a system call being made.

`OtherRuns` has the premise that from some time on nobody becomes SHORT again:
without it the property is false, because a task that asks for SHORT each
time it has been overdue comes before every task on the expired array for ever. That
is what the policy allows; no document promises otherwise.

In `Completion` every process that can take a step takes it, and a spinning
processor gets a lock that is free again and again (`SF`). In `WaitEvent` the
waiters and wakers run; nobody has to make the condition true, and
`EventEndsWait` is about conditions that stay true.

In `Migration` a CPU that executes kernel code goes on, and gets a spinlock that is
free again and again (`SF` of `InKernel` and `Balancing`, per CPU); a task in user mode loses the CPU in the end
(`SF(Preempt)`: its slice ends). `WakeSyncEnds` has fairness of its own:
a synchronous wakeup starts again when it has moved the sleeper, and could for ever
find it moved by somebody else; the code has no bound for that, only timing.

## 4. Where the documents and the code differ

Three have a run that ends in a counterexample.

* `V_overdue_array`: a tick between the `cli` section of `do_fork()` and
  `wake_up_forked_process()` makes the SHORT parent overdue with `justGotForked` set;
  `enqueue_task()` of the child then moves the overdue parent to `rt_short`. A `dequeue_task()` that names
  the wrong array is the one way the arrays go wrong, and the reason why `RunqueueExact` and
  `HomeMatchesClass` have `~rq.misfiled` as a premise.
* `V_fork_bug`: `do_fork()` copies the parent, blocks, and reads the policy again.
  If somebody made the parent SHORT meanwhile, the child is SHORT with a request of 0,
  turns overdue with a slice of `2 * 0`, and `BUG()` is reached by its own fork.
* `V_left_behind`: `migration_thread()` puts the task on the other CPU's runqueue with
  `activate_task()` alone (`sched.c` 2043). If that CPU is idle nobody reschedules it, and
  the task stays there without running, although the comments (1921, 1931-1933) consider the
  migration done.

Observed while modelling, without a run of their own:

* A renewal may have a negative `requested_time`: it passes the comparison, which is unsigned, and the
  difference added to `time_slice` wraps (`sched.c` 1345; `ControlPaths.txt` 12 and 29
  say when a request is refused). The task then has nearly `UINT_MAX` ticks until it renews for a positive
  time again. This happens in `core`; `SliceWithinRequest` is about the tasks whose last accepted request is not negative,
  and says that one accepted after a negative one leaves no trace of it.
* A SHORT task that wakes up does not preempt an OTHER task with an equal
  or better dynamic priority (`sched.c` 455; `Plan.txt` 94 states the order of the classes).
* While a SHORT task is in `do_fork()` with `justGotForked` set, an interrupt may wake another child of
  it: that child takes the special insertion of `enqueue_task()` (`sched.c` 281) and clears the flag, and the new child goes
  behind its parent. `ChildAheadOfEqualParent` is checked and proved without interrupts in that window.
* `set_user_nice()` compares with `static_prio` after assigning it (`sched.c` 1228), so
  a raised priority does not reschedule, which the comment above it (1225-1226) says it does.
* The comment at `fork.c` 720-722 (fork does not change the total of the slices) does
  not hold for an overdue parent, whose child gets a full copy; `ForkSharesSlice`
  is stated for the others.
* `HW2Test.cpp` 234 expects a child of a SHORT task to run first. The parent
  may have kept a dynamic priority better than its static one, and then goes first;
  `ChildAheadOfEqualParent` is what the code does ensure.
* `sched_exit()` (`sched.c` 505) caps the parent's slice at `MAX_TIMESLICE` although a
  SHORT parent may own more, so collecting a child can cost it time.
* A child copied before its parent was made SHORT is SHORT without `iWasShort`, and
  `was_short()` (`hw2_syscalls.h` 47) answers 0 for it.
* When `init_new_context()` fails, `copy_mm()` (`fork.c` 361) calls `mmput()` for an mm that is
  not on the list of mms yet, with the links `memcpy()` took from the parent: the list is
  torn and `mmlist_nr` one too small. On i386 that function only fails in code outside the repository.
* The comment at `fork.c` 632-636 says that the kernel lock keeps `nr_threads` from passing
  `max_threads`. The lock is given up while the copies block, and `Limits` states what is true:
  the limit is passed by up to the number of concurrent forks less one. (`RLIMIT_NPROC` is charged before the copies
  and is not passed, except by capable tasks, for which the comment at 619-624 has the reason.)
* After `get_pid()` has found no pid, `last_pid` and `next_safe` keep what the interrupted search left there, a
  range it has not looked at, and a later fork can hand out a pid in use (`fork.c` 113-117). The pid it
  began with is not tried again, so it finds none when one is free. A counter that goes round while a
  fork is copying can hand out the pid of the unlinked child, and a task that is put into another
  group by its parent while it forks (`setpgid()`) links a child with a group `next_safe` did not see.
* `migration_thread()` reads `cpus_allowed` without a lock (`sched.c` 2026) and does not look again when it
  has the locks, although the comment on it (1916-1917) describes a check. When two tasks set the mask of
  a third, it can be left where its mask does not allow it, with no request on its way. This happens
  to `b` in `migration`: `AffinityKept` has the premise that one task at most sets the mask (`Single`), and
  without it TLC and the proof both fail.
* Requests are put at the head of `migration_queue` (`sched.c` 1970), and the thread takes the first; and it starts over (`repeat`) when
  `p->cpu` has changed before it has both locks. Tasks that keep setting masks can hold up another caller for
  ever, by overtaking it or by moving the task. `MigrationDone` has the premise that this ends (`HoldsUp`).

## 5. Proofs

The `...Proofs` and `...Lemmas` modules are checked by `tlapm`, to the last leaf. They
assume only what the modules `ASSUME` of the constants.

### The scheduler

Assumed: a finite set of tasks, at least two user priorities, positive slices that fit in
an unsigned int, any bonuses, any requests (negative ones too), any `Workload`. In particular all interrupt
windows of `do_fork()` are open, and misfiled dequeues happen. `3 * HZ` ticks, the longest request, and twice that must fit in an unsigned int.
What is not assumed but built in is that `enqueue_task()` follows two generations of flagged
parents (section 2): for more than three tasks with flags left by `CLONE_PARENT` in three generations the theorems are about the model.

| theorem (`SchedProofs`) | what it says |
|---|---|
| `TypeCorrect` | `TypeOK` always: priorities index lists, slices fit in an unsigned int |
| `RunqueueCorrect` | `RunqueueExact` always: until a dequeue is misfiled, lists, bitmaps and counters are one set of tasks |
| `PickCorrect` | `PickIsATask` always: an empty list is never taken for a task before that |
| `CurrentCorrect` | `CurrentOnRunqueue` always |
| `DeadUnlinked` | `DeadNotLinked` always |

They all follow from one inductive invariant, `IInv` (lemma `Inductive`), and none
of the five is inductive alone: the counters are preserved only if
`deactivate_task()` finds a task that is on the runqueue, which `CurrentOnRunqueue` gives;
this one needs that exited tasks do not return, which needs `DeadNotLinked`; `enqueue_task()`
needs that the parent of a flagged child exists and is linked, which needs the
family relations (`Kin`, `Family`) through fork, exit and reaping; and a wakeup
of a half-built child is excluded only by what `pc` and `child` say about each
other (`Steps`). So

```
IInv == TypeOK /\ KernelType
        /\ (no panic => Sound /\ CurrentIn /\ Family /\ Steps)
        /\ (panic    => Stopped)
```

`Sound` is the invariant of the kernel functions. Its core is `Filed(S, T)`: the lists are
exactly those of the tasks that are not in `T`, the ones in transit between a dequeue
and an enqueue, always; the bitmaps and counters agree with the lists until
a task is misfiled. Every kernel function has a lemma that says what it does to `Filed`
and `Sound` (`Dequeue`, `EnqueueWith`, `EnqueueChild`, `Activate`, `Deactivate`, ...),
so that a handler's proof is the composition of its calls; `Reaches(S, S2, W)` is
that composed relation. There is one lemma per action (`StepTick`, ..., `StepReap`), and
`StepNext` puts them together. The first lemmas of the module and `CollectionLemmas` have the facts about inserting
in and removing from sequences, first bits, and cardinalities that they rest on.

### The policy

The second half of `SchedProofs` is about who is in which class and with how much time.

| theorem (`SchedProofs`) | what it says | assumed besides |
|---|---|---|
| `PolicyCorrect` | `ImplementsShortPolicy`: `Sched` implements `ShortPolicy` | `do_fork()` does not wait in its copies |
| `BugUnreachable` | `ForkHasTime` always: `do_fork()` never reaches its `BUG()` | `Modest` |
| `SliceCorrect` | `SliceWithinRequest` always: where nobody forks, a slice is within the request, unless that is negative | |

`Modest` says that `do_fork()` does not wait in its copies (`"fork_block"` is not in
`Workload`), that no request is negative, and that twice the largest slice fits in an unsigned int. The first is the
negation of what `V_fork_bug` needs: together they say that waiting in the copies, with another process making
the parent SHORT meanwhile, is what makes the `BUG()` reachable, and that the interrupt windows
of `do_fork()`, misfiled dequeues and any history of forks and reaped children are not. For the same reason
`PolicyCorrect` needs it: a child copied before becomes SHORT without anybody having asked. Negative requests are excluded
for `BugUnreachable` because the addition that wraps can leave a slice of 0. `SliceCorrect` covers them; that it is about
workloads without forks is part of the property, because a collected child gives ticks back to a SHORT parent whatever that one asked for.

The argument needs nothing of the lists. A task's `Account` is the part of its `task_struct` the policy is made of, and
every kernel function has a lemma that says whose account it changes and how (`Keeps`, `Still`, `Changes`): enqueuing,
dequeuing, waking and switching change none, and a tick, a system call and the parts of
`do_fork()` change those of one or two tasks. Two invariants are added to `IInv`:

```
Policies == AllMarked /\ ForkAlone /\ CopyFollows
Budget   == (Modest => no BUG) /\ every task is Funded /\ only Workloads with "fork" are inside do_fork()
Funded   == (Modest => Solvent) /\ ("fork" not in Workload => Granted)
```

`ForkAlone` and `CopyFollows` are why the policy `do_fork()` reads again after its copies is
the one it copied. `Solvent` bounds slices, requests and nice values at once: a slice is not zero after a tick
unless the task's next class refills it, which needs that the request was legal when it became SHORT
and that the saved nice value of an overdue task is a user's; the renewal, whose comparison is unsigned, needs that
no slice is so large that it wraps. `Granted` is `SliceWithinRequest` and that the slice is not a child's first: a renewal
for a positive time is accepted only if it is more than `requestedTime - time_slice`, and leaves the difference, also when both wrapped before.

### The array a task waits on

| theorem (`HomeProofs`) | what it says | assumed besides |
|---|---|---|
| `HomeCorrect` | `HomeMatchesClass` always: a task waits on the array of its class, and an OTHER task on the active or the expired one | |
| `LoadCorrect` | `UninterruptibleExact` always: `nr_uninterruptible` is the number of the sleepers it stands for | |
| `DequeueCorrect` | `NeverMisfiled` always: every `dequeue_task()` names the array its task is on | `Calm` |
| `SwitchCorrect` | `BestTaskRuns`: who gets the CPU is of the first class with a runnable task, and of the best priority in it | |
| `SharesCorrect` | `ForkSharesSlice`: the two parts of a slice of 2 to `UINT - 2` ticks are the whole of it, unless the parent is overdue | |
| `ChildCorrect` | `ChildAheadOfEqualParent`: a SHORT child waits before a parent of its priority | `Calm` |

Here the kernel functions are described by the `Traits` they give the task they move and by the array they
leave it on (`Moved`, `Lodges`), and for `nr_uninterruptible` by who is asleep before and after (`SameLoad`). To `IInv` is added

```
Placed == no panic => Homed /\ Awake /\ Load /\ Childless
Tidy   == nothing misfiled /\ (no panic => FlaggedBetween /\ CopyNotOverdue)
```

`Homed` is more than `HomeMatchesClass`: it says of sleeping tasks too that class, priority and `iAmOverdue` fit together, because
`activate_task()` files a task by them. It is not inductive without `Awake` (whoever is on a runqueue and not on the CPU is
`TASK_RUNNING`): `schedule()` removes only the task that had the CPU, and the change of policy of a waiting task
relies on that. `Load` needs `Childless`: a task in `do_fork()` can sleep in its copies, with a child that has copied its state and is
not counted.

`Tidy` follows who has `justGotForked` set. Under `Calm` that is only a SHORT task between the split of its slice
and `wake_up_forked_process()` (`FlaggedBetween`), so that `enqueue_task()` of a SHORT child moves a parent that is on `rt_short` as it
assumes. `Calm` excludes `CLONE_PARENT`, ticks and wakeups after the split, and a wait in the copies.
TLC finds `NeverMisfiled` violated with the first (the parent of the child is not who
was split), with the second (`V_overdue_array`), and with a wait in the copies together with interrupts there. With the wait alone it
finds no violation; the proof uses that the child has its parent's policy, which a wait makes false.

`SwitchCorrect` needs no invariant besides these. `schedule()` takes the first array that is not empty and its first list that is
not: `Homed` says of a task on each array which class it is, so nobody of a better class is on an array passed over, and
`RunqueueExact` that the bitmap finds the best priority of the array (`PickBest`). When `active` is empty the two are exchanged, and
the classes of all who wait on `expired` with them. `schedule()` is called at the end of other steps too (`yield()`, exit, waiting),
after which the lists are as good as before (`LodgesBest`).

`SharesCorrect` is about every workload and every request. Its bound is where rounding up for the child wraps (`UINT - 1` ticks, which only a renewal for
a negative time leaves). That the parent's half is rounded down and the child's up is arithmetic; a parent with two ticks or more keeps one, so that `do_fork()` does not call `scheduler_tick()` for it,
which would refill its slice.

For `ChildCorrect`, `enqueue_task()` must see the flag of the parent: then it takes the parent off `rt_short`, puts it back behind
its equals, and puts the child at the head. Without the flag the child would go to the tail, behind its parent. So one more
invariant is needed, again only under `Calm`:

```
Flagged == no panic => every SHORT task about to start its child has justGotForked
```

It is lost only if the split gives the parent its last tick while it stays SHORT, and that cannot be: `scheduler_tick()` makes a SHORT task whose
slice runs out overdue, or of its old class (`LastTick`).

### fork

Assumed: finite sets of tasks and objects, any memory, limits and combinations of flags.

| theorem (`ForkResourcesProofs`) | what it says |
|---|---|
| `ResourcesTypeCorrect` | `TypeOK` always: no count ever goes below zero |
| `ReferencesCorrect` | `ReferencesExact` always: counts are numbers of holders, charges numbers of tasks |
| `NamespacesCorrect` | `FsInOneNamespace` always |
| `LimitsCorrect` | `Limits` always: `RLIMIT_NPROC` but for the tasks a capability exempted, `max_threads` but for concurrent forks |
| `ForkCorrect` | `ForkIsAtomic`: `ForkResources` implements `AtomicFork` |
| `MmlistCorrect` | `MmlistExact` always: until an mm is put unlisted, the list of mms is one ring of those in use |

```
IInv == TypeOK /\ ReferencesExact /\ FsInOneNamespace /\ \A c \in Task : Sound(c)
Sound(c) == ParentLives(c) /\ NewMm(c) /\ Inherits(c) /\ Unshared(c) /\ Complete(c) /\ Accepted(c)
```

`ReferencesExact` alone is not inductive: that a `bad_fork` exit gives back what the child holds
needs that the pointers not copied yet are still the parent's (`Inherits`), that the parent
lives while it forks (`ParentLives`), that a new object has no other holder (`Unshared`, `NewMm`);
`FsInOneNamespace` needs that the flags were accepted (`Accepted`), since the namespace is copied long
after the fs. Lemma `Step` reduces a step that changes one task to what it does to that
task, its counts (`Counts`) and its charges (`Charges`), by `OneMore` of `CollectionLemmas`; there is one lemma per action.
`ForkCorrect` maps `SET_LINKS` to `Fork`, for which `Inherits` and `Unshared` are what is needed, `exec` and `do_exit` to `Renew`
and `Exit`, and everything else to no step.

`MmlistCorrect` needs to know of a ring only what `list_add()` and `list_del()` preserve: `next` and `prev` are inverse to each other on the
set of the listed, and no proper non-empty subset is closed under `next` (`Ring`). A new entry goes behind one that is on the ring;
a subset closed after the change is one closed before it, without the entry. That the neighbour is on the ring is `HeldIsListed`: `dup_mmap()` links the new mm
behind the parent's, which has a holder and so is listed. The links of an mm
not on the list, among them those `memcpy()` took from the parent, may have any value.

### Several CPUs

Assumed: `N` CPUs with a migration thread each, finitely many tasks, any of them SHORT, any `Calls`
(who sets whose mask).

| theorem (`MigrationProofs`) | what it says |
|---|---|
| `MigrationTypeCorrect` | `TypeOK` always: no `nr_running` goes below zero |
| `QueuesCorrect` | `QueueExact` always: `nr_running` counts the arrays, and a queued task is on its `cpu` |
| `RequestsCorrect` | `RequestNoticed` always: no migration thread sleeps over a request |
| `AffinityCorrect` | `AffinityKept` always: a task whose mask at most one task sets is where the mask allows, or a request is on its way, whoever sets the masks of the others |

```
IInv == TypeOK /\ QueueExact /\ RequestNoticed /\ Apart /\ Control /\ \A p \in Single : Placed(p)
```

`QueueExact` needs little about the locks: every step that moves a task
changes `nr_running`, `array` and `cpu` together, and what was looked at before a lock was taken is looked at again by the step
that acts on it; `Apart` (a runqueue is not balanced with itself) is the exception.
`Control` says what the queues of requests contain: `Queued`, a request is on the queue of the runqueue its task was on, once, and its
caller waits for it; `Served`, the one a migration thread works on is not on the queue any more; `ThreadSound`, a migration thread serves only after it has moved to
its own CPU and never leaves it; `Heard`, nobody waits for a thread that is not there. `Placed` follows a single request: until `up()`
the task is where it was when the request was made, or where it may be, and what the thread has read into `cpu_dest` is allowed by
the mask, because the only task that could change the mask is the one that waits. With a second setter
this last step fails, in the proof as in the run: the mask changes between the reading of `cpus_allowed` and the move (section 4).

### Waiting

| theorem | what it says |
|---|---|
| `WaitEventTypeCorrect`, `NoWakeupIsLost`, `SleepersAreWoken` (`WaitEventProofs`) | the types, `NoLostWakeup` and `SleepOnIsWoken`, for any number of waiters and wakers |
| `CompletionTypeCorrect`, `NoCompletionIsLost`, `CompletionsBalance`, `FrameIsSafe` (`CompletionProofs`) | the types (`done` is bounded), `WakeupPerCompletion`, `OneReturnPerCompletion`, `FrameOutlivesUse`, for any number of parents and children |

`CollectionLemmas` says what joining and leaving do to a queue of any length (`HeadJoined`, `TailJoined`, `EntryRemoved`). `OneWoken`, in
`CompletionProofs`, is the important fact about a wakeup: a scan for one exclusive task leaves nobody asleep, or one task more is awake.

In `WaitEvent` the invariant adds where each waiter may be (`Labels`), that the entries
on the queue are those of the waiters between two labels (`QueueSound`), and that only `schedule()` takes a task
off the CPU (`SleepSound`). `AllTold` is stronger than `NoLostWakeup`: when all is told, nobody is even on the way to
`schedule()` with a sleeping state.

In `Completion`, `Told` is the strengthening of `WakeupPerCompletion`: the queued parents that are
not going to sleep (`Up`), not only those that are awake, are at least `done`, or nobody sleeps. A `Take`
of a queued parent loses one of each, and `complete()` adds one of each, or makes the
second half true. `FrameSound` says that the lock holds back the last `Take`; with `Balance` and as many parents as children it gives `FrameOutlivesUse`.

### Process ids

Assumed: any tasks, any `PID_MAX` and reserved pids below it, any hash function. Nothing is assumed of how many tasks or chains there are.

| theorem (`ProcessIdsProofs`) | what it says |
|---|---|
| `PidTypeCorrect` | `TypeOK` always: only a linked task forks, `last_pid` and `next_safe` are in range |
| `CacheCorrect` | `CacheSound` always: no linked task has an id between `last_pid` and `next_safe` |
| `HashCorrect` | `FindsTheTask` always: `find_task_by_pid()` finds exactly the task with the pid |
| `AnswerCorrect` | `RightAnswer`: the pid is nobody's id, not even of a child that is being copied; none only if all are in use but, maybe, the one the search began with |

Like the properties, the invariants below are about executions in which `get_pid()` has not failed (after which `next_safe` stands for nothing) and no search has gone
round while a fork was copying (two children could then have one pid; section 4 has both), which is `Sane`; `RightAnswer` is also about
executions in which nobody changed group while it forked (`regrouped`). What the code does after these (section 4) no property covers. `Chained`, `Passed` and `Tried` hold without that.

```
IInv == TypeOK /\ Chained /\ Called /\ Distinct /\ PidsBeyond /\ IdsBeyond /\ Passed /\ Inherits /\ Tried
```

`CacheSound` is not inductive: a child that is linked brings ids the search could not see. Its pid is not above `last_pid`, because pids are
handed out in ascending order (`Distinct`); its other ids are its parent's (`Inherits`), which were there for the search to see, unless the
parent has changed its group since (`regrouped`; then only pids are covered, `PidsBeyond`, and this is enough for no pid to be handed out
twice). After a search the cache is right because of what is known in its course (`Passed`): the tasks before the
one at hand do not have the candidate and have no id between it and `next_safe` (lemma `LowerSafe`). `Tried` is the other
half of the search: every candidate before this one, counted from where the search began and across the wrap, is in use, so that
all but the one it began with are when it comes round. `FindsTheTask` follows from `Chained`, that a chain has exactly the linked tasks whose pid
hashes to it, and `Distinct`.

### Only model-checked

Liveness (`RenewalsEnd`, `OtherRuns`, `EveryParentReturns`,
`SignalEndsWait`, `EventEndsWait`, `MigrationDone`, `LockReleased`), which the prover does not do. (Where a theorem has an assumption, its property is false without it, or not proved: `NeverMisfiled` is not true
of workloads beyond `Calm` but for a wait in the copies.)

## 6. Plan

Done, in this order: `PrioArray`, `Sched` (ticks, wakeups, schedule; then setscheduler, nice,
yield; then fork, exit), `ShortPolicy` and the refinement, `SchedProofs`, `WakeUp`, `Completion`, `WaitEvent`, `ForkResources` with `AtomicFork`, `ProcessIds`, `Migration`,
`ForkResourcesProofs`, `WaitEventProofs`, `CompletionProofs`, the policy in `SchedProofs`, `HomeProofs`, `MmlistCorrect`, `MigrationProofs`,
the search of `get_pid()` in steps, `ProcessIdsProofs`.

What could follow: three CPUs with fairness in `Migration`; `exit()` of a
task whose migration has been asked for.

## 7. Not modelled, and why

The interactivity arithmetic (`TASK_INTERACTIVE`, `DELTA`, the growth of `sleep_avg`) is a pure function of two numbers which a
unit test reaches; `Sched` allows all of its results. Exception entries, register handling and
ptrace in `entry.S` have no state the scheduler
shares. The getters, `hw2_syscalls.c`, `show_state()` and the low-latency tables read one
value or print. `sleep_on_timeout()` and its like end in `schedule_timeout()`, which is
not in the repository. `wait_task_inactive()` spins until it reads a value, and `kick_if_running()` sends an interrupt.
The test programs have no logic of the system.
