-------------------------- MODULE MigrationProofs --------------------------
(***************************************************************************)
(* Theorems about Migration, for any number of CPUs and tasks: the         *)
(* runqueues are exact, no request is slept over, and a task whose mask is *)
(* set by one task only is where the mask allows.                          *)
(***************************************************************************)
EXTENDS Migration, CollectionLemmas

-----------------------------------------------------------------------------
(* The inductive invariant.                                                *)

\* A task that has asked for a migration, and one that still waits for it at
\* the migration thread of c.
Caller(u) == at[u] \in {"wake", "down"}
Waits(u, c) == Caller(u) /\ sem[u] = 0 /\ rq[u] = c

\* What a migration thread does when it has bound itself to its runqueue, and
\* when it serves a request.
Looping == {"top", "sched", "dest", "src", "first", "second", "up"}
Working == {"dest", "src", "first", "second", "up"}

\* The migration thread m of c is on CPU 0 until it has itself moved to c, and
\* stays there.
ThreadSound(c, m) ==
    /\ migration_thread[c] \in {m, NULL}
    /\ migration_thread[c] = m <=> at[m] \in Looping
    /\ at[m] \in Looping \cup {"bind"} => cpu[m] = c /\ cpus_allowed[m] = {c}
    /\ at[m] = "boot" => cpu[m] = 0 /\ cpus_allowed[m] = {0}
    /\ Caller(m) => cpus_allowed[m] = {c} /\ req[m] = m
    /\ at[m] \notin {"user", "sync"}

UserSound(u) ==
    /\ at[u] \in {"user", "sync", "wake", "down"}
    /\ at[u] = "sync" => req[u] \in User
    /\ Caller(u) => <<u, req[u]>> \in Calls

\* The requests on a queue wait, each of them once; one that is worked on
\* waits too, and is not on the queue any more.
Queued(c) ==
    \A i \in 1 .. Len(migration_queue[c]) :
        /\ Waits(migration_queue[c][i], c)
        /\ \A j \in 1 .. Len(migration_queue[c]) :
             migration_queue[c][i] = migration_queue[c][j] => i = j

Served(c) ==
    at[thread[c]] \in Working =>
        /\ Waits(req[thread[c]], c)
        /\ \A i \in 1 .. Len(migration_queue[c]) : migration_queue[c][i] # req[thread[c]]

\* Requests are made of migration threads that are there.
Heard(u) == Caller(u) => migration_thread[rq[u]] # NULL

Control ==
    /\ \A c \in CPU : ThreadSound(c, thread[c]) /\ Queued(c) /\ Served(c)
    /\ \A u \in User : UserSound(u)
    /\ \A u \in Task : Heard(u)

\* A task of Single is where it may be or where it was when the request for it was
\* made, and the migration thread reads a CPU where it may be.
Placed(p) ==
    /\ Called(p) \/ cpu[p] \in cpus_allowed[p]
    /\ \A u \in Task : Caller(u) /\ req[u] = p =>
         /\ cpu[p] = rq[u] \/ cpu[p] \in cpus_allowed[p]
         /\ sem[u] = 1 => cpu[p] \in cpus_allowed[p]
    /\ \A c \in CPU : at[thread[c]] \in Working /\ target(thread[c]) = p =>
         /\ at[thread[c]] \in {"src", "first", "second"} => cpu_dest[thread[c]] \in cpus_allowed[p]
         /\ at[thread[c]] = "up" => cpu[p] \in cpus_allowed[p]

\* A runqueue is not balanced with itself.
Apart == \A c \in CPU : balance[c].at # "none" => balance[c].busiest # c

IInv ==
    /\ TypeOK /\ QueueExact /\ RequestNoticed /\ Apart
    /\ Control
    /\ \A p \in Single : Placed(p)

-----------------------------------------------------------------------------
(* Threads, CPUs and masks.                                                *)

LEMMA Constants ==
    /\ N \in Nat /\ 0 \in CPU /\ IsFiniteSet(CPU) /\ IsFiniteSet(Task)
    /\ \A c \in CPU : thread[c] \in Thread /\ thread[c] \in Task /\ thread[c] \notin User
    /\ \A c, d \in CPU : thread[c] = thread[d] => c = d
    /\ \A t \in Thread : \E c \in CPU : t = thread[c]
    /\ \A t \in Task : t \in User \/ t \in Thread
    /\ Idle \notin Task /\ NULL \notin Task /\ NULL \notin CPU
    /\ NULL \notin CPU \X {"active", "rt_short"}
<1>1. IsFiniteSet(CPU)
  BY MigrationAssumption, FS_Interval DEF CPU
<1>2. IsFiniteSet(Thread)
  <2>1. thread \in [CPU -> Thread] /\ \A t \in Thread : \E c \in CPU : thread[c] = t
    BY MigrationAssumption DEF Thread
  <2>2. thread \in Surjection(CPU, Thread)
    BY <2>1 DEF Surjection
  <2> QED BY <2>2, <1>1, FS_Surjection
<1>3. IsFiniteSet(Task)
  <2>1. IsFiniteSet(User)
    BY MigrationAssumption
  <2> QED BY <2>1, <1>2, FS_Union DEF Task
<1> QED BY <1>1, <1>3, MigrationAssumption DEF CPU, Thread, Task

\* The first CPU of a mask.
LEMMA First == ASSUME NEW mask \in SUBSET CPU, mask # {} PROVE ffs(mask) \in mask
<1>1. mask \in SUBSET Nat
  BY MigrationAssumption DEF CPU
<1>2. \E c \in mask : \A d \in mask : c <= d
  BY <1>1, Least
<1> QED BY <1>2 DEF ffs

-----------------------------------------------------------------------------
(* Runqueues.                                                              *)

Place == CPU \X {"active", "rt_short"}

\* The pair of nr_running and array, and the first part of QueueExact for it.
Queues == [nr : [CPU -> Int], array : [Task -> Place \cup {NULL}]]

Counted(q) == \A c \in CPU : q.nr[c] = Cardinality(on_rq(q, c))

LEMMA OnRq ==
    /\ \A q, c : IsFiniteSet(on_rq(q, c)) /\ Cardinality(on_rq(q, c)) \in 0 .. Cardinality(Task)
    /\ \A q, c, t : t \in on_rq(q, c) <=> t \in Task /\ q.array[t] # NULL /\ q.array[t][1] = c
<1> SUFFICES ASSUME NEW q, NEW c
             PROVE  IsFiniteSet(on_rq(q, c)) /\ Cardinality(on_rq(q, c)) \in 0 .. Cardinality(Task)
  BY DEF on_rq
<1>1. on_rq(q, c) \subseteq Task
  BY DEF on_rq
<1>2. /\ IsFiniteSet(on_rq(q, c)) /\ Cardinality(on_rq(q, c)) <= Cardinality(Task)
  BY <1>1, Constants, FS_Subset
<1> QED BY <1>2, Constants, FS_CardinalityType

\* activate_task() of a task that is on no runqueue.
LEMMA Activate ==
    ASSUME NEW q \in Queues, Counted(q), NEW p \in Task, q.array[p] = NULL, NEW c \in CPU
    PROVE  LET q2 == activate_task(q, p, c)
           IN  /\ q2 \in Queues /\ Counted(q2)
               /\ \A t \in Task : q2.array[t] = IF t = p THEN <<c, home(p)>> ELSE q.array[t]
<1> DEFINE q2 == activate_task(q, p, c)
<1>1. <<c, home(p)>> \in Place /\ <<c, home(p)>>[1] = c /\ <<c, home(p)>> # NULL
  BY Constants DEF Place, home
<1>2. /\ q2.nr \in [CPU -> Int] /\ q2.array \in [Task -> Place \cup {NULL}]
      /\ \A d \in CPU : q2.nr[d] = IF d = c THEN q.nr[d] + 1 ELSE q.nr[d]
      /\ \A t \in Task : q2.array[t] = IF t = p THEN <<c, home(p)>> ELSE q.array[t]
      /\ q2 \in Queues
  BY <1>1 DEF activate_task, Queues
<1> HIDE DEF q2
<1>3. ASSUME NEW d \in CPU
      PROVE  q2.nr[d] = Cardinality(on_rq(q2, d))
  <2>1. \A t : t # p => (t \in on_rq(q, d) <=> t \in on_rq(q2, d))
    BY <1>2, OnRq
  <2>2. p \notin on_rq(q, d) /\ (p \in on_rq(q2, d) <=> d = c)
    BY <1>1, <1>2, OnRq
  <2>3. Cardinality(on_rq(q2, d)) = IF d = c THEN Cardinality(on_rq(q, d)) + 1
                                    ELSE Cardinality(on_rq(q, d))
    <3>1. Cardinality(on_rq(q2, d)) =
            IF p \in on_rq(q2, d) /\ p \notin on_rq(q, d) THEN Cardinality(on_rq(q, d)) + 1
            ELSE IF p \in on_rq(q, d) /\ p \notin on_rq(q2, d) THEN Cardinality(on_rq(q, d)) - 1
            ELSE Cardinality(on_rq(q, d))
      BY <2>1, OnRq, OneMore
    <3> QED BY <3>1, <2>2
  <2> QED BY <2>3, <1>2 DEF Counted
<1> QED BY <1>2, <1>3 DEF q2, Counted

\* deactivate_task() of a task that is on the runqueue it names.
LEMMA Deactivate ==
    ASSUME NEW q \in Queues, Counted(q), NEW c \in CPU, NEW p \in Task,
           q.array[p] # NULL, q.array[p][1] = c
    PROVE  LET q2 == deactivate_task(q, p, c)
           IN  /\ q2 \in Queues /\ Counted(q2)
               /\ \A t \in Task : q2.array[t] = IF t = p THEN NULL ELSE q.array[t]
<1> DEFINE q2 == deactivate_task(q, p, c)
<1>2. /\ q2.nr \in [CPU -> Int] /\ q2.array \in [Task -> Place \cup {NULL}]
      /\ \A d \in CPU : q2.nr[d] = IF d = c THEN q.nr[d] - 1 ELSE q.nr[d]
      /\ \A t \in Task : q2.array[t] = IF t = p THEN NULL ELSE q.array[t]
      /\ q2 \in Queues
  BY DEF deactivate_task, Queues
<1> HIDE DEF q2
<1>3. ASSUME NEW d \in CPU
      PROVE  q2.nr[d] = Cardinality(on_rq(q2, d))
  <2>1. \A t : t # p => (t \in on_rq(q, d) <=> t \in on_rq(q2, d))
    BY <1>2, OnRq
  <2>2. p \notin on_rq(q2, d) /\ (p \in on_rq(q, d) <=> d = c)
    BY <1>2, OnRq
  <2>3. Cardinality(on_rq(q2, d)) = IF d = c THEN Cardinality(on_rq(q, d)) - 1
                                    ELSE Cardinality(on_rq(q, d))
    <3>1. Cardinality(on_rq(q2, d)) =
            IF p \in on_rq(q2, d) /\ p \notin on_rq(q, d) THEN Cardinality(on_rq(q, d)) + 1
            ELSE IF p \in on_rq(q, d) /\ p \notin on_rq(q2, d) THEN Cardinality(on_rq(q, d)) - 1
            ELSE Cardinality(on_rq(q, d))
      BY <2>1, OnRq, OneMore
    <3> QED BY <3>1, <2>2
  <2> QED BY <2>3, <1>2 DEF Counted
<1> QED BY <1>2, <1>3 DEF q2, Counted

\* pull_task() of the tasks of S, all of them on the runqueue d, to c.
pulled(q, c, d, S) ==
    [nr |-> [q.nr EXCEPT ![d] = @ - Cardinality(S), ![c] = @ + Cardinality(S)],
     array |-> [t \in Task |-> IF t \in S THEN <<c, "active">> ELSE q.array[t]]]

LEMMA Pulled ==
    ASSUME NEW q \in Queues, Counted(q), NEW c \in CPU, NEW d \in CPU, c # d,
           NEW S \in SUBSET {t \in Task : q.array[t] = <<d, "active">>}
    PROVE  pulled(q, c, d, S) \in Queues /\ Counted(pulled(q, c, d, S))
<1> DEFINE q2 == pulled(q, c, d, S)
<1>0. \A e \in CPU : <<e, "active">>[1] = e /\ <<e, "active">> # NULL /\ <<e, "active">> \in Place
  BY Constants DEF Place
<1>1. /\ \A e \in CPU : <<e, "active">>[1] = e /\ <<e, "active">> # NULL /\ <<e, "active">> \in Place
      /\ S \subseteq Task
      /\ \A t \in S : t \in Task /\ q.array[t] # NULL /\ q.array[t][1] = d
  BY <1>0
<1>2. IsFiniteSet(S) /\ Cardinality(S) \in Nat
  BY <1>1, Constants, FS_Subset, FS_CardinalityType
<1>3. /\ q2.nr \in [CPU -> Int] /\ q2.array \in [Task -> Place \cup {NULL}]
      /\ \A e \in CPU : q2.nr[e] = IF e = c THEN q.nr[e] + Cardinality(S)
                                   ELSE IF e = d THEN q.nr[e] - Cardinality(S) ELSE q.nr[e]
      /\ \A t \in Task : q2.array[t] = IF t \in S THEN <<c, "active">> ELSE q.array[t]
      /\ q2 \in Queues
  BY <1>1, <1>2 DEF Queues, pulled
<1> HIDE DEF q2
<1>4. \A e : on_rq(q2, e) = IF e = c THEN on_rq(q, e) \cup S
                            ELSE IF e = d THEN on_rq(q, e) \ S ELSE on_rq(q, e)
  <2>1. ASSUME NEW e, NEW t \in Task
        PROVE  t \in on_rq(q2, e) <=> IF t \in S THEN e = c ELSE t \in on_rq(q, e)
    <3>1. /\ t \in on_rq(q2, e) <=> q2.array[t] # NULL /\ q2.array[t][1] = e
          /\ t \in on_rq(q, e) <=> q.array[t] # NULL /\ q.array[t][1] = e
      BY OnRq
    <3> QED BY <3>1, <1>1, <1>3
  <2>2. \A t \in S : t \in on_rq(q, d) /\ \A e : t \in on_rq(q, e) => e = d
    BY <1>1, OnRq
  <2>3. \A e, t : t \in on_rq(q2, e) \/ t \in on_rq(q, e) \/ t \in S => t \in Task
    BY <1>1, OnRq
  <2>4. ASSUME NEW e
        PROVE  on_rq(q2, e) = IF e = c THEN on_rq(q, e) \cup S
                              ELSE IF e = d THEN on_rq(q, e) \ S ELSE on_rq(q, e)
    <3>1. \A t : t \in on_rq(q2, e) <=>
            t \in Task /\ IF t \in S THEN e = c ELSE t \in on_rq(q, e)
      BY <2>1, <2>3
    <3>2. CASE e = c
      BY <3>1, <3>2, <2>3
    <3>3. CASE e # c /\ e = d
      BY <3>1, <3>3, <2>3
    <3>4. CASE e # c /\ e # d
      BY <3>1, <3>4, <2>2, <2>3
    <3> QED BY <3>2, <3>3, <3>4
  <2> QED BY <2>4
<1>5. on_rq(q, c) \cap S = {} /\ S \subseteq on_rq(q, d)
  BY <1>1, OnRq
<1>6. Cardinality(on_rq(q, c) \cup S) = Cardinality(on_rq(q, c)) + Cardinality(S)
  <2>1. IsFiniteSet(on_rq(q, c)) /\ Cardinality(on_rq(q, c)) \in Nat
    BY OnRq
  <2>2. Cardinality(on_rq(q, c) \cup S)
          = Cardinality(on_rq(q, c)) + Cardinality(S) - Cardinality(on_rq(q, c) \cap S)
    BY <2>1, <1>2, FS_Union
  <2>3. Cardinality(on_rq(q, c) \cap S) = 0
    BY <1>5, FS_EmptySet
  <2> QED BY <2>1, <2>2, <2>3, <1>2
<1>7. Cardinality(on_rq(q, d) \ S) = Cardinality(on_rq(q, d)) - Cardinality(S)
  <2>1. on_rq(q, d) \cap S = S
    BY <1>5
  <2>2. IsFiniteSet(on_rq(q, d))
    BY OnRq
  <2>3. Cardinality(on_rq(q, d) \ S)
          = Cardinality(on_rq(q, d)) - Cardinality(on_rq(q, d) \cap S)
    BY <2>2, FS_Difference
  <2> QED BY <2>1, <2>3
<1>8. ASSUME NEW e \in CPU
      PROVE  q2.nr[e] = Cardinality(on_rq(q2, e))
  BY <1>3, <1>4, <1>6, <1>7 DEF Counted
<1> QED BY <1>3, <1>8 DEF Counted, q2

\* What set_queues() makes of a pair that is counted.
LEMMA SetQueues ==
    ASSUME NEW q \in Queues, Counted(q), set_queues(q)
    PROVE  /\ nr_running' \in [CPU -> 0 .. Cardinality(Task)]
           /\ array' \in [Task -> (CPU \X {"active", "rt_short"}) \cup {NULL}]
           /\ (\A c \in CPU : nr_running[c] = Cardinality(on_rq(now, c)))'
           /\ array' = q.array
<1>1. /\ q.nr \in [CPU -> Int] /\ q.array \in [Task -> (CPU \X {"active", "rt_short"}) \cup {NULL}]
      /\ nr_running' = q.nr /\ array' = q.array
  BY DEF Queues, Place, set_queues
<1>2. \A c \in CPU : q.nr[c] = Cardinality(on_rq(q, c)) /\ q.nr[c] \in 0 .. Cardinality(Task)
  BY OnRq DEF Counted
<1>3. \A c \in CPU : on_rq(now, c)' = on_rq(q, c)
  BY <1>1 DEF on_rq, now
<1>4. (\A c \in CPU : nr_running[c] = Cardinality(on_rq(now, c)))'
  BY <1>1, <1>2, <1>3
<1> QED BY <1>1, <1>2, <1>4

LEMMA Now ==
    ASSUME TypeOK, QueueExact
    PROVE  /\ now \in Queues /\ Counted(now) /\ now.array = array /\ now.nr = nr_running
           /\ \A t \in Task : array[t] # NULL => array[t] = <<cpu[t], home(t)>> /\ array[t][1] = cpu[t]
           /\ \A t \in Task : array[t] # NULL => t \in on_rq(now, cpu[t])
           /\ \A t \in Task, c \in CPU : t \in on_rq(now, c) => array[t] # NULL /\ cpu[t] = c
<1>1. now \in Queues /\ now.array = array /\ now.nr = nr_running
  BY DEF TypeOK, Queues, Place, now
<1>2. Counted(now)
  BY <1>1 DEF QueueExact, Counted
<1>3. \A t \in Task : array[t] # NULL => array[t] = <<cpu[t], home(t)>> /\ array[t][1] = cpu[t]
  BY DEF QueueExact
<1> QED BY <1>1, <1>2, <1>3, OnRq

\* Who forgets its request changes nobody else's.
LEMMA Forgets ==
    ASSUME TypeOK, NEW t \in Task, forget(t)
    PROVE  /\ req' \in [Task -> Task] /\ rq' \in [Task -> CPU] /\ cpu_dest' \in [Task -> CPU]
           /\ \A u \in Task \ {t} : req'[u] = req[u] /\ rq'[u] = rq[u] /\ cpu_dest'[u] = cpu_dest[u]
<1>1. /\ req \in [Task -> Task] /\ rq \in [Task -> CPU] /\ cpu_dest \in [Task -> CPU] /\ 0 \in CPU
  BY Constants DEF TypeOK
<1>2. /\ req' = [req EXCEPT ![t] = t] /\ rq' = [rq EXCEPT ![t] = 0]
      /\ cpu_dest' = [cpu_dest EXCEPT ![t] = 0]
  BY DEF forget
<1> QED BY <1>1, <1>2

\* A task that executes in the kernel is on its runqueue and on no other CPU.
LEMMA Running ==
    ASSUME TypeOK, QueueExact, NEW c \in CPU, NEW t \in Task, Runs(t, c)
    PROVE  /\ cpu[t] = c /\ array[t] # NULL /\ array[t] = <<c, home(t)>> /\ array[t][1] = c
           /\ curr[c] = t /\ balance[c].at = "none"
           /\ \A d \in CPU : curr[d] = t => d = c
<1>1. t # Idle
  BY Constants
<1> QED BY <1>1, Now DEF QueueExact, Runs

LEMMA HomeKept == ASSUME migration_thread' = migration_thread PROVE \A t : home(t)' = home(t)
BY DEF home

LEMMA Candidates ==
    ASSUME NEW q, NEW c, NEW next \in candidates(q, c)
    PROVE  next = Idle \/ (next \in Task /\ q.array[next] # NULL /\ q.array[next][1] = c)
<1>1. next = Idle \/ next \in on_rq(q, c)
  BY DEF candidates
<1> QED BY <1>1, OnRq

\* QueueExact after a step: every part of it.
LEMMA Exact ==
    ASSUME (\A c \in CPU : nr_running[c] = Cardinality(on_rq(now, c)))',
           \A t \in Task : array'[t] # NULL => array'[t] = <<cpu'[t], home(t)'>>,
           \A c \in CPU : curr'[c] # Idle =>
             /\ cpu'[curr'[c]] = c
             /\ array'[curr'[c]] = NULL => balance'[c].by = "schedule" /\ balance'[c].at # "none"
    PROVE  QueueExact'
BY DEF QueueExact

\* The variables schedule() writes keep their types, and the runqueues are
\* exact: the task that goes to sleep is taken off its runqueue, and the next
\* one is on the runqueue of this CPU.
LEMMA Schedule ==
    ASSUME TypeOK, QueueExact, Apart, NEW c \in CPU, NEW sleeps \in BOOLEAN,
           balance[c].at = "none", sleeps => curr[c] \in Task, schedule(c, sleeps),
           cpu' = cpu, migration_thread' = migration_thread
    PROVE  /\ QueueExact' /\ Apart'
           /\ nr_running' \in [CPU -> 0 .. Cardinality(Task)]
           /\ array' \in [Task -> (CPU \X {"active", "rt_short"}) \cup {NULL}]
           /\ curr' \in [CPU -> Task \cup {Idle}] /\ need_resched' \in [CPU -> BOOLEAN]
           /\ lock' \in [CPU -> CPU \cup {NULL}] /\ balance' \in [CPU -> Balance]
           /\ \A t \in Task : array'[t] = IF sleeps /\ t = curr[c] THEN NULL ELSE array[t]
<1> DEFINE q == IF sleeps THEN deactivate_task(now, curr[c], c) ELSE now
<1>1. curr[c] # Idle => curr[c] \in Task /\ Runs(curr[c], c)
  BY DEF TypeOK, Runs
<1>2. /\ curr[c] \in Task => /\ Runs(curr[c], c) /\ array[curr[c]] # NULL /\ array[curr[c]][1] = c
                             /\ \A d \in CPU : curr[d] = curr[c] => d = c
  BY <1>1, Running, Constants
<1>3. /\ q \in Queues /\ Counted(q)
      /\ \A t \in Task : q.array[t] = IF sleeps /\ t = curr[c] THEN NULL ELSE array[t]
  <2>1. CASE sleeps
    <3>1. curr[c] \in Task /\ now \in Queues /\ Counted(now)
          /\ now.array[curr[c]] # NULL /\ now.array[curr[c]][1] = c /\ now.array = array
      BY <2>1, <1>2, Now
    <3>2. /\ deactivate_task(now, curr[c], c) \in Queues /\ Counted(deactivate_task(now, curr[c], c))
          /\ \A t \in Task : deactivate_task(now, curr[c], c).array[t]
                               = IF t = curr[c] THEN NULL ELSE now.array[t]
      BY <3>1, Deactivate
    <3> QED BY <2>1, <3>1, <3>2
  <2>2. CASE ~sleeps
    BY <2>2, Now
  <2> QED BY <2>1, <2>2
<1>4. /\ set_queues(q)
      /\ \/ /\ \E d \in busiest_when_idle(q, c) : begin_balance(c, TRUE, "schedule", d, 1)
            /\ curr' = curr /\ need_resched' = need_resched
         \/ /\ \E next \in candidates(q, c) : switch_to(c, next)
            /\ lock' = lock /\ balance' = balance
  BY DEF schedule
<1> HIDE DEF q
<1>5. /\ nr_running' \in [CPU -> 0 .. Cardinality(Task)]
      /\ array' \in [Task -> (CPU \X {"active", "rt_short"}) \cup {NULL}]
      /\ (\A d \in CPU : nr_running[d] = Cardinality(on_rq(now, d)))'
      /\ array' = q.array
  BY <1>3, <1>4, SetQueues
<1>6. \A t \in Task : array'[t] # NULL => array'[t] = <<cpu'[t], home(t)'>> /\ array'[t][1] = cpu'[t]
  BY <1>3, <1>5, Now, HomeKept
<1>7. ASSUME NEW d \in CPU, d # c, curr[d] # Idle
      PROVE  /\ cpu[curr[d]] = d /\ curr[d] \in Task
             /\ array'[curr[d]] = NULL => balance[d].by = "schedule" /\ balance[d].at # "none"
  <2>1. /\ cpu[curr[d]] = d /\ curr[d] \in Task
        /\ array[curr[d]] = NULL => balance[d].by = "schedule" /\ balance[d].at # "none"
    BY <1>7 DEF QueueExact, TypeOK
  <2>2. sleeps => curr[d] # curr[c]
    BY <1>2, <1>7
  <2> QED BY <2>1, <2>2, <1>3, <1>5
<1>8. CASE /\ \E d \in busiest_when_idle(q, c) : begin_balance(c, TRUE, "schedule", d, 1)
           /\ curr' = curr /\ need_resched' = need_resched
  <2>1. PICK d \in CPU : d # c /\ begin_balance(c, TRUE, "schedule", d, 1)
    BY <1>8 DEF busiest_when_idle
  <2>2. /\ lock' \in [CPU -> CPU \cup {NULL}] /\ balance' \in [CPU -> Balance]
        /\ balance'[c].by = "schedule" /\ balance'[c].at # "none"
        /\ balance'[c].busiest # c /\ \A e \in CPU \ {c} : balance'[e] = balance[e]
    BY <2>1 DEF begin_balance, TypeOK, Balance
  <2>3. curr[c] # Idle => cpu[curr[c]] = c
    BY DEF QueueExact
  <2>4. QueueExact'
    BY <1>5, <1>6, <1>7, <1>8, <2>2, <2>3, Exact
  <2>5. Apart'
    BY <2>2 DEF Apart
  <2> QED BY <1>3, <1>5, <1>8, <2>2, <2>4, <2>5 DEF TypeOK
<1>9. CASE /\ \E next \in candidates(q, c) : switch_to(c, next)
           /\ lock' = lock /\ balance' = balance
  <2>1. PICK next \in candidates(q, c) : switch_to(c, next)
    BY <1>9
  <2>2. next = Idle \/ (next \in Task /\ array'[next] # NULL /\ array'[next][1] = c)
    BY <1>5, Candidates
  <2>3. /\ curr' \in [CPU -> Task \cup {Idle}] /\ need_resched' \in [CPU -> BOOLEAN]
        /\ curr'[c] = next /\ \A d \in CPU \ {c} : curr'[d] = curr[d]
    BY <2>1, <2>2 DEF switch_to, TypeOK
  <2>4. next # Idle => cpu[next] = c /\ array'[next] # NULL
    BY <2>2, <1>6
  <2>5. QueueExact'
    BY <1>5, <1>6, <1>7, <1>9, <2>3, <2>4, Exact
  <2>6. Apart'
    BY <1>9 DEF Apart
  <2> QED BY <1>3, <1>5, <1>9, <2>3, <2>5, <2>6 DEF TypeOK
<1> QED BY <1>4, <1>8, <1>9

\* So with try_to_wake_up(): the task is on a runqueue, and running.
LEMMA WakeUp ==
    ASSUME TypeOK, QueueExact, NEW p \in Task, try_to_wake_up(p),
           cpu' = cpu, migration_thread' = migration_thread, curr' = curr, balance' = balance
    PROVE  /\ QueueExact'
           /\ nr_running' \in [CPU -> 0 .. Cardinality(Task)]
           /\ array' \in [Task -> (CPU \X {"active", "rt_short"}) \cup {NULL}]
           /\ need_resched' \in [CPU -> BOOLEAN]
           /\ state' \in [Task -> {"running", "sleeping"}]
           /\ array'[p] # NULL /\ state'[p] = "running"
           /\ \A t \in Task \ {p} : array'[t] = array[t] /\ state'[t] = state[t]
<1> DEFINE q == IF array[p] = NULL THEN activate_task(now, p, cpu[p]) ELSE now
<1>1. cpu[p] \in CPU /\ <<cpu[p], home(p)>> # NULL
  BY Constants DEF TypeOK, home
<1>2. /\ q \in Queues /\ Counted(q)
      /\ \A t \in Task : q.array[t] = IF t = p THEN <<cpu[p], home(p)>> ELSE array[t]
  <2>1. CASE array[p] = NULL
    <3>1. now.array[p] = NULL /\ now \in Queues /\ Counted(now) /\ now.array = array
      BY <2>1, Now
    <3>2. /\ activate_task(now, p, cpu[p]) \in Queues /\ Counted(activate_task(now, p, cpu[p]))
          /\ \A t \in Task : activate_task(now, p, cpu[p]).array[t]
                               = IF t = p THEN <<cpu[p], home(p)>> ELSE now.array[t]
      BY <3>1, <1>1, Activate
    <3> QED BY <2>1, <3>1, <3>2
  <2>2. CASE array[p] # NULL
    BY <2>2, Now
  <2> QED BY <2>1, <2>2
<1>3. /\ set_queues(q)
      /\ need_resched' \in [CPU -> BOOLEAN] /\ state' \in [Task -> {"running", "sleeping"}]
      /\ state'[p] = "running" /\ \A t \in Task \ {p} : state'[t] = state[t]
  BY DEF try_to_wake_up, TypeOK
<1> HIDE DEF q
<1>4. /\ nr_running' \in [CPU -> 0 .. Cardinality(Task)]
      /\ array' \in [Task -> (CPU \X {"active", "rt_short"}) \cup {NULL}]
      /\ (\A d \in CPU : nr_running[d] = Cardinality(on_rq(now, d)))'
      /\ array' = q.array
  BY <1>2, <1>3, SetQueues
<1>5. \A t \in Task : array'[t] # NULL => array'[t] = <<cpu'[t], home(t)'>>
  BY <1>2, <1>4, Now, HomeKept
<1>6. \A t \in Task : array'[t] = NULL => array[t] = NULL
  BY <1>1, <1>2, <1>4
<1>7. \A c \in CPU : curr'[c] # Idle =>
        /\ cpu'[curr'[c]] = c
        /\ array'[curr'[c]] = NULL => balance'[c].by = "schedule" /\ balance'[c].at # "none"
  BY <1>6 DEF QueueExact, TypeOK
<1>8. QueueExact'
  BY <1>4, <1>5, <1>7, Exact
<1> QED BY <1>1, <1>2, <1>3, <1>4, <1>8

\* So with what load_balance() does with both locks: what it pulls is on the
\* busiest runqueue, is not running there, and may run here.
LEMMA Pull ==
    ASSUME TypeOK, QueueExact, Apart, NEW c \in CPU, balance[c].at # "none",
           NEW locked \in [CPU -> CPU \cup {NULL}], pull(c, locked),
           migration_thread' = migration_thread
    PROVE  /\ QueueExact' /\ Apart'
           /\ nr_running' \in [CPU -> 0 .. Cardinality(Task)]
           /\ array' \in [Task -> (CPU \X {"active", "rt_short"}) \cup {NULL}]
           /\ cpu' \in [Task -> CPU]
           /\ curr' \in [CPU -> Task \cup {Idle}] /\ need_resched' \in [CPU -> BOOLEAN]
           /\ lock' \in [CPU -> CPU \cup {NULL}] /\ balance' \in [CPU -> Balance]
           /\ \A t \in Task : cpu'[t] = cpu[t] \/ cpu'[t] \in cpus_allowed[t]
           /\ \A t \in Task : array[t] # NULL => array'[t] # NULL
<1>1. PICK d \in CPU : d = balance[c].busiest /\ d # c
  BY DEF TypeOK, Balance, Apart
<1>2. PICK S \in pulls(c, d) : LET q == [nr |-> [nr_running EXCEPT ![d] = @ - Cardinality(S), ![c] = @ + Cardinality(S)],
                      array |-> [t \in Task |-> IF t \in S THEN <<c, "active">> ELSE array[t]]]
            IN  /\ set_queues(q)
                /\ cpu' = [t \in Task |-> IF t \in S THEN c ELSE cpu[t]]
                /\ lock' = [locked EXCEPT ![c] = NULL, ![d] = NULL]
                /\ balance' = [balance EXCEPT ![c] = NoBalance]
                /\ IF balance[c].by = "schedule"
                   THEN \E next \in candidates(q, c) : switch_to(c, next)
                   ELSE /\ need_resched' = [need_resched EXCEPT ![c] = @ \/ (S # {} /\ curr[c] = Idle)]
                        /\ UNCHANGED curr
  BY <1>1 DEF pull
<1>3. \A p \in S : p \in Task /\ array[p] = <<d, "active">> /\ p # curr[d] /\ c \in cpus_allowed[p]
  BY DEF pulls, can_migrate
<1> DEFINE q == pulled(now, c, d, S)
<1>4. q \in Queues /\ Counted(q)
  <2>1. now \in Queues /\ Counted(now) /\ now.array = array
    BY Now
  <2>2. S \in SUBSET {t \in Task : now.array[t] = <<d, "active">>}
    BY <1>3, <2>1
  <2> QED BY <1>1, <2>1, <2>2, Pulled
<1>5. /\ set_queues(q) /\ \A t \in Task : q.array[t] = IF t \in S THEN <<c, "active">> ELSE array[t]
      /\ cpu' = [t \in Task |-> IF t \in S THEN c ELSE cpu[t]]
      /\ lock' = [locked EXCEPT ![c] = NULL, ![d] = NULL]
      /\ balance' = [balance EXCEPT ![c] = NoBalance]
      /\ \/ balance[c].by = "schedule" /\ \E next \in candidates(q, c) : switch_to(c, next)
         \/ /\ balance[c].by # "schedule" /\ curr' = curr
            /\ need_resched' = [need_resched EXCEPT ![c] = @ \/ (S # {} /\ curr[c] = Idle)]
  BY <1>2 DEF pulled, now
<1> HIDE DEF q
<1>6. /\ nr_running' \in [CPU -> 0 .. Cardinality(Task)]
      /\ array' \in [Task -> (CPU \X {"active", "rt_short"}) \cup {NULL}]
      /\ (\A e \in CPU : nr_running[e] = Cardinality(on_rq(now, e)))'
      /\ array' = q.array
  BY <1>4, <1>5, SetQueues
<1>7. /\ cpu' \in [Task -> CPU]
      /\ \A t \in Task : cpu'[t] = IF t \in S THEN c ELSE cpu[t]
      /\ \A t \in Task : cpu'[t] = cpu[t] \/ cpu'[t] \in cpus_allowed[t]
  BY <1>3, <1>5 DEF TypeOK
<1>8. lock' \in [CPU -> CPU \cup {NULL}]
  BY <1>5
<1>9. /\ balance' \in [CPU -> Balance] /\ balance'[c].at = "none"
      /\ \A e \in CPU \ {c} : balance'[e] = balance[e]
  <2>1. NoBalance \in Balance /\ NoBalance.at = "none"
    BY Constants DEF NoBalance, Balance
  <2> QED BY <1>5, <2>1 DEF TypeOK
<1>10. \A t \in S : cpu[t] = d /\ home(t) = "active"
  <2>1. ASSUME NEW t \in S PROVE cpu[t] = d /\ home(t) = "active"
    <3>0. <<d, "active">> \in CPU \X {"active", "rt_short"}
      OBVIOUS
    <3>1. t \in Task /\ array[t] = <<d, "active">> /\ array[t] # NULL
      BY <3>0, <1>3, Constants
    <3>2. array[t] = <<cpu[t], home(t)>>
      BY <3>1, Now
    <3> QED BY <3>1, <3>2
  <2> QED BY <2>1
<1>11. \A t \in Task : array'[t] # NULL => array'[t] = <<cpu'[t], home(t)'>> /\ array'[t][1] = cpu'[t]
  BY <1>5, <1>6, <1>7, <1>10, Now, HomeKept
<1>12. \A t \in Task : array[t] # NULL => array'[t] # NULL
  BY <1>5, <1>6, Constants
<1>13. ASSUME NEW e \in CPU, curr[e] # Idle
       PROVE  /\ cpu'[curr[e]] = e /\ curr[e] \in Task
              /\ array'[curr[e]] = NULL => balance[e].by = "schedule" /\ balance[e].at # "none"
  <2>1. /\ cpu[curr[e]] = e /\ curr[e] \in Task
        /\ array[curr[e]] = NULL => balance[e].by = "schedule" /\ balance[e].at # "none"
    BY <1>13 DEF QueueExact, TypeOK
  <2>2. curr[e] \notin S
    BY <1>3, <1>10, <2>1
  <2> QED BY <2>1, <2>2, <1>5, <1>6, <1>7
<1>14. Apart'
  BY <1>9 DEF Apart
<1>15. CASE balance[c].by = "schedule" /\ \E next \in candidates(q, c) : switch_to(c, next)
  <2>1. PICK next \in candidates(q, c) : switch_to(c, next)
    BY <1>15
  <2>2. next = Idle \/ (next \in Task /\ array'[next] # NULL /\ array'[next][1] = c)
    BY <1>6, Candidates
  <2>3. /\ curr' \in [CPU -> Task \cup {Idle}] /\ need_resched' \in [CPU -> BOOLEAN]
        /\ curr'[c] = next /\ \A e \in CPU \ {c} : curr'[e] = curr[e]
    BY <2>1, <2>2 DEF switch_to, TypeOK
  <2>4. next # Idle => cpu'[next] = c /\ array'[next] # NULL
    BY <2>2, <1>11
  <2>5. QueueExact'
    BY <1>6, <1>9, <1>11, <1>13, <2>3, <2>4, Exact
  <2> QED BY <1>6, <1>7, <1>8, <1>9, <1>12, <1>14, <2>3, <2>5
<1>16. CASE /\ balance[c].by # "schedule" /\ curr' = curr
            /\ need_resched' = [need_resched EXCEPT ![c] = @ \/ (S # {} /\ curr[c] = Idle)]
  <2>1. QueueExact'
    BY <1>6, <1>9, <1>11, <1>13, <1>16, Exact
  <2>2. curr' \in [CPU -> Task \cup {Idle}] /\ need_resched' \in [CPU -> BOOLEAN]
    BY <1>16 DEF TypeOK
  <2> QED BY <1>6, <1>7, <1>8, <1>9, <1>12, <1>14, <2>1, <2>2
<1> QED BY <1>5, <1>15, <1>16

-----------------------------------------------------------------------------
(* Who asks, who is asked, and what a step of one task leaves alone.       *)

\* The set of tasks whose mask one task sets includes the migration threads.
LEMMA Threads ==
    ASSUME TypeOK, Control
    PROVE  /\ Thread \subseteq Single /\ Single \subseteq Task
           /\ \A c \in CPU : ThreadSound(c, thread[c]) /\ Queued(c) /\ Served(c)
           /\ \A u \in User : UserSound(u)
           /\ \A u \in Task : Heard(u)
<1>1. Thread \subseteq Single /\ Single \subseteq Task
  BY MigrationAssumption DEF Single, Task
<1> QED BY <1>1 DEF Control

\* The request a migration thread works on is of another task, which waits.
LEMMA Worked ==
    ASSUME TypeOK, Control, NEW c \in CPU, at[thread[c]] \in Working
    PROVE  /\ req[thread[c]] \in Task /\ Caller(req[thread[c]]) /\ sem[req[thread[c]]] = 0
           /\ rq[req[thread[c]]] = c /\ ~Caller(thread[c]) /\ req[thread[c]] # thread[c]
           /\ target(thread[c]) \in Task
<1>1. thread[c] \in Task
  BY Constants
<1>2. req[thread[c]] \in Task /\ target(thread[c]) \in Task
  BY <1>1 DEF TypeOK, target
<1>3. Waits(req[thread[c]], c)
  BY DEF Control, Served
<1> QED BY <1>2, <1>3 DEF Waits, Caller, Working

\* A step of one task that makes no request, answers none, and moves tasks
\* with one caller to where they may be only.
LEMMA OneSteps ==
    ASSUME TypeOK, Control, \A p \in Single : Placed(p), NEW t \in Task,
           cpus_allowed' = cpus_allowed, migration_queue' = migration_queue,
           migration_thread' = migration_thread,
           \A u \in Task \ {t} : /\ at'[u] = at[u] /\ req'[u] = req[u] /\ rq'[u] = rq[u]
                                 /\ cpu_dest'[u] = cpu_dest[u] /\ sem'[u] = sem[u],
           \A p \in Single : cpu'[p] = cpu[p] \/ cpu'[p] \in cpus_allowed[p],
           Caller(t)' => Caller(t) /\ req'[t] = req[t] /\ rq'[t] = rq[t] /\ sem'[t] = sem[t],
           Caller(t) /\ ~Caller(t)' => sem[t] = 1,
           t \in User => UserSound(t)',
           \A c \in CPU : t = thread[c] => ThreadSound(c, t)',
           \A c \in CPU : t = thread[c] /\ at'[t] \in Working =>
             /\ at[t] \in Working /\ req'[t] = req[t]
             /\ target(t) \in Single =>
                  /\ at'[t] \in {"src", "first", "second"} => cpu_dest'[t] \in cpus_allowed[target(t)]
                  /\ at'[t] = "up" => cpu'[target(t)] \in cpus_allowed[target(t)]
    PROVE  Control' /\ (\A p \in Single : Placed(p))'
<1>1. \A u \in Task :
        /\ Caller(u)' => Caller(u) /\ req'[u] = req[u] /\ rq'[u] = rq[u] /\ sem'[u] = sem[u]
        /\ Caller(u) /\ ~Caller(u)' => sem[u] = 1
  BY DEF Caller
<1>2. \A u \in Task : \A c : Waits(u, c) => Waits(u, c)'
  BY <1>1 DEF Waits
<1>3. ASSUME NEW c \in CPU
      PROVE  ThreadSound(c, thread[c])' /\ Queued(c)' /\ Served(c)'
  <2>1. thread[c] \in Task /\ thread[c] \in Single /\ Len(migration_queue[c]) \in Nat
        /\ \A i \in 1 .. Len(migration_queue[c]) : migration_queue[c][i] \in Task
    <3>1. migration_queue[c] \in Seq(Task)
      BY DEF TypeOK
    <3>2. thread[c] \in Task /\ thread[c] \in Single
      BY Constants, Threads
    <3> QED BY <3>1, <3>2, LenProperties, ElementOfSeq
  <2>2. ThreadSound(c, thread[c])'
    <3>1. CASE thread[c] = t
      BY <3>1
    <3>2. CASE thread[c] # t
      <4>1. /\ ThreadSound(c, thread[c]) /\ at'[thread[c]] = at[thread[c]]
            /\ req'[thread[c]] = req[thread[c]]
            /\ cpu'[thread[c]] = cpu[thread[c]] \/ cpu'[thread[c]] \in cpus_allowed[thread[c]]
        BY <3>2, <2>1, Threads
      <4> QED BY <4>1 DEF ThreadSound, Caller
    <3> QED BY <3>1, <3>2
  <2>3. Queued(c)'
    <3>1. Queued(c)
      BY Threads
    <3> QED BY <3>1, <2>1, <1>2 DEF Queued
  <2>4. Served(c)'
    <3>1. at'[thread[c]] \in Working =>
            at[thread[c]] \in Working /\ req'[thread[c]] = req[thread[c]]
      BY <2>1
    <3>2. Served(c) /\ req[thread[c]] \in Task
      BY <2>1, Threads DEF TypeOK
    <3> QED BY <3>1, <3>2, <1>2 DEF Served
  <2> QED BY <2>2, <2>3, <2>4
<1>4. ASSUME NEW u \in User
      PROVE  UserSound(u)'
  <2>1. u \in Task /\ UserSound(u)
    BY Threads DEF Task
  <2> QED BY <2>1 DEF UserSound, Caller
<1>5. \A u \in Task : Heard(u)'
  BY <1>1, Threads DEF Heard
<1>6. ASSUME NEW p \in Single
      PROVE  Placed(p)'
  <2>1. Placed(p) /\ p \in Task
    BY Threads
  <2>2. cpu[p] \in cpus_allowed[p] => cpu'[p] \in cpus_allowed'[p]
    OBVIOUS
  <2>3. \A u \in Task : Caller(u) /\ req[u] = p =>
          /\ cpu[p] = rq[u] \/ cpu[p] \in cpus_allowed[p]
          /\ sem[u] = 1 => cpu[p] \in cpus_allowed[p]
    BY <2>1 DEF Placed
  <2>4. Called(p)' \/ cpu'[p] \in cpus_allowed'[p]
    <3>1. CASE Called(p)
      <4>1. PICK u \in Task : Caller(u) /\ req[u] = p
        BY <3>1 DEF Called, Caller
      <4>2. Caller(u)' => Called(p)'
        BY <4>1, <1>1 DEF Called, Caller
      <4>3. ~Caller(u)' => cpu[p] \in cpus_allowed[p]
        BY <4>1, <1>1, <2>3
      <4> QED BY <4>2, <4>3, <2>2
    <3>2. CASE ~Called(p)
      BY <3>2, <2>1, <2>2 DEF Placed
    <3> QED BY <3>1, <3>2
  <2>5. \A u \in Task : Caller(u)' /\ req'[u] = p =>
          /\ cpu'[p] = rq'[u] \/ cpu'[p] \in cpus_allowed'[p]
          /\ sem'[u] = 1 => cpu'[p] \in cpus_allowed'[p]
    BY <1>1, <2>2, <2>3
  <2>6. ASSUME NEW c \in CPU, at'[thread[c]] \in Working, target(thread[c])' = p
        PROVE  /\ at'[thread[c]] \in {"src", "first", "second"} => cpu_dest'[thread[c]] \in cpus_allowed'[p]
               /\ at'[thread[c]] = "up" => cpu'[p] \in cpus_allowed'[p]
    <3>1. thread[c] \in Task
      BY Constants
    <3>2. at[thread[c]] \in Working /\ req'[thread[c]] = req[thread[c]]
      BY <2>6, <3>1
    <3>3. /\ req[thread[c]] \in Task /\ Caller(req[thread[c]]) /\ sem[req[thread[c]]] = 0
          /\ req[thread[c]] # thread[c]
      BY <3>2, Worked
    <3>4. req'[req[thread[c]]] = req[req[thread[c]]]
      <4>1. PICK u \in Task : u = req[thread[c]]
        BY <3>3
      <4>2. Caller(u)'
        BY <4>1, <3>3, <1>1
      <4> QED BY <4>1, <4>2, <1>1
    <3>5. target(thread[c]) = p
      BY <3>2, <3>4, <2>6 DEF target
    <3>6. CASE thread[c] = t
      BY <3>6, <3>5, <2>6
    <3>7. CASE thread[c] # t
      <4>1. at'[thread[c]] = at[thread[c]] /\ cpu_dest'[thread[c]] = cpu_dest[thread[c]]
        BY <3>7, <3>1
      <4>2. /\ at[thread[c]] \in {"src", "first", "second"} => cpu_dest[thread[c]] \in cpus_allowed[p]
            /\ at[thread[c]] = "up" => cpu[p] \in cpus_allowed[p]
        BY <3>2, <3>5, <2>1 DEF Placed
      <4> QED BY <4>1, <4>2, <2>2
    <3> QED BY <3>6, <3>7
  <2> QED BY <2>4, <2>5, <2>6 DEF Placed
<1>7. Single' = Single
  BY DEF Single
<1> QED BY <1>3, <1>4, <1>5, <1>6, <1>7 DEF Control

\* A step that only moves tasks to where they may be.
LEMMA Moves ==
    ASSUME TypeOK, Control, \A p \in Single : Placed(p),
           UNCHANGED <<cpus_allowed, migration_queue, migration_thread, at, req, rq, cpu_dest, sem>>,
           \A p \in Task : cpu'[p] = cpu[p] \/ cpu'[p] \in cpus_allowed[p]
    PROVE  Control' /\ (\A p \in Single : Placed(p))'
<1>1. 0 \in CPU /\ thread[0] \in Task /\ thread[0] \notin User
      /\ \A c \in CPU : thread[c] = thread[0] => c = 0
  BY Constants
<1>2. Caller(thread[0])' <=> Caller(thread[0])
  BY DEF Caller
<1>3. ThreadSound(0, thread[0])'
  <2>1. ThreadSound(0, thread[0])
        /\ (cpu'[thread[0]] = cpu[thread[0]] \/ cpu'[thread[0]] \in cpus_allowed[thread[0]])
    BY <1>1, Threads
  <2> QED BY <2>1, <1>2 DEF ThreadSound
<1>4. at[thread[0]] \in Working /\ target(thread[0]) \in Single =>
        /\ at[thread[0]] \in {"src", "first", "second"} => cpu_dest[thread[0]] \in cpus_allowed[target(thread[0])]
        /\ at[thread[0]] = "up" => cpu'[target(thread[0])] \in cpus_allowed[target(thread[0])]
  BY <1>1, Threads DEF Placed
<1>5. \A p \in Single : cpu'[p] = cpu[p] \/ cpu'[p] \in cpus_allowed[p]
  BY Threads
<1> DEFINE t == thread[0]
<1>6. /\ t \in Task /\ t \notin User
      /\ \A c \in CPU : t = thread[c] => ThreadSound(c, t)'
      /\ \A c \in CPU : t = thread[c] /\ at'[t] \in Working =>
             /\ at[t] \in Working /\ req'[t] = req[t]
             /\ target(t) \in Single =>
                  /\ at'[t] \in {"src", "first", "second"} => cpu_dest'[t] \in cpus_allowed[target(t)]
                  /\ at'[t] = "up" => cpu'[target(t)] \in cpus_allowed[target(t)]
      /\ Caller(t)' <=> Caller(t)
  BY <1>1, <1>2, <1>3, <1>4
<1> HIDE DEF t
<1> QED BY <1>5, <1>6, OneSteps

-----------------------------------------------------------------------------
(* set_cpus_allowed().                                                     *)

\* A user task calls it for a task, or a migration thread that starts for
\* itself, to move to the CPU d.
ByUser(t, p, done) ==
    /\ t \in User /\ p \in User /\ <<t, p>> \in Calls /\ at[t] = "user" /\ done = "user"
    /\ \A c \in CPU : migration_thread[c] # NULL

ByThread(t, p, mask, done) ==
    /\ t \in Thread /\ p = t /\ at[t] = "boot" /\ done = "bind" /\ migration_thread[0] # NULL
    /\ \E d \in CPU \ {0} : t = thread[d] /\ mask = {d}

\* Nobody else waits for a request for a task with one caller.
LEMMA NotCalled ==
    ASSUME TypeOK, Control, NEW t \in Task, NEW p \in Single, NEW mask, NEW done,
           ByUser(t, p, done) \/ ByThread(t, p, mask, done)
    PROVE  /\ \A u \in Task : ~(Caller(u) /\ req[u] = p)
           /\ \A c \in CPU : at[thread[c]] \in Working => target(thread[c]) # p
<1>1. ~Caller(t) /\ User \cap Thread = {} /\ Calls \subseteq User \X User
  BY MigrationAssumption DEF ByUser, ByThread, Caller
<1>2. ASSUME NEW u \in Task, Caller(u), req[u] = p
      PROVE  FALSE
  <2>1. CASE u \in User
    <3>1. <<u, p>> \in Calls /\ p \in User
      BY <1>1, <1>2, <2>1, Threads DEF UserSound
    <3>2. t \in User /\ <<t, p>> \in Calls
      BY <1>1, <3>1 DEF ByUser, ByThread
    <3>3. u = t
      BY <2>1, <3>1, <3>2 DEF Single
    <3> QED BY <3>3, <1>1, <1>2
  <2>2. CASE u \in Thread
    <3>1. PICK c \in CPU : u = thread[c]
      BY <2>2, Constants
    <3>2. req[u] = u
      BY <1>2, <3>1, Threads DEF ThreadSound
    <3>3. u = t
      BY <1>1, <1>2, <2>2, <3>2 DEF ByUser, ByThread
    <3> QED BY <3>3, <1>1, <1>2
  <2> QED BY <2>1, <2>2, Constants
<1>3. ASSUME NEW c \in CPU, at[thread[c]] \in Working
      PROVE  target(thread[c]) # p
  BY <1>2, <1>3, Worked DEF target
<1> QED BY <1>2, <1>3

\* The task may stay, or is off the runqueues: it is where it may be.
LEMMA SetMask ==
    ASSUME TypeOK, Control, \A x \in Single : Placed(x),
           NEW t \in Task, NEW p \in Task, NEW mask \in (SUBSET CPU) \ {{}}, NEW done,
           ByUser(t, p, done),
           UNCHANGED <<at, migration_queue, migration_thread, req, rq, cpu_dest, sem>>,
           \A x \in Task : cpus_allowed'[x] = IF x = p THEN mask ELSE cpus_allowed[x],
           \A x \in Task \ {p} : cpu'[x] = cpu[x], cpu'[p] \in mask
    PROVE  Control' /\ (\A x \in Single : Placed(x))'
<1>1. p \notin Thread /\ t \in User
  BY MigrationAssumption DEF ByUser
<1>2. \A u : Caller(u)' <=> Caller(u)
  BY DEF Caller
<1>3. ASSUME NEW c \in CPU
      PROVE  ThreadSound(c, thread[c])' /\ Queued(c)' /\ Served(c)'
  <2>1. thread[c] \in Task /\ thread[c] # p
    BY Constants, <1>1
  <2>2. ThreadSound(c, thread[c]) /\ Queued(c) /\ Served(c)
    BY Threads
  <2>3. ThreadSound(c, thread[c])'
    BY <1>2, <2>1, <2>2 DEF ThreadSound
  <2>4. \A u : Waits(u, c)' <=> Waits(u, c)
    BY <1>2 DEF Waits
  <2> QED BY <2>2, <2>3, <2>4 DEF Queued, Served
<1>4. \A u \in User : UserSound(u)'
  BY <1>2, Threads DEF UserSound
<1>5. \A u \in Task : Heard(u)'
  BY <1>2, Threads DEF Heard
<1>6. ASSUME NEW x \in Single
      PROVE  Placed(x)'
  <2>1. x \in Task /\ Placed(x) /\ (Called(x)' <=> Called(x))
    BY Threads DEF Called
  <2>2. \A c \in CPU : target(thread[c])' = target(thread[c])
    BY DEF target
  <2>3. CASE x = p
    <3>1. /\ \A u \in Task : ~(Caller(u) /\ req[u] = p)
          /\ \A c \in CPU : at[thread[c]] \in Working => target(thread[c]) # p
      BY <2>3, NotCalled
    <3> QED BY <2>1, <2>2, <2>3, <3>1, <1>2 DEF Placed
  <2>4. CASE x # p
    <3>1. cpu'[x] = cpu[x] /\ cpus_allowed'[x] = cpus_allowed[x]
      BY <2>1, <2>4
    <3> QED BY <2>1, <2>2, <3>1, <1>2 DEF Placed
  <2> QED BY <2>3, <2>4
<1>7. Single' = Single
  BY DEF Single
<1> QED BY <1>3, <1>4, <1>5, <1>6, <1>7 DEF Control

\* What is put first on a list of requests.
LEMMA Pushed ==
    ASSUME NEW t \in Task, NEW q \in Seq(Task)
    PROVE  LET q2 == <<t>> \o q
           IN  /\ q2 \in Seq(Task) /\ q2 # <<>> /\ q2[1] = t
               /\ Len(q) \in Nat /\ Len(q2) = Len(q) + 1
               /\ \A i \in 1 .. Len(q) : q[i] \in Task
               /\ \A i \in 2 .. Len(q2) : q2[i] = q[i - 1] /\ i - 1 \in 1 .. Len(q)
<1>1. <<t>> \in Seq(Task) /\ Len(<<t>>) = 1 /\ <<t>>[1] = t
  OBVIOUS
<1>2. Len(q) \in Nat /\ \A i \in 1 .. Len(q) : q[i] \in Task
  BY LenProperties, ElementOfSeq
<1> DEFINE q2 == <<t>> \o q
<1>3. /\ q2 \in Seq(Task) /\ Len(q2) = 1 + Len(q)
      /\ \A i \in 1 .. 1 + Len(q) : q2[i] = IF i <= 1 THEN <<t>>[i] ELSE q[i - 1]
  BY <1>1, ConcatProperties
<1> HIDE DEF q2
<1>4. q2 # <<>>
  BY <1>2, <1>3
<1> QED BY <1>1, <1>2, <1>3, <1>4 DEF q2

\* The request is put on the queue of the runqueue the task is on.
LEMMA Request ==
    ASSUME TypeOK, Control, \A x \in Single : Placed(x),
           NEW t \in Task, NEW p \in Task, NEW mask \in (SUBSET CPU) \ {{}}, NEW done,
           ByUser(t, p, done) \/ ByThread(t, p, mask, done),
           UNCHANGED <<migration_thread, cpu, cpu_dest>>,
           \A x \in Task : cpus_allowed'[x] = IF x = p THEN mask ELSE cpus_allowed[x],
           \A c \in CPU : migration_queue'[c] = IF c = cpu[p] THEN <<t>> \o migration_queue[c]
                                                ELSE migration_queue[c],
           at'[t] = "wake" /\ req'[t] = p /\ rq'[t] = cpu[p] /\ sem'[t] = 0,
           \A u \in Task \ {t} : /\ at'[u] = at[u] /\ req'[u] = req[u] /\ rq'[u] = rq[u]
                                 /\ sem'[u] = sem[u]
    PROVE  Control' /\ (\A x \in Single : Placed(x))'
<1>1. /\ ~Caller(t) /\ Caller(t)' /\ Waits(t, cpu[p])'
      /\ \A u \in Task \ {t} : Caller(u)' <=> Caller(u)
      /\ \A c : \A u \in Task \ {t} : Waits(u, c)' <=> Waits(u, c)
  BY DEF ByUser, ByThread, Caller, Waits
<1>2. User \cap Thread = {} /\ cpu[p] \in CPU
  BY MigrationAssumption DEF TypeOK
<1>3. ASSUME NEW c \in CPU
      PROVE  ThreadSound(c, thread[c])' /\ Queued(c)' /\ Served(c)'
  <2>1. thread[c] \in Task /\ thread[c] \in Thread
    BY Constants
  <2>2. ThreadSound(c, thread[c]) /\ Queued(c) /\ Served(c)
    BY Threads
  <2>3. ThreadSound(c, thread[c])'
    <3>1. CASE thread[c] = t
      <4>1. ByThread(t, p, mask, done)
        BY <3>1, <2>1, <1>2 DEF ByUser
      <4>2. mask = {c} /\ p = t /\ at[t] = "boot"
        BY <4>1, <3>1, Constants DEF ByThread
      <4> QED BY <4>2, <3>1, <2>2, <2>1 DEF ThreadSound, Looping, Caller
    <3>2. CASE thread[c] # t
      <4>1. thread[c] # p
        BY <3>2, <2>1, <1>2 DEF ByUser, ByThread
      <4> QED BY <4>1, <3>2, <2>1, <2>2 DEF ThreadSound, Caller
    <3> QED BY <3>1, <3>2
  <2>4. migration_queue[c] \in Seq(Task)
    BY DEF TypeOK
  <2>5. /\ Len(migration_queue[c]) \in Nat
        /\ \A i \in 1 .. Len(migration_queue[c]) :
             /\ migration_queue[c][i] \in Task \ {t}
             /\ Waits(migration_queue[c][i], c)
             /\ \A j \in 1 .. Len(migration_queue[c]) :
                  migration_queue[c][i] = migration_queue[c][j] => i = j
    <3>1. Len(migration_queue[c]) \in Nat /\ \A i \in 1 .. Len(migration_queue[c]) : migration_queue[c][i] \in Task
      BY <2>4, LenProperties, ElementOfSeq
    <3> QED BY <3>1, <2>2, <1>1 DEF Queued, Waits
  <2>6. /\ \A i \in 1 .. Len(migration_queue'[c]) :
             \/ c = cpu[p] /\ migration_queue'[c][i] = t
             \/ /\ migration_queue'[c][i] # t
                /\ \E j \in 1 .. Len(migration_queue[c]) : migration_queue'[c][i] = migration_queue[c][j]
        /\ \A i, j \in 1 .. Len(migration_queue'[c]) :
             migration_queue'[c][i] = migration_queue'[c][j] => i = j
    <3>1. CASE c = cpu[p]
      <4> DEFINE old == migration_queue[c]
                 new == migration_queue'[c]
      <4>1. new = <<t>> \o old
        BY <3>1
      <4>2. /\ new[1] = t /\ Len(new) = Len(old) + 1
            /\ \A i \in 2 .. Len(new) : new[i] = old[i - 1] /\ i - 1 \in 1 .. Len(old)
        BY <4>1, <2>4, Pushed
      <4>3. /\ Len(old) \in Nat
            /\ \A i \in 1 .. Len(old) :
                 /\ old[i] \in Task \ {t} /\ Waits(old[i], c)
                 /\ \A j \in 1 .. Len(old) : old[i] = old[j] => i = j
        BY <2>5
      <4> HIDE DEF old, new
      <4>4. \A i \in 1 .. Len(new) : i = 1 \/ i \in 2 .. Len(new)
        BY <4>2, <4>3
      <4>5. \A i \in 1 .. Len(new) :
              \/ new[i] = t
              \/ new[i] # t /\ \E j \in 1 .. Len(old) : new[i] = old[j]
        BY <4>2, <4>3, <4>4
      <4>6. \A i, j \in 1 .. Len(new) : new[i] = new[j] => i = j
        BY <4>2, <4>3, <4>4
      <4> QED BY <3>1, <4>5, <4>6 DEF old, new
    <3>2. CASE c # cpu[p]
      BY <3>2, <2>5
    <3> QED BY <3>1, <3>2
  <2>7. \A u \in Task : Waits(u, c) => /\ at'[u] \in {"wake", "down"} /\ sem'[u] = 0 /\ rq'[u] = c
                                        /\ u # t
    BY <1>1 DEF Waits, Caller
  <2>8. ASSUME NEW i \in 1 .. Len(migration_queue'[c])
        PROVE  /\ at'[migration_queue'[c][i]] \in {"wake", "down"}
               /\ sem'[migration_queue'[c][i]] = 0 /\ rq'[migration_queue'[c][i]] = c
    <3>1. CASE c = cpu[p] /\ migration_queue'[c][i] = t
      BY <3>1
    <3>2. CASE \E j \in 1 .. Len(migration_queue[c]) : migration_queue'[c][i] = migration_queue[c][j]
      <4>1. PICK u \in Task : u = migration_queue'[c][i] /\ Waits(u, c)
        BY <3>2, <2>5
      <4> QED BY <4>1, <2>7
    <3> QED BY <3>1, <3>2, <2>6
  <2>9. Queued(c)'
    BY <2>6, <2>8 DEF Queued, Waits, Caller
  <2>10. Served(c)'
    <3>1. CASE at'[thread[c]] \in Working
      <4>1. thread[c] # t /\ at[thread[c]] \in Working
        BY <3>1, <2>1 DEF Working
      <4>2. PICK u \in Task : u = req[thread[c]] /\ Waits(u, c)
                              /\ \A i \in 1 .. Len(migration_queue[c]) : migration_queue[c][i] # u
        BY <4>1, <2>1, <2>2 DEF Served, TypeOK
      <4>3. req'[thread[c]] = u /\ u # t
        BY <4>1, <4>2, <2>1, <2>7
      <4>4. \A i \in 1 .. Len(migration_queue'[c]) : migration_queue'[c][i] # u
        BY <4>2, <4>3, <2>6
      <4> QED BY <4>2, <4>3, <4>4, <2>7 DEF Served, Waits, Caller
    <3> QED BY <3>1 DEF Served
  <2> QED BY <2>3, <2>9, <2>10
<1>4. ASSUME NEW u \in User
      PROVE  UserSound(u)'
  <2>1. UserSound(u) /\ u \in Task
    BY Threads DEF Task
  <2>2. CASE u = t
    BY <2>2, <1>2 DEF UserSound, ByUser, ByThread, Caller
  <2>3. CASE u # t
    BY <2>1, <2>3 DEF UserSound, Caller
  <2> QED BY <2>2, <2>3
<1>5. ASSUME NEW u \in Task
      PROVE  Heard(u)'
  <2>1. CASE u = t
    <3>1. migration_thread[cpu[p]] # NULL
      <4>1. CASE ByUser(t, p, done)
        BY <4>1, <1>2 DEF ByUser
      <4>2. CASE ByThread(t, p, mask, done)
        <5>1. PICK c \in CPU : t = thread[c]
          BY <4>2 DEF ByThread
        <5>2. cpu[t] = 0
          BY <5>1, <4>2, Threads DEF ByThread, ThreadSound
        <5> QED BY <5>2, <4>2 DEF ByThread
      <4> QED BY <4>1, <4>2
    <3> QED BY <3>1, <2>1 DEF Heard
  <2>2. CASE u # t
    BY <2>2, <1>1, Threads DEF Heard
  <2> QED BY <2>1, <2>2
<1>6. ASSUME NEW x \in Single
      PROVE  Placed(x)'
  <2>1. x \in Task /\ Placed(x)
    BY Threads
  <2>2. ASSUME NEW c \in CPU, at'[thread[c]] \in Working
        PROVE  /\ at'[thread[c]] = at[thread[c]] /\ cpu_dest'[thread[c]] = cpu_dest[thread[c]]
               /\ at[thread[c]] \in Working /\ target(thread[c])' = target(thread[c])
    <3>1. thread[c] # t /\ thread[c] \in Task
      BY <2>2, Constants DEF Working
    <3>2. at[thread[c]] \in Working /\ req'[thread[c]] = req[thread[c]]
      BY <3>1, <2>2
    <3>3. PICK u \in Task : u = req[thread[c]] /\ Caller(u)
      BY <3>2, Worked
    <3>4. req'[u] = req[u]
      BY <3>3, <1>1
    <3> QED BY <3>1, <3>2, <3>3, <3>4 DEF target
  <2>3. CASE x = p
    <3>1. /\ \A u \in Task : ~(Caller(u) /\ req[u] = p)
          /\ \A c \in CPU : at[thread[c]] \in Working => target(thread[c]) # p
      BY <2>3, NotCalled
    <3>2. Called(p)'
      BY DEF Called
    <3>3. \A u \in Task : Caller(u)' /\ req'[u] = p => u = t
      BY <3>1, <1>1
    <3> QED BY <2>2, <2>3, <3>1, <3>2, <3>3 DEF Placed
  <2>4. CASE x # p
    <3>1. cpus_allowed'[x] = cpus_allowed[x]
      BY <2>1, <2>4
    <3>2. Called(x) => Called(x)'
      <4>1. ASSUME NEW u \in Task, Caller(u), req[u] = x
            PROVE  Called(x)'
        BY <4>1, <1>1 DEF Called, Caller
      <4> QED BY <4>1 DEF Called, Caller
    <3>3. \A u \in Task : Caller(u)' /\ req'[u] = x =>
            Caller(u) /\ req[u] = x /\ rq'[u] = rq[u] /\ sem'[u] = sem[u]
      BY <2>4, <1>1
    <3> QED BY <2>1, <2>2, <3>1, <3>2, <3>3 DEF Placed
  <2> QED BY <2>3, <2>4
<1>7. Single' = Single
  BY DEF Single
<1> QED BY <1>3, <1>4, <1>5, <1>6, <1>7 DEF Control

-----------------------------------------------------------------------------
(* The migration threads and their queues.                                 *)

\* RequestNoticed for one runqueue.
Noticed(c) ==
    migration_queue[c] # <<>> =>
        LET m == migration_thread[c]
        IN  \/ at[m] = "sched" /\ state[m] = "running"
            \/ at[m] = "top" /\ array[m] # NULL
            \/ at[m] \in {"dest", "src", "first", "second", "up"}
            \/ \E t \in Task : at[t] = "wake" /\ rq[t] = c

\* There are requests for a migration thread that is there only.
LEMMA Thereby ==
    ASSUME TypeOK, Control, NEW c \in CPU, migration_queue[c] # <<>>
    PROVE  migration_thread[c] = thread[c] /\ at[thread[c]] \in Looping
<1>1. migration_queue[c] \in Seq(Task)
  BY DEF TypeOK
<1>2. 1 \in 1 .. Len(migration_queue[c]) /\ migration_queue[c][1] \in Task
  <2>1. Len(migration_queue[c]) \in Nat /\ Len(migration_queue[c]) # 0
    BY <1>1, LenProperties, EmptySeq
  <2> QED BY <2>1, <1>1, ElementOfSeq
<1>3. Waits(migration_queue[c][1], c)
  BY <1>2, Threads DEF Queued
<1>4. migration_thread[c] # NULL
  BY <1>2, <1>3, Threads DEF Waits, Heard
<1> QED BY <1>4, Threads DEF ThreadSound

\* A step of t, which is neither the migration thread of c in its loop nor
\* about to wake it, takes away no task from a runqueue that looks for requests.
LEMMA NoticedStays ==
    ASSUME TypeOK, Control, NEW c \in CPU, Noticed(c), NEW t \in Task,
           t = thread[c] => at[t] \notin Looping,
           at[t] = "wake" => rq[t] # c,
           migration_queue'[c] = migration_queue[c], migration_thread'[c] = migration_thread[c],
           \A u \in Task \ {t} : at'[u] = at[u] /\ rq'[u] = rq[u],
           at[thread[c]] = "top" /\ array[thread[c]] # NULL => array'[thread[c]] # NULL,
           at[thread[c]] = "sched" /\ state[thread[c]] = "running" => state'[thread[c]] = "running"
    PROVE  Noticed(c)'
<1>1. CASE migration_queue[c] = <<>>
  BY <1>1 DEF Noticed
<1>2. CASE migration_queue[c] # <<>>
  <2>1. migration_thread[c] = thread[c] /\ at[thread[c]] \in Looping /\ thread[c] \in Task
    BY <1>2, Thereby, Constants
  <2>2. thread[c] # t /\ at'[thread[c]] = at[thread[c]]
    BY <2>1
  <2>3. (\E u \in Task : at[u] = "wake" /\ rq[u] = c) => \E u \in Task : at'[u] = "wake" /\ rq'[u] = c
    OBVIOUS
  <2>4. \/ at[thread[c]] = "sched" /\ state[thread[c]] = "running"
        \/ at[thread[c]] = "top" /\ array[thread[c]] # NULL
        \/ at[thread[c]] \in {"dest", "src", "first", "second", "up"}
        \/ \E u \in Task : at[u] = "wake" /\ rq[u] = c
    BY <1>2, <2>1 DEF Noticed
  <2> QED BY <2>1, <2>2, <2>3, <2>4 DEF Noticed
<1> QED BY <1>1, <1>2

\* A migration thread that has found its place serves the runqueue it is on.
LEMMA BindControl ==
    ASSUME TypeOK, Control, \A x \in Single : Placed(x), NEW c \in CPU, NEW t \in Thread,
           at[t] = "bind", cpu[t] = c,
           migration_thread' = [migration_thread EXCEPT ![c] = t],
           at' = [at EXCEPT ![t] = "top"],
           UNCHANGED <<cpu, cpus_allowed, migration_queue, sem, req, rq, cpu_dest>>
    PROVE  /\ Control' /\ (\A x \in Single : Placed(x))'
           /\ t = thread[c] /\ migration_thread[c] = NULL /\ migration_queue[c] = <<>>
<1>1. PICK b \in CPU : t = thread[b]
  BY Constants
<1>2. b = c /\ migration_thread[c] = NULL /\ cpus_allowed[t] = {c} /\ t \in Task
      /\ (\A d \in CPU : t = thread[d] => d = c)
  <2>1. ThreadSound(b, thread[b]) /\ thread[b] \in Task /\ t \notin User
        /\ (\A d \in CPU : t = thread[d] => d = b)
    BY <1>1, Threads, Constants
  <2> QED BY <2>1, <1>1 DEF ThreadSound, Looping
<1>3. migration_queue[c] = <<>>
  BY <1>1, <1>2, Thereby, Constants
<1>4. /\ at'[t] = "top" /\ \A u \in Task \ {t} : at'[u] = at[u]
      /\ migration_thread'[c] = t /\ \A d \in CPU \ {c} : migration_thread'[d] = migration_thread[d]
  BY <1>2 DEF TypeOK
<1>5. \A u \in Task : Caller(u)' <=> Caller(u)
  BY <1>4 DEF Caller
<1>6. \A d : \A u \in Task : Waits(u, d)' <=> Waits(u, d)
  BY <1>5 DEF Waits
<1>7. ASSUME NEW d \in CPU
      PROVE  ThreadSound(d, thread[d])' /\ Queued(d)' /\ Served(d)'
  <2>1. thread[d] \in Task /\ ThreadSound(d, thread[d]) /\ Queued(d) /\ Served(d)
        /\ (d # c => thread[d] # t) /\ req[thread[d]] \in Task
    BY <1>1, <1>2, Constants, Threads DEF TypeOK
  <2>2. ThreadSound(d, thread[d])'
    <3>1. CASE d = c
      BY <3>1, <2>1, <1>1, <1>2, <1>4 DEF ThreadSound, Looping, Caller
    <3>2. CASE d # c
      BY <3>2, <2>1, <1>4 DEF ThreadSound, Caller
    <3> QED BY <3>1, <3>2
  <2>3. \A i \in 1 .. Len(migration_queue[d]) : migration_queue[d][i] \in Task
    BY LenProperties, ElementOfSeq DEF TypeOK
  <2>4. Queued(d)'
    BY <2>1, <2>3, <1>6 DEF Queued
  <2>5. at'[thread[d]] \in Working => at[thread[d]] \in Working
    BY <2>1, <1>4 DEF Working
  <2>6. Served(d)'
    BY <2>1, <2>5, <1>6 DEF Served
  <2> QED BY <2>2, <2>4, <2>6
<1>8. ASSUME NEW u \in User
      PROVE  UserSound(u)'
  <2>1. u \in Task /\ u # t /\ UserSound(u)
    BY Threads, <1>1, Constants DEF Task
  <2> QED BY <2>1, <1>4 DEF UserSound, Caller
<1>9. ASSUME NEW u \in Task
      PROVE  Heard(u)'
  <2>1. t # NULL /\ rq[u] \in CPU /\ Heard(u)
    BY <1>2, Threads, Constants DEF TypeOK
  <2> QED BY <2>1, <1>4, <1>5 DEF Heard
<1>10. ASSUME NEW x \in Single
       PROVE  Placed(x)'
  <2>1. Placed(x)
    OBVIOUS
  <2>2. Called(x)' <=> Called(x)
    BY <1>5 DEF Called, Caller
  <2>3. \A d \in CPU : /\ target(thread[d])' = target(thread[d])
                       /\ at'[thread[d]] \in Working => at'[thread[d]] = at[thread[d]]
    BY <1>4, Constants DEF target, Working
  <2> QED BY <2>1, <2>2, <2>3, <1>5 DEF Placed
<1>11. Single' = Single
  BY DEF Single
<1> QED BY <1>1, <1>2, <1>3, <1>7, <1>8, <1>9, <1>10, <1>11 DEF Control

\* A migration thread that executes is on the CPU it was started for.
LEMMA Threaded ==
    ASSUME TypeOK, Control, NEW c \in CPU, NEW t \in Thread, cpu[t] = c, at[t] \in Looping
    PROVE  t = thread[c] /\ t \in Task /\ t \notin User /\ ~Caller(t)
           /\ migration_thread[c] = t /\ cpus_allowed[t] = {c}
           /\ \A d \in CPU : t = thread[d] => d = c
<1>1. PICK b \in CPU : t = thread[b]
  BY Constants
<1>2. b = c
  BY <1>1, Threads DEF ThreadSound
<1> QED BY <1>1, <1>2, Constants, Threads DEF ThreadSound, Looping, Caller

LEMMA QueuedNext ==
    ASSUME NEW c, NEW q, q = migration_queue'[c],
           \A i \in 1 .. Len(q) :
             /\ at'[q[i]] \in {"wake", "down"} /\ sem'[q[i]] = 0 /\ rq'[q[i]] = c
             /\ \A j \in 1 .. Len(q) : q[i] = q[j] => i = j
    PROVE  Queued(c)'
BY DEF Queued, Waits, Caller

LEMMA ServedNext ==
    ASSUME NEW c, NEW q, q = migration_queue'[c], NEW u, u = req'[thread[c]],
           at'[u] \in {"wake", "down"}, sem'[u] = 0, rq'[u] = c,
           \A i \in 1 .. Len(q) : q[i] # u
    PROVE  Served(c)'
BY DEF Served, Waits, Caller

\* It takes the first request off its queue.
LEMMA TopControl ==
    ASSUME TypeOK, Control, \A x \in Single : Placed(x), NEW c \in CPU, NEW t \in Thread,
           at[t] = "top", cpu[t] = c,
           NEW old \in Seq(Task), old = migration_queue[c], 1 \in 1 .. Len(old),
           NEW new \in Seq(Task), new = migration_queue'[c],
           \A i \in 1 .. Len(new) : new[i] = old[i + 1] /\ i + 1 \in 1 .. Len(old) /\ i \in Nat,
           \A d \in CPU \ {c} : migration_queue'[d] = migration_queue[d],
           at'[t] = "dest", req'[t] = old[1],
           \A u \in Task \ {t} : at'[u] = at[u] /\ req'[u] = req[u],
           UNCHANGED <<cpu, cpus_allowed, migration_thread, sem, rq, cpu_dest>>
    PROVE  Control' /\ (\A x \in Single : Placed(x))'
<1>1. /\ t = thread[c] /\ t \in Task /\ t \notin User /\ ~Caller(t)
      /\ \A d \in CPU : t = thread[d] => d = c
  BY Threaded DEF Looping
<1>2. old[1] \in Task
  BY ElementOfSeq
<1>4. /\ at'[t] = "dest" /\ req'[t] = old[1]
      /\ \A u \in Task \ {t} : at'[u] = at[u] /\ req'[u] = req[u]
  OBVIOUS
<1>5. /\ \A i \in 1 .. Len(old) : Waits(old[i], c) /\ \A j \in 1 .. Len(old) : old[i] = old[j] => i = j
      /\ Queued(c)
  BY Threads DEF Queued
<1>6. \A u \in Task : Caller(u)' <=> Caller(u)
  BY <1>1, <1>4 DEF Caller
<1>7. \A d : \A u \in Task : Waits(u, d)' <=> Waits(u, d)
  BY <1>6 DEF Waits
<1>8. ASSUME NEW d \in CPU
      PROVE  ThreadSound(d, thread[d])' /\ Queued(d)' /\ Served(d)'
  <2>1. thread[d] \in Task /\ ThreadSound(d, thread[d]) /\ Queued(d) /\ Served(d)
        /\ req[thread[d]] \in Task
    BY Constants, Threads DEF TypeOK
  <2>2. ThreadSound(d, thread[d])'
    <3>1. CASE d = c
      BY <3>1, <2>1, <1>1, <1>4 DEF ThreadSound, Looping, Caller
    <3>2. CASE d # c
      BY <3>2, <2>1, <1>1, <1>4 DEF ThreadSound, Caller
    <3> QED BY <3>1, <3>2
  <2>3. CASE d = c
    <3>1. \A i \in 1 .. Len(new) :
            /\ at'[new[i]] \in {"wake", "down"} /\ sem'[new[i]] = 0 /\ rq'[new[i]] = c
            /\ \A j \in 1 .. Len(new) : new[i] = new[j] => i = j
      <4>1. ASSUME NEW i \in 1 .. Len(new)
            PROVE  /\ at'[new[i]] \in {"wake", "down"} /\ sem'[new[i]] = 0 /\ rq'[new[i]] = c
                   /\ \A j \in 1 .. Len(new) : new[i] = new[j] => i = j
        <5>1. new[i] = old[i + 1] /\ i + 1 \in 1 .. Len(old) /\ Waits(old[i + 1], c) /\ i \in Nat
          BY <1>5
        <5>2. PICK u \in Task : u = old[i + 1]
          BY <5>1, ElementOfSeq
        <5>3. at'[u] = at[u]
          BY <5>1, <5>2, <1>1, <1>4 DEF Waits
        <5>5. \A j \in 1 .. Len(new) : new[i] = new[j] => i = j
          BY <5>1, <1>5
        <5> QED BY <5>1, <5>2, <5>3, <5>5 DEF Waits, Caller
      <4> QED BY <4>1
    <3>2. Queued(c)'
      BY <3>1, QueuedNext
    <3>3. \A i \in 1 .. Len(new) : new[i] # old[1]
      BY <1>5
    <3>4. Waits(old[1], c) /\ old[1] # t
      BY <1>1, <1>5 DEF Waits
    <3>5. at'[old[1]] \in {"wake", "down"} /\ sem'[old[1]] = 0 /\ rq'[old[1]] = c
      BY <3>4, <1>1, <1>2, <1>4 DEF Waits, Caller
    <3>7. old[1] = req'[thread[c]]
      BY <1>1, <1>4
    <3>6. Served(c)'
      BY <3>3, <3>5, <3>7, ServedNext
    <3> QED BY <2>3, <2>2, <3>2, <3>6
  <2>4. CASE d # c
    <3>1. \A i \in 1 .. Len(migration_queue[d]) : migration_queue[d][i] \in Task
      BY LenProperties, ElementOfSeq DEF TypeOK
    <3>2. migration_queue'[d] = migration_queue[d]
      BY <2>4
    <3>3. Queued(d)'
      BY <3>1, <3>2, <2>1, <1>7 DEF Queued
    <3>4. thread[d] # t
      BY <2>4, <1>1
    <3>5. Served(d)'
      BY <3>2, <3>4, <2>1, <1>4, <1>7 DEF Served
    <3> QED BY <2>2, <3>3, <3>5
  <2> QED BY <2>3, <2>4
<1>9. ASSUME NEW u \in User
      PROVE  UserSound(u)'
  <2>1. u \in Task /\ u # t /\ UserSound(u)
    BY Threads, <1>1 DEF Task
  <2> QED BY <2>1, <1>4 DEF UserSound, Caller
<1>10. \A u \in Task : Heard(u)'
  BY <1>6, Threads DEF Heard
<1>11. ASSUME NEW x \in Single
       PROVE  Placed(x)'
  <2>1. \A u \in Task : Caller(u)' /\ req'[u] = x => Caller(u) /\ req[u] = x
    BY <1>1, <1>4, <1>6
  <2>2. Called(x) => Called(x)'
    <3>1. ASSUME NEW u \in Task, Caller(u), req[u] = x
          PROVE  Called(x)'
      <4>1. at'[u] = at[u] /\ req'[u] = x
        BY <3>1, <1>1, <1>4
      <4> QED BY <3>1, <4>1 DEF Called, Caller
    <3> QED BY <3>1 DEF Called, Caller
  <2>3. ASSUME NEW d \in CPU, at'[thread[d]] \in Working, target(thread[d])' = x
        PROVE  \/ at'[thread[d]] = "dest"
               \/ /\ at'[thread[d]] = at[thread[d]] /\ target(thread[d]) = x
    <3>1. CASE thread[d] = t
      BY <3>1, <1>4
    <3>2. CASE thread[d] # t
      <4>1. at'[thread[d]] = at[thread[d]] /\ req'[thread[d]] = req[thread[d]]
        BY <3>2, <1>4, Constants
      <4>2. PICK u \in Task : u = req[thread[d]] /\ Caller(u)
        BY <4>1, <2>3, Worked
      <4>3. req'[u] = req[u]
        BY <4>2, <1>1, <1>4
      <4> QED BY <4>1, <4>2, <4>3, <2>3 DEF target
    <3> QED BY <3>1, <3>2
  <2>4. Placed(x)
    OBVIOUS
  <2> QED BY <2>1, <2>2, <2>3, <2>4 DEF Placed
<1>12. Single' = Single
  BY DEF Single
<1> QED BY <1>8, <1>9, <1>10, <1>11, <1>12 DEF Control

\* It answers a request: the task is where it may be.
LEMMA UpControl ==
    ASSUME TypeOK, Control, \A x \in Single : Placed(x), NEW c \in CPU, NEW t \in Thread,
           at[t] = "up", cpu[t] = c,
           sem' = [sem EXCEPT ![req[t]] = 1],
           at' = [at EXCEPT ![t] = "top"], forget(t),
           UNCHANGED <<cpu, cpus_allowed, migration_queue, migration_thread>>
    PROVE  Control' /\ (\A x \in Single : Placed(x))'
<1>1. /\ t = thread[c] /\ t \in Task /\ t \notin User /\ ~Caller(t)
      /\ \A d \in CPU : t = thread[d] => d = c
  BY Threaded DEF Looping
<1>2. PICK s \in Task : s = req[t] /\ Waits(s, c)
                        /\ \A i \in 1 .. Len(migration_queue[c]) : migration_queue[c][i] # s
  <2>1. Served(c) /\ at[thread[c]] \in Working
    BY <1>1, Threads DEF Working
  <2>2. req[t] \in Task
    BY <1>1 DEF TypeOK
  <2> QED BY <2>1, <2>2, <1>1 DEF Served
<1>3. /\ at'[t] = "top" /\ sem'[s] = 1 /\ s # t /\ \A u \in Task \ {s} : sem'[u] = sem[u]
      /\ \A u \in Task \ {t} : /\ at'[u] = at[u] /\ req'[u] = req[u] /\ rq'[u] = rq[u]
                               /\ cpu_dest'[u] = cpu_dest[u]
  BY <1>1, <1>2 DEF TypeOK, forget, Waits
<1>4. \A u \in Task : Caller(u)' <=> Caller(u)
  BY <1>1, <1>3 DEF Caller
<1>5. \A d : \A u \in Task \ {s} : Waits(u, d) => Waits(u, d)' /\ u # t
  BY <1>1, <1>3, <1>4 DEF Waits
<1>6. ASSUME NEW d \in CPU
      PROVE  ThreadSound(d, thread[d])' /\ Queued(d)' /\ Served(d)'
  <2>1. thread[d] \in Task /\ ThreadSound(d, thread[d]) /\ Queued(d) /\ Served(d)
        /\ req[thread[d]] \in Task
    BY Constants, Threads DEF TypeOK
  <2>2. ThreadSound(d, thread[d])'
    <3>1. CASE d = c
      BY <3>1, <2>1, <1>1, <1>3 DEF ThreadSound, Looping, Caller
    <3>2. CASE d # c
      BY <3>2, <2>1, <1>1, <1>3 DEF ThreadSound, Caller
    <3> QED BY <3>1, <3>2
  <2>3. \A i \in 1 .. Len(migration_queue[d]) : migration_queue[d][i] \in Task \ {s}
    <3>1. \A i \in 1 .. Len(migration_queue[d]) : migration_queue[d][i] \in Task
      BY LenProperties, ElementOfSeq DEF TypeOK
    <3>2. \A i \in 1 .. Len(migration_queue[d]) : migration_queue[d][i] # s
      BY <1>2, <2>1 DEF Queued, Waits
    <3> QED BY <3>1, <3>2
  <2>4. Queued(d)'
    BY <2>1, <2>3, <1>5 DEF Queued
  <2>5. Served(d)'
    <3>1. CASE d = c
      BY <3>1, <1>1, <1>3 DEF Served, Working
    <3>2. CASE d # c
      <4>1. thread[d] # t
        BY <3>2, <1>1
      <4>2. at[thread[d]] \in Working => Waits(req[thread[d]], d) /\ req[thread[d]] \in Task \ {s}
        BY <3>2, <2>1, <1>2 DEF Served, Waits
      <4> QED BY <4>1, <4>2, <2>1, <1>3, <1>5 DEF Served
    <3> QED BY <3>1, <3>2
  <2> QED BY <2>2, <2>4, <2>5
<1>7. ASSUME NEW u \in User
      PROVE  UserSound(u)'
  <2>1. u \in Task /\ u # t /\ UserSound(u)
    BY Threads, <1>1 DEF Task
  <2> QED BY <2>1, <1>3 DEF UserSound, Caller
<1>8. \A u \in Task : Heard(u)'
  BY <1>1, <1>3, <1>4, Threads DEF Heard, Caller
<1>9. ASSUME NEW x \in Single
      PROVE  Placed(x)'
  <2>1. Placed(x)
    OBVIOUS
  <2>2. \A u \in Task : Caller(u)' => Caller(u) /\ req'[u] = req[u] /\ rq'[u] = rq[u]
    BY <1>1, <1>3, <1>4
  <2>3. Called(x) => Called(x)'
    <3>1. ASSUME NEW u \in Task, Caller(u), req[u] = x
          PROVE  Called(x)'
      <4>1. at'[u] = at[u] /\ req'[u] = x
        BY <3>1, <1>1, <1>3
      <4> QED BY <3>1, <4>1 DEF Called, Caller
    <3> QED BY <3>1 DEF Called, Caller
  <2>4. req[s] = x => cpu[x] \in cpus_allowed[x]
    <3>1. target(thread[c]) = req[s] /\ at[thread[c]] \in Working /\ at[thread[c]] = "up"
      BY <1>1, <1>2 DEF target, Working
    <3> QED BY <3>1, <2>1 DEF Placed
  <2>5. \A u \in Task : Caller(u)' /\ req'[u] = x =>
          /\ cpu[x] = rq'[u] \/ cpu[x] \in cpus_allowed[x]
          /\ sem'[u] = 1 => cpu[x] \in cpus_allowed[x]
    BY <2>1, <2>2, <2>4, <1>3 DEF Placed
  <2>6. ASSUME NEW d \in CPU, at'[thread[d]] \in Working, target(thread[d])' = x
        PROVE  at'[thread[d]] = at[thread[d]] /\ target(thread[d]) = x
               /\ cpu_dest'[thread[d]] = cpu_dest[thread[d]]
    <3>1. thread[d] # t /\ thread[d] \in Task
      BY <2>6, <1>3, Constants DEF Working
    <3>2. at'[thread[d]] = at[thread[d]] /\ req'[thread[d]] = req[thread[d]]
          /\ cpu_dest'[thread[d]] = cpu_dest[thread[d]]
      BY <3>1, <1>3
    <3>3. PICK u \in Task : u = req[thread[d]] /\ Caller(u)
      BY <3>2, <2>6, Worked
    <3>4. req'[u] = req[u]
      BY <3>3, <1>1, <1>3
    <3> QED BY <3>2, <3>3, <3>4, <2>6 DEF target
  <2> QED BY <2>1, <2>3, <2>5, <2>6 DEF Placed
<1>10. Single' = Single
  BY DEF Single
<1> QED BY <1>6, <1>7, <1>8, <1>9, <1>10 DEF Control

-----------------------------------------------------------------------------
(* Every step keeps the inductive invariant: the steps of the scheduler.   *)

\* The step leaves what a task remembers of a request, and the requests.
LEMMA NoticedMoves ==
    ASSUME TypeOK, Control, RequestNoticed,
           UNCHANGED <<migration_queue, migration_thread, at, rq>>,
           \A c \in CPU :
             /\ at[thread[c]] = "top" /\ array[thread[c]] # NULL => array'[thread[c]] # NULL
             /\ at[thread[c]] = "sched" /\ state[thread[c]] = "running" => state'[thread[c]] = "running"
    PROVE  RequestNoticed'
<1>1. ASSUME NEW c \in CPU
      PROVE  Noticed(c)'
  <2>1. CASE migration_queue[c] = <<>>
    BY <2>1 DEF Noticed
  <2>2. CASE migration_queue[c] # <<>>
    <3>1. migration_thread[c] = thread[c]
      BY <2>2, Thereby
    <3>2. Noticed(c)
      BY DEF RequestNoticed, Noticed
    <3> QED BY <3>1, <3>2 DEF Noticed
  <2> QED BY <2>1, <2>2
<1> QED BY <1>1 DEF RequestNoticed, Noticed

\* The runqueues are as they were, and so are the tasks on them.
LEMMA SameQueues ==
    ASSUME TypeOK, QueueExact, UNCHANGED <<nr_running, array, curr, migration_thread>>,
           \A t \in Task : array[t] # NULL => cpu'[t] = cpu[t],
           \A c \in CPU : curr[c] # Idle => cpu'[curr[c]] = cpu[curr[c]],
           \A c \in CPU : balance[c].by = "schedule" /\ balance[c].at # "none" =>
                            balance'[c].by = "schedule" /\ balance'[c].at # "none"
    PROVE  QueueExact'
<1>1. (\A c \in CPU : nr_running[c] = Cardinality(on_rq(now, c)))'
  BY DEF QueueExact, on_rq, now
<1>2. \A t \in Task : array'[t] # NULL => array'[t] = <<cpu'[t], home(t)'>>
  BY HomeKept DEF QueueExact
<1>3. \A c \in CPU : curr'[c] # Idle =>
        /\ cpu'[curr'[c]] = c
        /\ array'[curr'[c]] = NULL => balance'[c].by = "schedule" /\ balance'[c].at # "none"
  BY DEF QueueExact
<1> QED BY <1>1, <1>2, <1>3, Exact

LEMMA PreemptInvariant == ASSUME IInv, NEW c \in CPU, Preempt(c) PROVE IInv'
<1>1. /\ TypeOK /\ QueueExact /\ RequestNoticed /\ Apart /\ Control /\ \A p \in Single : Placed(p)
      /\ balance[c].at = "none" /\ schedule(c, FALSE)
      /\ UNCHANGED <<cpu, cpus_allowed, migration_queue, migration_thread, sem, state, at, req, rq, cpu_dest>>
  BY DEF IInv, Preempt, affinity, requests, locals
<1>2. /\ QueueExact' /\ Apart'
      /\ nr_running' \in [CPU -> 0 .. Cardinality(Task)]
      /\ array' \in [Task -> (CPU \X {"active", "rt_short"}) \cup {NULL}]
      /\ curr' \in [CPU -> Task \cup {Idle}] /\ need_resched' \in [CPU -> BOOLEAN]
      /\ lock' \in [CPU -> CPU \cup {NULL}] /\ balance' \in [CPU -> Balance]
      /\ \A t \in Task : array'[t] = IF FALSE /\ t = curr[c] THEN NULL ELSE array[t]
  BY <1>1, Schedule
<1>3. TypeOK'
  BY <1>1, <1>2 DEF TypeOK
<1>4. Control' /\ (\A p \in Single : Placed(p))'
  BY <1>1, Moves
<1>5. RequestNoticed'
  BY <1>1, <1>2, NoticedMoves, Constants
<1> QED BY <1>2, <1>3, <1>4, <1>5 DEF IInv

\* A task that goes to sleep is no migration thread at the top of its loop.
LEMMA SleepsInvariant ==
    ASSUME IInv, NEW c \in CPU, NEW t \in Task, Runs(t, c), schedule(c, TRUE),
           at[t] \in {"user", "down"}, state' = [state EXCEPT ![t] = "sleeping"],
           UNCHANGED <<cpu, cpus_allowed, migration_queue, migration_thread, sem, at, req, rq, cpu_dest>>
    PROVE  IInv'
<1>1. /\ TypeOK /\ QueueExact /\ RequestNoticed /\ Apart /\ Control /\ \A p \in Single : Placed(p)
      /\ balance[c].at = "none" /\ curr[c] = t
  BY DEF IInv, Runs
<1>2. /\ QueueExact' /\ Apart'
      /\ nr_running' \in [CPU -> 0 .. Cardinality(Task)]
      /\ array' \in [Task -> (CPU \X {"active", "rt_short"}) \cup {NULL}]
      /\ curr' \in [CPU -> Task \cup {Idle}] /\ need_resched' \in [CPU -> BOOLEAN]
      /\ lock' \in [CPU -> CPU \cup {NULL}] /\ balance' \in [CPU -> Balance]
      /\ \A u \in Task : array'[u] = IF TRUE /\ u = curr[c] THEN NULL ELSE array[u]
  BY <1>1, Schedule
<1>3. state' \in [Task -> {"running", "sleeping"}] /\ \A u \in Task \ {t} : state'[u] = state[u]
  BY <1>1 DEF TypeOK
<1>4. TypeOK'
  BY <1>1, <1>2, <1>3 DEF TypeOK
<1>5. Control' /\ (\A p \in Single : Placed(p))'
  BY <1>1, Moves
<1>6. RequestNoticed'
  BY <1>1, <1>2, <1>3, NoticedMoves, Constants
<1> QED BY <1>2, <1>4, <1>5, <1>6 DEF IInv

LEMMA WakeInvariant == ASSUME IInv, NEW p \in User, Wake(p) PROVE IInv'
<1>1. /\ TypeOK /\ QueueExact /\ RequestNoticed /\ Apart /\ Control /\ \A x \in Single : Placed(x)
      /\ p \in Task /\ try_to_wake_up(p)
      /\ UNCHANGED <<lock, curr, cpu, cpus_allowed, migration_queue, migration_thread, sem, at, req, rq,
                     cpu_dest, balance>>
  BY DEF IInv, Wake, affinity, requests, locals, Task
<1>2. /\ QueueExact'
      /\ nr_running' \in [CPU -> 0 .. Cardinality(Task)]
      /\ array' \in [Task -> (CPU \X {"active", "rt_short"}) \cup {NULL}]
      /\ need_resched' \in [CPU -> BOOLEAN]
      /\ state' \in [Task -> {"running", "sleeping"}]
      /\ array'[p] # NULL /\ state'[p] = "running"
      /\ \A t \in Task \ {p} : array'[t] = array[t] /\ state'[t] = state[t]
  BY <1>1, WakeUp
<1>3. TypeOK'
  BY <1>1, <1>2 DEF TypeOK
<1>4. Control' /\ (\A x \in Single : Placed(x))'
  BY <1>1, Moves
<1>5. RequestNoticed'
  BY <1>1, <1>2, NoticedMoves, Constants
<1>6. Apart'
  BY <1>1 DEF Apart
<1> QED BY <1>2, <1>3, <1>4, <1>5, <1>6 DEF IInv

\* The steps of load_balance() that pull nothing.
LEMMA BalanceInvariant ==
    ASSUME IInv, NEW c \in CPU,
           lock' \in [CPU -> CPU \cup {NULL}], balance' \in [CPU -> Balance],
           \A d \in CPU \ {c} : balance'[d] = balance[d],
           balance'[c].at # "none" /\ balance'[c].busiest # c,
           balance[c].at # "none" => balance'[c].by = balance[c].by,
           UNCHANGED <<queues, curr, need_resched, cpu, cpus_allowed, requests, state, at, locals>>
    PROVE  IInv'
<1>1. /\ TypeOK /\ QueueExact /\ RequestNoticed /\ Apart /\ Control /\ \A x \in Single : Placed(x)
      /\ UNCHANGED <<nr_running, array, curr, need_resched, cpu, cpus_allowed, migration_queue,
                     migration_thread, sem, state, at, req, rq, cpu_dest>>
  BY DEF IInv, queues, requests, locals
<1>2. TypeOK'
  BY <1>1 DEF TypeOK
<1>3. QueueExact'
  BY <1>1, SameQueues
<1>4. Control' /\ (\A x \in Single : Placed(x))'
  BY <1>1, Moves
<1>5. RequestNoticed'
  BY <1>1, NoticedMoves
<1>6. Apart'
  BY <1>1 DEF Apart
<1> QED BY <1>2, <1>3, <1>4, <1>5, <1>6 DEF IInv

LEMMA PullInvariant ==
    ASSUME IInv, NEW c \in CPU, balance[c].at # "none", pull(c, lock),
           UNCHANGED <<cpus_allowed, requests, state, at, locals>>
    PROVE  IInv'
<1>1. /\ TypeOK /\ QueueExact /\ RequestNoticed /\ Apart /\ Control /\ \A x \in Single : Placed(x)
      /\ lock \in [CPU -> CPU \cup {NULL}]
      /\ UNCHANGED <<cpus_allowed, migration_queue, migration_thread, sem, state, at, req, rq, cpu_dest>>
  BY DEF IInv, TypeOK, requests, locals
<1>2. /\ QueueExact' /\ Apart'
      /\ nr_running' \in [CPU -> 0 .. Cardinality(Task)]
      /\ array' \in [Task -> (CPU \X {"active", "rt_short"}) \cup {NULL}]
      /\ cpu' \in [Task -> CPU]
      /\ curr' \in [CPU -> Task \cup {Idle}] /\ need_resched' \in [CPU -> BOOLEAN]
      /\ lock' \in [CPU -> CPU \cup {NULL}] /\ balance' \in [CPU -> Balance]
      /\ \A t \in Task : cpu'[t] = cpu[t] \/ cpu'[t] \in cpus_allowed[t]
      /\ \A t \in Task : array[t] # NULL => array'[t] # NULL
  BY <1>1, Pull
<1>3. TypeOK'
  BY <1>1, <1>2 DEF TypeOK
<1>4. Control' /\ (\A x \in Single : Placed(x))'
  BY <1>1, <1>2, Moves
<1>5. RequestNoticed'
  BY <1>1, <1>2, NoticedMoves, Constants
<1> QED BY <1>2, <1>3, <1>4, <1>5 DEF IInv

LEMMA TickInvariant == ASSUME IInv, NEW c \in CPU, Tick(c) PROVE IInv'
<1>1. balance[c].at = "none" /\ lock \in [CPU -> CPU \cup {NULL}] /\ balance \in [CPU -> Balance]
  BY DEF IInv, TypeOK, Tick
<1>2. PICK idle \in BOOLEAN, d \in CPU \ {c}, i \in Nat : begin_balance(c, idle, "tick", d, i)
  <2>1. CASE curr[c] = Idle
    <3>1. \E d \in CPU \ {c} : begin_balance(c, TRUE, "tick", d, 1)
      BY <2>1 DEF Tick, busiest_when_idle
    <3> QED BY <3>1
  <2>2. CASE curr[c] # Idle
    <3>0. PICK d \in CPU \ {c} : \E i \in imbalances(c, d) : begin_balance(c, FALSE, "tick", d, i)
      BY <2>2 DEF Tick
    <3>1. PICK i \in imbalances(c, d) : begin_balance(c, FALSE, "tick", d, i)
      BY <3>0
    <3>2. i \in Nat
      <4>1. PICK load \in 2 .. nr_running[d] :
              i = (load - nr_running[c]) \div 2
              /\ (load - nr_running[c]) \div 2 >= (load + 3) \div 4
        BY DEF imbalances
      <4>2. nr_running[c] \in Nat /\ nr_running[d] \in Nat
        BY Constants, FS_CardinalityType DEF IInv, TypeOK
      <4>3. (load + 3) \div 4 >= 0 /\ (load - nr_running[c]) \div 2 \in Int /\ (load + 3) \div 4 \in Int
        BY <4>2
      <4> QED BY <4>1, <4>3
    <3> QED BY <3>1, <3>2
  <2> QED BY <2>1, <2>2
<1>3. /\ lock' \in [CPU -> CPU \cup {NULL}] /\ balance' \in [CPU -> Balance]
      /\ \A e \in CPU \ {c} : balance'[e] = balance[e]
      /\ balance'[c].at # "none" /\ balance'[c].busiest # c
  BY <1>1, <1>2 DEF begin_balance, Balance
<1>4. UNCHANGED <<queues, curr, need_resched, cpu, cpus_allowed, requests, state, at, locals>>
  BY DEF Tick, affinity
<1> QED BY <1>1, <1>3, <1>4, BalanceInvariant

LEMMA BalancingInvariant == ASSUME IInv, NEW c \in CPU, Balancing(c) PROVE IInv'
<1>0. TypeOK /\ Apart /\ balance \in [CPU -> Balance] /\ lock \in [CPU -> CPU \cup {NULL}]
      /\ balance[c].busiest \in CPU
  BY DEF IInv, TypeOK, Balance
<1>1. CASE LockBusiest(c)
  <2>1. CASE pull(c, lock)
    BY <1>1, <2>1, PullInvariant DEF LockBusiest
  <2>2. CASE ~pull(c, lock)
    <3>1. /\ balance[c].at # "none"
          /\ lock' = [lock EXCEPT ![c] = NULL]
          /\ balance' = [balance EXCEPT ![c].at = "dropped"]
          /\ UNCHANGED <<queues, curr, need_resched, cpu, cpus_allowed, requests, state, at, locals>>
      BY <1>1, <2>2 DEF LockBusiest
    <3>2. /\ lock' \in [CPU -> CPU \cup {NULL}] /\ balance' \in [CPU -> Balance]
          /\ \A e \in CPU \ {c} : balance'[e] = balance[e]
          /\ balance'[c].at # "none" /\ balance'[c].busiest # c
          /\ balance'[c].by = balance[c].by
      BY <1>0, <3>1 DEF Balance, Apart
    <3> QED BY <3>1, <3>2, BalanceInvariant
  <2> QED BY <2>1, <2>2
<1>2. CASE LockDropped(c)
  <2>1. /\ balance[c].at # "none"
        /\ lock' = [lock EXCEPT ![balance[c].busiest] = c]
        /\ balance' = [balance EXCEPT ![c].at = "this"]
        /\ UNCHANGED <<queues, curr, need_resched, cpu, cpus_allowed, requests, state, at, locals>>
    BY <1>2 DEF LockDropped, affinity
  <2>2. /\ lock' \in [CPU -> CPU \cup {NULL}] /\ balance' \in [CPU -> Balance]
        /\ \A e \in CPU \ {c} : balance'[e] = balance[e]
        /\ balance'[c].at # "none" /\ balance'[c].busiest # c
        /\ balance'[c].by = balance[c].by
    BY <1>0, <2>1 DEF Balance, Apart
  <2> QED BY <2>1, <2>2, BalanceInvariant
<1>3. CASE LockThis(c)
  BY <1>3, PullInvariant DEF LockThis
<1> QED BY <1>1, <1>2, <1>3 DEF Balancing

-----------------------------------------------------------------------------
(* The steps of a synchronous wakeup and of set_cpus_allowed().            *)

LEMMA WakeSyncInvariant ==
    ASSUME IInv, NEW c \in CPU, NEW t \in User, NEW p \in User, WakeSync(c, t, p)
    PROVE  IInv'
<1>1. /\ TypeOK /\ QueueExact /\ RequestNoticed /\ Apart /\ Control /\ \A x \in Single : Placed(x)
      /\ t \in Task /\ p \in Task /\ t \notin Thread /\ at[t] \in {"user", "sync"}
      /\ array[p] = NULL /\ curr[cpu[p]] # p /\ c \in cpus_allowed[p]
      /\ cpu' = [cpu EXCEPT ![p] = c] /\ at' = [at EXCEPT ![t] = "sync"] /\ req' = [req EXCEPT ![t] = p]
      /\ UNCHANGED <<lock, curr, need_resched, nr_running, array, cpus_allowed, state, migration_queue,
                     migration_thread, sem, rq, cpu_dest, balance>>
  BY MigrationAssumption DEF IInv, WakeSync, moves_here, queues, requests, Task
<1>2. /\ at'[t] = "sync" /\ req'[t] = p /\ \A u \in Task \ {t} : at'[u] = at[u] /\ req'[u] = req[u]
      /\ cpu'[p] = c /\ \A x \in Task \ {p} : cpu'[x] = cpu[x]
  BY <1>1 DEF TypeOK
<1>3. TypeOK'
  BY <1>1 DEF TypeOK
<1>4. QueueExact'
  <2>1. \A d \in CPU : curr[d] # Idle => curr[d] \in Task /\ curr[d] # p
    BY <1>1 DEF QueueExact, TypeOK
  <2> QED BY <1>1, <1>2, <2>1, SameQueues
<1>5. Control' /\ (\A x \in Single : Placed(x))'
  <2>1. ~Caller(t)' /\ ~Caller(t) /\ UserSound(t)'
    BY <1>1, <1>2 DEF Caller, UserSound
  <2>2. \A x \in Single : cpu'[x] = cpu[x] \/ cpu'[x] \in cpus_allowed[x]
    BY <1>1, <1>2, Threads
  <2>3. \A d \in CPU : t # thread[d]
    BY Constants
  <2> QED BY <1>1, <1>2, <2>1, <2>2, <2>3, OneSteps
<1>6. RequestNoticed'
  <2>1. ASSUME NEW d \in CPU PROVE Noticed(d)'
    <3>1. Noticed(d) /\ t # thread[d] /\ at[t] # "wake"
      BY <1>1, Constants DEF RequestNoticed, Noticed
    <3> QED BY <1>1, <1>2, <3>1, NoticedStays
  <2> QED BY <2>1 DEF RequestNoticed, Noticed
<1>7. Apart'
  BY <1>1 DEF Apart
<1> QED BY <1>3, <1>4, <1>5, <1>6, <1>7 DEF IInv

LEMMA WakeSyncEndsInvariant ==
    ASSUME IInv, NEW c \in CPU, NEW t \in Task, WakeSyncEnds(c, t)
    PROVE  IInv'
<1>1. /\ TypeOK /\ QueueExact /\ RequestNoticed /\ Apart /\ Control /\ \A x \in Single : Placed(x)
      /\ at[t] = "sync" /\ req[t] \in Task /\ try_to_wake_up(req[t])
      /\ at' = [at EXCEPT ![t] = "user"] /\ forget(t)
      /\ UNCHANGED <<lock, curr, cpu, cpus_allowed, migration_queue, migration_thread, sem, balance>>
  BY DEF IInv, WakeSyncEnds, affinity, requests, TypeOK
<1>2. t \in User /\ \A d \in CPU : t # thread[d]
  <2>1. \A d \in CPU : t # thread[d]
    BY <1>1, Threads DEF ThreadSound
  <2> QED BY <2>1, Constants
<1>3. /\ QueueExact'
      /\ nr_running' \in [CPU -> 0 .. Cardinality(Task)]
      /\ array' \in [Task -> (CPU \X {"active", "rt_short"}) \cup {NULL}]
      /\ need_resched' \in [CPU -> BOOLEAN]
      /\ state' \in [Task -> {"running", "sleeping"}]
      /\ array'[req[t]] # NULL /\ state'[req[t]] = "running"
      /\ \A u \in Task \ {req[t]} : array'[u] = array[u] /\ state'[u] = state[u]
  BY <1>1, WakeUp
<1>4. /\ at'[t] = "user" /\ \A u \in Task \ {t} : /\ at'[u] = at[u] /\ req'[u] = req[u] /\ rq'[u] = rq[u]
                                                  /\ cpu_dest'[u] = cpu_dest[u]
      /\ at' \in [Task -> {"user", "sync", "wake", "down", "boot", "bind", "top", "sched", "dest",
                           "src", "first", "second", "up"}]
      /\ req' \in [Task -> Task] /\ rq' \in [Task -> CPU] /\ cpu_dest' \in [Task -> CPU]
  <2>1. at \in [Task -> {"user", "sync", "wake", "down", "boot", "bind", "top", "sched", "dest",
                         "src", "first", "second", "up"}] /\ at' = [at EXCEPT ![t] = "user"]
    BY <1>1 DEF TypeOK
  <2> QED BY <2>1, <1>1, Forgets
<1>5. TypeOK'
  BY <1>1, <1>3, <1>4 DEF TypeOK
<1>6. Control' /\ (\A x \in Single : Placed(x))'
  <2>1. ~Caller(t)' /\ ~Caller(t) /\ UserSound(t)'
    BY <1>1, <1>4 DEF Caller, UserSound
  <2> QED BY <1>1, <1>2, <1>4, <2>1, OneSteps
<1>7. RequestNoticed'
  <2>1. ASSUME NEW d \in CPU PROVE Noticed(d)'
    <3>1. Noticed(d) /\ t # thread[d] /\ at[t] # "wake" /\ thread[d] \in Task
      BY <1>1, <1>2, Constants DEF RequestNoticed, Noticed
    <3>2. array[thread[d]] # NULL => array'[thread[d]] # NULL
      BY <1>3, <3>1
    <3>3. state[thread[d]] = "running" => state'[thread[d]] = "running"
      BY <1>3, <3>1
    <3> QED BY <1>1, <1>4, <3>1, <3>2, <3>3, NoticedStays
  <2> QED BY <2>1 DEF RequestNoticed, Noticed
<1>8. Apart'
  BY <1>1 DEF Apart
<1> QED BY <1>3, <1>5, <1>6, <1>7, <1>8 DEF IInv

LEMMA SetCpusAllowedInvariant ==
    ASSUME IInv, NEW c \in CPU, NEW t \in Task, NEW p \in Task, NEW mask \in (SUBSET CPU) \ {{}}, NEW done,
           Runs(t, c), ByUser(t, p, done) \/ ByThread(t, p, mask, done),
           set_cpus_allowed(c, t, p, mask, done)
    PROVE  IInv'
<1>1. /\ TypeOK /\ QueueExact /\ RequestNoticed /\ Apart /\ Control /\ \A x \in Single : Placed(x)
      /\ cpus_allowed' = [cpus_allowed EXCEPT ![p] = mask] /\ cpu[p] \in CPU
      /\ UNCHANGED <<lock, curr, need_resched, nr_running, array, state, cpu_dest, balance, migration_thread>>
  BY DEF IInv, set_cpus_allowed, queues, requests, TypeOK
<1>2. /\ \A x \in Task : cpus_allowed'[x] = IF x = p THEN mask ELSE cpus_allowed[x]
      /\ cpus_allowed' \in [Task -> (SUBSET CPU) \ {{}}]
  BY <1>1 DEF TypeOK
<1>3. Apart'
  BY <1>1 DEF Apart
<1>4. at[t] \in {"user", "boot"} /\ ~Caller(t)
  BY DEF ByUser, ByThread, Caller
<1>5. CASE cpu[p] \in mask \/ (array[p] = NULL /\ p # curr[cpu[p]])
  <2>1. /\ cpu' = [cpu EXCEPT ![p] = IF cpu[p] \in mask THEN @ ELSE ffs(mask)]
        /\ at' = [at EXCEPT ![t] = done] /\ UNCHANGED <<migration_queue, sem, req, rq>>
    BY <1>5 DEF set_cpus_allowed, requests
  <2>2. ByUser(t, p, done)
    <3>1. CASE ByThread(t, p, mask, done)
      <4>1. PICK d \in CPU \ {0} : t = thread[d] /\ mask = {d} /\ p = t /\ at[t] = "boot"
        BY <3>1 DEF ByThread
      <4>2. cpu[p] = 0
        BY <4>1, <1>1, Threads DEF ThreadSound
      <4>3. array[p] # NULL
        BY <4>1, <1>1, Running
      <4> QED BY <4>1, <4>2, <4>3, <1>5
    <3> QED BY <3>1
  <2>3. at' = at
    BY <2>1, <2>2, <1>1 DEF ByUser, TypeOK
  <2>4. /\ ffs(mask) \in mask /\ cpu'[p] \in mask /\ cpu' \in [Task -> CPU]
        /\ \A x \in Task \ {p} : cpu'[x] = cpu[x]
        /\ cpu[p] \in mask => cpu'[p] = cpu[p]
    <3>1. ffs(mask) \in mask
      <4>1. mask \in SUBSET CPU /\ mask # {}
        OBVIOUS
      <4> QED BY <4>1, First
    <3> QED BY <2>1, <3>1, <1>1 DEF TypeOK
  <2>5. Control' /\ (\A x \in Single : Placed(x))'
    BY <1>1, <1>2, <2>1, <2>2, <2>3, <2>4, SetMask
  <2>6. TypeOK'
    BY <1>1, <1>2, <2>1, <2>3, <2>4 DEF TypeOK
  <2>7. QueueExact'
    <3>1. \A x \in Task : array[x] # NULL => cpu'[x] = cpu[x]
      BY <2>4, <1>5
    <3>2. ASSUME NEW d \in CPU, curr[d] # Idle
          PROVE  cpu'[curr[d]] = cpu[curr[d]]
      <4>1. curr[d] \in Task /\ cpu[curr[d]] = d
        BY <1>1, <3>2 DEF TypeOK, QueueExact
      <4> QED BY <4>1, <2>4, <1>5
    <3> QED BY <1>1, <3>1, <3>2, SameQueues
  <2>8. RequestNoticed'
    BY <1>1, <2>1, <2>3, NoticedMoves
  <2> QED BY <1>3, <2>5, <2>6, <2>7, <2>8 DEF IInv
<1>6. CASE ~(cpu[p] \in mask \/ (array[p] = NULL /\ p # curr[cpu[p]]))
  <2>1. /\ migration_queue' = [migration_queue EXCEPT ![cpu[p]] = <<t>> \o @]
        /\ sem' = [sem EXCEPT ![t] = 0] /\ req' = [req EXCEPT ![t] = p] /\ rq' = [rq EXCEPT ![t] = cpu[p]]
        /\ at' = [at EXCEPT ![t] = "wake"] /\ cpu' = cpu
    BY <1>6 DEF set_cpus_allowed
  <2>2. /\ at'[t] = "wake" /\ req'[t] = p /\ rq'[t] = cpu[p] /\ sem'[t] = 0
        /\ \A u \in Task \ {t} : /\ at'[u] = at[u] /\ req'[u] = req[u] /\ rq'[u] = rq[u]
                                 /\ sem'[u] = sem[u]
        /\ \A d \in CPU : migration_queue'[d] = IF d = cpu[p] THEN <<t>> \o migration_queue[d]
                                                ELSE migration_queue[d]
    <3>1. /\ at \in [Task -> {"user", "sync", "wake", "down", "boot", "bind", "top", "sched", "dest",
                              "src", "first", "second", "up"}]
          /\ req \in [Task -> Task] /\ rq \in [Task -> CPU] /\ sem \in [Task -> {0, 1}]
          /\ migration_queue \in [CPU -> Seq(Task)]
      BY <1>1 DEF TypeOK
    <3>2. /\ at'[t] = "wake" /\ req'[t] = p /\ rq'[t] = cpu[p] /\ sem'[t] = 0
      BY <2>1, <3>1
    <3>3. \A u \in Task \ {t} : at'[u] = at[u] /\ req'[u] = req[u] /\ rq'[u] = rq[u] /\ sem'[u] = sem[u]
      BY <2>1, <3>1
    <3>4. \A d \in CPU : migration_queue'[d] = IF d = cpu[p] THEN <<t>> \o migration_queue[d]
                                               ELSE migration_queue[d]
      BY <2>1, <3>1
    <3> QED BY <3>2, <3>3, <3>4
  <2>3. Control' /\ (\A x \in Single : Placed(x))'
    <3>1. /\ TypeOK /\ Control /\ \A x \in Single : Placed(x)
          /\ UNCHANGED <<migration_thread, cpu, cpu_dest>>
      BY <1>1, <2>1
    <3>2. \A x \in Task : cpus_allowed'[x] = IF x = p THEN mask ELSE cpus_allowed[x]
      BY <1>2
    <3>3. /\ at'[t] = "wake" /\ req'[t] = p /\ rq'[t] = cpu[p] /\ sem'[t] = 0
      BY <2>2
    <3>4. \A u \in Task \ {t} : at'[u] = at[u] /\ req'[u] = req[u] /\ rq'[u] = rq[u] /\ sem'[u] = sem[u]
      BY <2>2
    <3>5. \A d \in CPU : migration_queue'[d] = IF d = cpu[p] THEN <<t>> \o migration_queue[d]
                                               ELSE migration_queue[d]
      BY <2>2
    <3> QED BY <3>1, <3>2, <3>3, <3>4, <3>5, Request
  <2>4. migration_queue' \in [CPU -> Seq(Task)]
    <3>1. migration_queue[cpu[p]] \in Seq(Task) /\ migration_queue \in [CPU -> Seq(Task)]
      BY <1>1 DEF TypeOK
    <3>2. <<t>> \o migration_queue[cpu[p]] \in Seq(Task)
      BY <3>1, Pushed
    <3> QED BY <2>1, <3>1, <3>2
  <2>5. TypeOK'
    BY <1>1, <1>2, <2>1, <2>4 DEF TypeOK
  <2>6. QueueExact'
    BY <1>1, <2>1, SameQueues
  <2>7. ASSUME NEW d \in CPU PROVE Noticed(d)'
    <3>1. CASE d = cpu[p]
      BY <3>1, <2>2 DEF Noticed
    <3>2. CASE d # cpu[p]
      <4>1. Noticed(d) /\ (t = thread[d] => at[t] \notin Looping) /\ at[t] # "wake"
        BY <1>1, <1>4 DEF RequestNoticed, Noticed, Looping
      <4> QED BY <1>1, <2>2, <3>2, <4>1, NoticedStays
    <3> QED BY <3>1, <3>2
  <2>8. RequestNoticed'
    BY <2>7 DEF RequestNoticed, Noticed
  <2> QED BY <1>3, <2>3, <2>5, <2>6, <2>8 DEF IInv
<1> QED BY <1>5, <1>6

LEMMA WakeThreadInvariant ==
    ASSUME IInv, NEW c \in CPU, NEW t \in Task, WakeThread(c, t)
    PROVE  IInv'
<1> DEFINE m == migration_thread[rq[t]]
<1>1. /\ TypeOK /\ QueueExact /\ RequestNoticed /\ Apart /\ Control /\ \A x \in Single : Placed(x)
      /\ at[t] = "wake" /\ rq[t] \in CPU /\ try_to_wake_up(m)
      /\ at' = [at EXCEPT ![t] = "down"]
      /\ UNCHANGED <<lock, curr, cpu, cpus_allowed, migration_queue, migration_thread, sem, req, rq,
                     cpu_dest, balance>>
  BY DEF IInv, WakeThread, affinity, requests, locals, TypeOK
<1>2. /\ m = thread[rq[t]] /\ m \in Task /\ at[m] \in Looping /\ m # t
  <2>1. m # NULL /\ Caller(t)
    BY <1>1, Threads DEF Heard, Caller
  <2>2. m = thread[rq[t]] /\ at[m] \in Looping
    BY <1>1, <2>1, Threads DEF ThreadSound
  <2> QED BY <1>1, <2>1, <2>2, Constants DEF Looping
<1> HIDE DEF m
<1>3. /\ QueueExact'
      /\ nr_running' \in [CPU -> 0 .. Cardinality(Task)]
      /\ array' \in [Task -> (CPU \X {"active", "rt_short"}) \cup {NULL}]
      /\ need_resched' \in [CPU -> BOOLEAN]
      /\ state' \in [Task -> {"running", "sleeping"}]
      /\ array'[m] # NULL /\ state'[m] = "running"
      /\ \A u \in Task \ {m} : array'[u] = array[u] /\ state'[u] = state[u]
  BY <1>1, <1>2, WakeUp
<1>4. at'[t] = "down" /\ \A u \in Task \ {t} : at'[u] = at[u]
  BY <1>1 DEF TypeOK
<1>5. TypeOK'
  BY <1>1, <1>3 DEF TypeOK
<1>6. Control' /\ (\A x \in Single : Placed(x))'
  <2>1. Caller(t) /\ Caller(t)'
    BY <1>1, <1>4 DEF Caller
  <2>2. t \in User => UserSound(t)'
    BY <1>1, <1>4, <2>1, Threads DEF UserSound, Caller
  <2>3. ASSUME NEW d \in CPU, t = thread[d]
        PROVE  ThreadSound(d, t)'
    <3>1. ThreadSound(d, t)
      BY <1>1, <2>3, Threads
    <3> QED BY <3>1, <1>1, <1>4 DEF ThreadSound, Caller, Looping
  <2>4. at'[t] \notin Working
    BY <1>4 DEF Working
  <2> QED BY <1>1, <1>4, <2>1, <2>2, <2>3, <2>4, OneSteps
<1>7. ASSUME NEW d \in CPU
      PROVE  Noticed(d)'
  <2>1. Noticed(d) /\ thread[d] \in Task /\ (t = thread[d] => at[t] \notin Looping)
    BY <1>1, Constants DEF RequestNoticed, Noticed, Looping
  <2>2. CASE d = rq[t]
    <3>1. m = migration_thread'[d] /\ at'[m] = at[m]
      BY <2>2, <1>1, <1>2, <1>4 DEF m
    <3> QED BY <3>1, <1>2, <1>3 DEF Noticed, Looping
  <2>3. CASE d # rq[t]
    <3>1. /\ array[thread[d]] # NULL => array'[thread[d]] # NULL
          /\ state[thread[d]] = "running" => state'[thread[d]] = "running"
      BY <2>1, <1>3
    <3> QED BY <1>1, <1>4, <2>1, <2>3, <3>1, NoticedStays
  <2> QED BY <2>2, <2>3
<1>8. RequestNoticed'
  BY <1>7 DEF RequestNoticed, Noticed
<1>9. Apart'
  BY <1>1 DEF Apart
<1> QED BY <1>3, <1>5, <1>6, <1>8, <1>9 DEF IInv

LEMMA DownInvariant ==
    ASSUME IInv, NEW c \in CPU, NEW t \in Task, Down(c, t)
    PROVE  IInv'
<1>1. /\ TypeOK /\ QueueExact /\ RequestNoticed /\ Apart /\ Control /\ \A x \in Single : Placed(x)
      /\ at[t] = "down" /\ sem[t] = 1 /\ sem' = [sem EXCEPT ![t] = 0]
      /\ at' = [at EXCEPT ![t] = IF t \in Thread THEN "bind" ELSE "user"] /\ forget(t)
      /\ UNCHANGED <<lock, curr, need_resched, nr_running, array, cpu, cpus_allowed, migration_queue,
                     migration_thread, state, balance>>
  BY DEF IInv, Down, affinity, queues
<1>2. /\ at'[t] = IF t \in Thread THEN "bind" ELSE "user"
      /\ \A u \in Task \ {t} : /\ at'[u] = at[u] /\ req'[u] = req[u] /\ rq'[u] = rq[u]
                               /\ cpu_dest'[u] = cpu_dest[u] /\ sem'[u] = sem[u]
      /\ at' \in [Task -> {"user", "sync", "wake", "down", "boot", "bind", "top", "sched", "dest",
                           "src", "first", "second", "up"}]
      /\ req' \in [Task -> Task] /\ rq' \in [Task -> CPU] /\ cpu_dest' \in [Task -> CPU]
      /\ sem' \in [Task -> {0, 1}]
  <2>1. at \in [Task -> {"user", "sync", "wake", "down", "boot", "bind", "top", "sched", "dest",
                         "src", "first", "second", "up"}] /\ sem \in [Task -> {0, 1}]
    BY <1>1 DEF TypeOK
  <2>2. /\ at' = [at EXCEPT ![t] = IF t \in Thread THEN "bind" ELSE "user"]
        /\ sem' = [sem EXCEPT ![t] = 0]
    BY <1>1
  <2>3. at' \in [Task -> {"user", "sync", "wake", "down", "boot", "bind", "top", "sched", "dest",
                          "src", "first", "second", "up"}] /\ sem' \in [Task -> {0, 1}]
    BY <2>1, <2>2
  <2>4. at'[t] = IF t \in Thread THEN "bind" ELSE "user"
    BY <2>1, <2>2
  <2>5. \A u \in Task \ {t} : at'[u] = at[u] /\ sem'[u] = sem[u]
    BY <2>1, <2>2
  <2> QED BY <2>3, <2>4, <2>5, <1>1, Forgets
<1>3. TypeOK'
  BY <1>1, <1>2 DEF TypeOK
<1>4. QueueExact'
  BY <1>1, SameQueues
<1>5. Control' /\ (\A x \in Single : Placed(x))'
  <2>1. Caller(t) /\ ~Caller(t)' /\ at'[t] \notin Working
    BY <1>1, <1>2 DEF Caller, Working
  <2>2. t \in User => UserSound(t)'
    BY <1>2, MigrationAssumption DEF UserSound, Caller
  <2>3. ASSUME NEW d \in CPU, t = thread[d]
        PROVE  ThreadSound(d, t)'
    <3>1. ThreadSound(d, t) /\ t \in Thread /\ t \in Single
      BY <1>1, <2>3, Threads, Constants
    <3>2. cpu[t] \in cpus_allowed[t]
      BY <3>1, <2>1, <1>1 DEF Placed, ThreadSound
    <3> QED BY <3>1, <3>2, <2>1, <1>1, <1>2 DEF ThreadSound, Caller, Looping
  <2> QED BY <1>1, <1>2, <2>1, <2>2, <2>3, OneSteps
<1>6. RequestNoticed'
  <2>1. ASSUME NEW d \in CPU PROVE Noticed(d)'
    <3>1. Noticed(d) /\ (t = thread[d] => at[t] \notin Looping) /\ at[t] # "wake"
      BY <1>1 DEF RequestNoticed, Noticed, Looping
    <3> QED BY <1>1, <1>2, <3>1, NoticedStays
  <2> QED BY <2>1 DEF RequestNoticed, Noticed
<1>7. Apart'
  BY <1>1 DEF Apart
<1> QED BY <1>3, <1>4, <1>5, <1>6, <1>7 DEF IInv

-----------------------------------------------------------------------------
(* The steps of the migration threads.                                     *)

LEMMA BootInvariant ==
    ASSUME IInv, NEW c \in CPU, NEW t \in Thread, Boot(c, t)
    PROVE  IInv'
<1>1. /\ TypeOK /\ QueueExact /\ RequestNoticed /\ Apart /\ Control /\ \A x \in Single : Placed(x)
      /\ at[t] = "boot" /\ t \in Task /\ t \notin User /\ Runs(t, c)
  BY Constants, MigrationAssumption DEF IInv, Boot, Task
<1>2. CASE t = thread[0]
  <2>1. /\ at' = [at EXCEPT ![t] = "bind"]
        /\ UNCHANGED <<lock, curr, need_resched, nr_running, array, cpu, cpus_allowed, migration_queue,
                       migration_thread, sem, state, req, rq, cpu_dest, balance>>
    BY <1>2 DEF Boot, queues, affinity, requests, locals
  <2>2. at'[t] = "bind" /\ \A u \in Task \ {t} : at'[u] = at[u]
    BY <1>1, <2>1 DEF TypeOK
  <2>3. TypeOK'
    BY <1>1, <2>1 DEF TypeOK
  <2>4. QueueExact'
    BY <1>1, <2>1, SameQueues
  <2>5. Control' /\ (\A x \in Single : Placed(x))'
    <3>1. ~Caller(t) /\ ~Caller(t)' /\ at'[t] \notin Working
      BY <1>1, <2>2 DEF Caller, Working
    <3>2. ASSUME NEW d \in CPU, t = thread[d]
          PROVE  ThreadSound(d, t)'
      <4>1. d = 0 /\ ThreadSound(d, t)
        BY <1>1, <1>2, <3>2, Constants, Threads
      <4> QED BY <4>1, <1>1, <2>1, <2>2 DEF ThreadSound, Caller, Looping
    <3> QED BY <1>1, <2>1, <2>2, <3>1, <3>2, OneSteps
  <2>6. ASSUME NEW d \in CPU PROVE Noticed(d)'
    <3>1. Noticed(d) /\ at[t] \notin Looping /\ at[t] # "wake"
      BY <1>1 DEF RequestNoticed, Noticed, Looping
    <3> QED BY <1>1, <2>1, <2>2, <3>1, NoticedStays
  <2>7. RequestNoticed' /\ Apart'
    BY <1>1, <2>1, <2>6 DEF RequestNoticed, Noticed, Apart
  <2> QED BY <2>3, <2>4, <2>5, <2>7 DEF IInv
<1>3. CASE t # thread[0]
  <2>1. PICK d \in CPU : thread[d] = t /\ set_cpus_allowed(c, t, t, {d}, "bind")
    BY <1>3 DEF Boot
  <2>2. ByThread(t, t, {d}, "bind")
    BY <1>1, <1>3, <2>1 DEF Boot, ByThread
  <2>3. {d} \in (SUBSET CPU) \ {{}}
    OBVIOUS
  <2> QED BY <1>1, <2>1, <2>2, <2>3, SetCpusAllowedInvariant
<1> QED BY <1>2, <1>3

LEMMA BindInvariant ==
    ASSUME IInv, NEW c \in CPU, NEW t \in Thread, Bind(c, t)
    PROVE  IInv'
<1>1. /\ TypeOK /\ QueueExact /\ RequestNoticed /\ Apart /\ Control /\ \A x \in Single : Placed(x)
      /\ at[t] = "bind" /\ t \in Task /\ t \notin User /\ Runs(t, c)
      /\ array' = [array EXCEPT ![t] = <<c, "rt_short">>]
      /\ migration_thread' = [migration_thread EXCEPT ![c] = t]
      /\ at' = [at EXCEPT ![t] = "top"]
      /\ UNCHANGED <<lock, nr_running, curr, need_resched, cpu, cpus_allowed, migration_queue, sem, state,
                     req, rq, cpu_dest, balance>>
  BY Constants, MigrationAssumption DEF IInv, Bind, affinity, locals, Task
<1>2. /\ cpu[t] = c /\ array[t] # NULL /\ array[t][1] = c
  BY <1>1, Running
<1>3. /\ Control' /\ (\A x \in Single : Placed(x))'
      /\ t = thread[c] /\ migration_thread[c] = NULL /\ migration_queue[c] = <<>>
  BY <1>1, <1>2, BindControl
<1>4. /\ at'[t] = "top" /\ \A u \in Task \ {t} : at'[u] = at[u]
      /\ migration_thread'[c] = t /\ \A d \in CPU \ {c} : migration_thread'[d] = migration_thread[d]
      /\ array'[t] = <<c, "rt_short">> /\ \A u \in Task \ {t} : array'[u] = array[u]
      /\ array' \in [Task -> (CPU \X {"active", "rt_short"}) \cup {NULL}]
      /\ migration_thread' \in [CPU -> Thread \cup {NULL}]
  BY <1>1 DEF TypeOK
<1>5. TypeOK'
  BY <1>1, <1>4 DEF TypeOK
<1>6. QueueExact'
  <2>1. \A d \in CPU : on_rq(now, d)' = on_rq(now, d)
    <3>1. \A d : \A u \in Task : array'[u] # NULL /\ array'[u][1] = d <=> array[u] # NULL /\ array[u][1] = d
      <4>1. <<c, "rt_short">> # NULL /\ <<c, "rt_short">>[1] = c
        BY Constants
      <4> QED BY <4>1, <1>2, <1>4
    <3> QED BY <3>1 DEF on_rq, now
  <2>2. (\A d \in CPU : nr_running[d] = Cardinality(on_rq(now, d)))'
    BY <1>1, <2>1 DEF QueueExact
  <2>3. home(t)' = "rt_short" /\ \A u \in Task \ {t} : home(u)' = home(u)
    <3>1. home(t)' = "rt_short"
      BY <1>4 DEF home
    <3>2. ASSUME NEW u \in Task \ {t}
          PROVE  home(u)' = home(u)
      <4>1. (\E d \in CPU : migration_thread'[d] = u) <=> \E d \in CPU : migration_thread[d] = u
        BY <1>3, <1>4, Constants
      <4> QED BY <4>1 DEF home
    <3> QED BY <3>1, <3>2
  <2>4. \A u \in Task : array'[u] # NULL => array'[u] = <<cpu'[u], home(u)'>>
    BY <1>1, <1>2, <1>4, <2>3 DEF QueueExact
  <2>5. \A d \in CPU : curr'[d] # Idle =>
        /\ cpu'[curr'[d]] = d
        /\ array'[curr'[d]] = NULL => balance'[d].by = "schedule" /\ balance'[d].at # "none"
    <3>1. \A u \in Task : array'[u] = NULL => array[u] = NULL
      <4>1. <<c, "rt_short">> # NULL
        BY Constants
      <4> QED BY <4>1, <1>4
    <3> QED BY <3>1, <1>1 DEF QueueExact, TypeOK
  <2> QED BY <2>2, <2>4, <2>5, Exact
<1>7. ASSUME NEW d \in CPU PROVE Noticed(d)'
  <2>1. CASE d = c
    BY <2>1, <1>1, <1>3 DEF Noticed
  <2>2. CASE d # c
    <3>1. Noticed(d) /\ at[t] \notin Looping /\ at[t] # "wake" /\ thread[d] # t /\ thread[d] \in Task
      BY <1>1, <1>3, <2>2, Constants DEF RequestNoticed, Noticed, Looping
    <3> QED BY <1>1, <1>4, <2>2, <3>1, NoticedStays
  <2> QED BY <2>1, <2>2
<1>8. RequestNoticed' /\ Apart'
  BY <1>1, <1>7 DEF RequestNoticed, Noticed, Apart
<1> QED BY <1>3, <1>5, <1>6, <1>8 DEF IInv

LEMMA TopInvariant ==
    ASSUME IInv, NEW c \in CPU, NEW t \in Thread, Top(c, t)
    PROVE  IInv'
<1>1. /\ TypeOK /\ QueueExact /\ RequestNoticed /\ Apart /\ Control /\ \A x \in Single : Placed(x)
      /\ at[t] = "top" /\ t \in Task /\ t \notin User /\ Runs(t, c)
      /\ state' = [state EXCEPT ![t] = "sleeping"]
      /\ UNCHANGED <<lock, curr, need_resched, nr_running, array, cpu, cpus_allowed, migration_thread,
                     sem, rq, cpu_dest, balance>>
  BY Constants, MigrationAssumption DEF IInv, Top, queues, affinity, Task
<1>2. /\ cpu[t] = c /\ t = thread[c] /\ migration_thread[c] = t /\ ~Caller(t)
      /\ \A d \in CPU : t = thread[d] => d = c
  BY <1>1, Running, Threaded DEF Looping
<1>3. QueueExact'
  BY <1>1, SameQueues
<1>4. Apart'
  BY <1>1 DEF Apart
<1>5. /\ state' \in [Task -> {"running", "sleeping"}] /\ \A u \in Task \ {t} : state'[u] = state[u]
  BY <1>1 DEF TypeOK
<1>6. CASE migration_queue[c] = <<>>
  <2>1. at' = [at EXCEPT ![t] = "sched"] /\ migration_queue' = migration_queue /\ req' = req
    BY <1>6 DEF Top
  <2>2. at'[t] = "sched" /\ \A u \in Task \ {t} : at'[u] = at[u]
    BY <1>1, <2>1 DEF TypeOK
  <2>3. TypeOK'
    BY <1>1, <1>5, <2>1 DEF TypeOK
  <2>4. Control' /\ (\A x \in Single : Placed(x))'
    <3>1. ~Caller(t)' /\ at'[t] \notin Working
      BY <2>2 DEF Caller, Working
    <3>2. ThreadSound(c, t)'
      <4>1. ThreadSound(c, t)
        BY <1>1, <1>2, Threads
      <4> QED BY <4>1, <1>1, <2>2 DEF ThreadSound, Caller, Looping
    <3> QED BY <1>1, <1>2, <2>1, <2>2, <3>1, <3>2, OneSteps
  <2>5. ASSUME NEW d \in CPU PROVE Noticed(d)'
    <3>1. CASE d = c
      BY <3>1, <1>6, <2>1 DEF Noticed
    <3>2. CASE d # c
      <4>1. Noticed(d) /\ t # thread[d] /\ at[t] # "wake" /\ thread[d] \in Task
        BY <1>1, <1>2, <3>2, Constants DEF RequestNoticed, Noticed
      <4> QED BY <1>1, <1>5, <2>1, <2>2, <4>1, NoticedStays
    <3> QED BY <3>1, <3>2
  <2>6. RequestNoticed'
    BY <2>5 DEF RequestNoticed, Noticed
  <2> QED BY <1>3, <1>4, <2>3, <2>4, <2>6 DEF IInv
<1>7. CASE migration_queue[c] # <<>>
  <2>1. /\ req' = [req EXCEPT ![t] = Head(migration_queue[c])]
        /\ migration_queue' = [migration_queue EXCEPT ![c] = Tail(@)]
        /\ at' = [at EXCEPT ![t] = "dest"]
    BY <1>7 DEF Top
  <2>2. at'[t] = "dest" /\ \A u \in Task \ {t} : at'[u] = at[u]
    BY <1>1, <2>1 DEF TypeOK
  <2>3. Control' /\ (\A x \in Single : Placed(x))'
    <3>1. PICK old \in Seq(Task) : old = migration_queue[c] /\ old # <<>>
      BY <1>1, <1>7 DEF TypeOK
    <3>2. PICK new \in Seq(Task) : new = Tail(old)
      BY <3>1, HeadTailProperties
    <3>3. /\ migration_queue'[c] = new
          /\ \A d \in CPU \ {c} : migration_queue'[d] = migration_queue[d]
      BY <1>1, <2>1, <3>1, <3>2 DEF TypeOK
    <3>4. Len(old) \in Nat /\ Len(old) # 0
      BY <3>1, LenProperties, EmptySeq
    <3>5. Len(new) = Len(old) - 1 /\ \A i \in 1 .. Len(new) : new[i] = old[i + 1]
      BY <3>1, <3>2, HeadTailProperties
    <3>6. /\ 1 \in 1 .. Len(old)
          /\ \A i \in 1 .. Len(new) : new[i] = old[i + 1] /\ i + 1 \in 1 .. Len(old) /\ i \in Nat
      BY <3>4, <3>5
    <3>7. req'[t] = old[1] /\ \A u \in Task \ {t} : req'[u] = req[u]
      <4>1. Head(old) = old[1] /\ req \in [Task -> Task]
        BY <1>1 DEF TypeOK
      <4> QED BY <4>1, <1>1, <2>1, <3>1
    <3> QED BY <1>1, <1>2, <2>2, <3>1, <3>3, <3>6, <3>7, TopControl
  <2>4. TypeOK'
    <3>1. migration_queue[c] \in Seq(Task) /\ migration_queue \in [CPU -> Seq(Task)]
      BY <1>1 DEF TypeOK
    <3>2. Head(migration_queue[c]) \in Task /\ Tail(migration_queue[c]) \in Seq(Task)
      BY <3>1, <1>7, HeadTailProperties
    <3>3. migration_queue' \in [CPU -> Seq(Task)] /\ req' \in [Task -> Task]
      BY <1>1, <2>1, <3>1, <3>2 DEF TypeOK
    <3> QED BY <1>1, <1>5, <2>1, <3>3 DEF TypeOK
  <2>5. ASSUME NEW d \in CPU PROVE Noticed(d)'
    <3>1. CASE d = c
      BY <3>1, <1>1, <1>2, <2>2 DEF Noticed
    <3>2. CASE d # c
      <4>1. Noticed(d) /\ t # thread[d] /\ at[t] # "wake" /\ thread[d] \in Task
        BY <1>1, <1>2, <3>2, Constants DEF RequestNoticed, Noticed
      <4>2. migration_queue'[d] = migration_queue[d]
        BY <1>1, <2>1, <3>2 DEF TypeOK
      <4> QED BY <1>1, <1>5, <2>2, <4>1, <4>2, NoticedStays
    <3> QED BY <3>1, <3>2
  <2>6. RequestNoticed'
    BY <2>5 DEF RequestNoticed, Noticed
  <2> QED BY <1>3, <1>4, <2>3, <2>4, <2>6 DEF IInv
<1> QED BY <1>6, <1>7

LEMMA ThreadSleepsInvariant ==
    ASSUME IInv, NEW c \in CPU, NEW t \in Thread, ThreadSleeps(c, t)
    PROVE  IInv'
<1> DEFINE sleeps == state[t] = "sleeping"
<1>1. /\ TypeOK /\ QueueExact /\ RequestNoticed /\ Apart /\ Control /\ \A x \in Single : Placed(x)
      /\ at[t] = "sched" /\ t \in Task /\ t \notin User /\ Runs(t, c) /\ curr[c] = t
      /\ balance[c].at = "none" /\ schedule(c, sleeps) /\ sleeps \in BOOLEAN
      /\ at' = [at EXCEPT ![t] = "top"]
      /\ UNCHANGED <<cpu, cpus_allowed, migration_queue, migration_thread, sem, state, req, rq, cpu_dest>>
  BY Constants, MigrationAssumption DEF IInv, ThreadSleeps, affinity, requests, locals, Task, Runs
<1> HIDE DEF sleeps
<1>2. /\ cpu[t] = c /\ array[t] # NULL /\ t = thread[c] /\ migration_thread[c] = t /\ ~Caller(t)
      /\ \A d \in CPU : t = thread[d] => d = c
  BY <1>1, Running, Threaded DEF Looping
<1>3. /\ QueueExact' /\ Apart'
      /\ nr_running' \in [CPU -> 0 .. Cardinality(Task)]
      /\ array' \in [Task -> (CPU \X {"active", "rt_short"}) \cup {NULL}]
      /\ curr' \in [CPU -> Task \cup {Idle}] /\ need_resched' \in [CPU -> BOOLEAN]
      /\ lock' \in [CPU -> CPU \cup {NULL}] /\ balance' \in [CPU -> Balance]
      /\ \A u \in Task : array'[u] = IF sleeps /\ u = curr[c] THEN NULL ELSE array[u]
  BY <1>1, Schedule
<1>4. at'[t] = "top" /\ \A u \in Task \ {t} : at'[u] = at[u]
  BY <1>1 DEF TypeOK
<1>5. TypeOK'
  BY <1>1, <1>3 DEF TypeOK
<1>6. Control' /\ (\A x \in Single : Placed(x))'
  <2>1. ~Caller(t)' /\ at'[t] \notin Working
    BY <1>4 DEF Caller, Working
  <2>2. ThreadSound(c, t)'
    <3>1. ThreadSound(c, t)
      BY <1>1, <1>2, Threads
    <3> QED BY <3>1, <1>1, <1>4 DEF ThreadSound, Caller, Looping
  <2> QED BY <1>1, <1>2, <1>4, <2>1, <2>2, OneSteps
<1>7. ASSUME NEW d \in CPU PROVE Noticed(d)'
  <2>1. CASE d = c
    <3>1. Noticed(c)
      BY <1>1 DEF RequestNoticed, Noticed
    <3>2. CASE state[t] = "running"
      <4>1. array'[t] # NULL
        BY <3>2, <1>1, <1>2, <1>3 DEF sleeps
      <4> QED BY <2>1, <4>1, <1>1, <1>2, <1>4 DEF Noticed
    <3>3. CASE \E u \in Task : at[u] = "wake" /\ rq[u] = c
      <4>1. \E u \in Task : at'[u] = "wake" /\ rq'[u] = c
        BY <3>3, <1>1, <1>4
      <4> QED BY <4>1, <2>1 DEF Noticed
    <3> QED BY <2>1, <3>1, <3>2, <3>3, <1>1, <1>2 DEF Noticed
  <2>2. CASE d # c
    <3>1. Noticed(d) /\ t # thread[d] /\ at[t] # "wake" /\ thread[d] \in Task
      BY <1>1, <1>2, <2>2, Constants DEF RequestNoticed, Noticed
    <3>2. array'[thread[d]] = array[thread[d]]
      BY <3>1, <1>1, <1>3
    <3> QED BY <1>1, <1>4, <3>1, <3>2, NoticedStays
  <2> QED BY <2>1, <2>2
<1>8. RequestNoticed'
  BY <1>7 DEF RequestNoticed, Noticed
<1> QED BY <1>3, <1>5, <1>6, <1>8 DEF IInv

\* A migration thread goes on with the request it works on: the place where it
\* reads the CPU to move to, where it is to look and where it answers.
LEMMA WorkControl ==
    ASSUME TypeOK, Control, \A x \in Single : Placed(x), NEW c \in CPU, NEW t \in Thread,
           at[t] \in Working, cpu[t] = c, NEW a \in Working, at' = [at EXCEPT ![t] = a],
           UNCHANGED <<cpus_allowed, migration_queue, migration_thread, sem, req>>,
           \A u \in Task \ {t} : rq'[u] = rq[u] /\ cpu_dest'[u] = cpu_dest[u],
           \A x \in Task : cpu'[x] = cpu[x] \/ (x \in Single => cpu'[x] \in cpus_allowed[x]),
           target(t) \in Single =>
             /\ a \in {"src", "first", "second"} => cpu_dest'[t] \in cpus_allowed[target(t)]
             /\ a = "up" => cpu'[target(t)] \in cpus_allowed[target(t)]
    PROVE  Control' /\ (\A x \in Single : Placed(x))'
<1>1. /\ t = thread[c] /\ t \in Task /\ t \notin User /\ ~Caller(t) /\ at[t] \in Looping
      /\ \A d \in CPU : t = thread[d] => d = c
  BY Threaded DEF Looping, Working
<1>2. at'[t] = a /\ \A u \in Task \ {t} : at'[u] = at[u]
  BY <1>1 DEF TypeOK
<1>3. ~Caller(t)'
  BY <1>2 DEF Caller, Working
<1>4. \A x \in Single : cpu'[x] = cpu[x] \/ cpu'[x] \in cpus_allowed[x]
  BY Threads
<1>5. ThreadSound(c, t)'
  <2>1. ThreadSound(c, t) /\ (cpu'[t] = cpu[t] \/ cpu'[t] \in cpus_allowed[t])
    BY <1>1, <1>4, Threads
  <2> QED BY <2>1, <1>1, <1>2 DEF ThreadSound, Caller, Looping, Working
<1> QED BY <1>1, <1>2, <1>3, <1>4, <1>5, OneSteps

\* It is awake as long as it works.
LEMMA WorkNoticed ==
    ASSUME TypeOK, Control, RequestNoticed, NEW c \in CPU, NEW t \in Thread,
           at[t] \in Looping, cpu[t] = c, at' = [at EXCEPT ![t] = at'[t]],
           at'[t] \in Working \/ (at'[t] = "top" /\ array'[t] # NULL),
           UNCHANGED <<migration_queue, migration_thread>>,
           \A u \in Task \ {t} : rq'[u] = rq[u],
           \A u \in Task : array[u] # NULL => array'[u] # NULL,
           \A u \in Task : state[u] = "running" => state'[u] = "running"
    PROVE  RequestNoticed'
<1>1. /\ t = thread[c] /\ t \in Task /\ migration_thread[c] = t /\ at[t] # "wake"
      /\ \A d \in CPU : t = thread[d] => d = c
  BY Threaded DEF Looping
<1>2. \A u \in Task \ {t} : at'[u] = at[u]
  BY DEF TypeOK
<1>3. ASSUME NEW d \in CPU PROVE Noticed(d)'
  <2>1. CASE d = c
    <3>1. migration_thread'[d] = t
      BY <2>1, <1>1
    <3> QED BY <3>1 DEF Noticed, Working
  <2>2. CASE d # c
    <3>1. Noticed(d) /\ t # thread[d] /\ thread[d] \in Task
      BY <1>1, <2>2, Constants DEF RequestNoticed, Noticed
    <3> QED BY <1>1, <1>2, <3>1, NoticedStays
  <2> QED BY <2>1, <2>2
<1> QED BY <1>3 DEF RequestNoticed, Noticed

LEMMA ReadInvariant ==
    ASSUME IInv, NEW c \in CPU, NEW t \in Thread, ReadDest(c, t) \/ ReadSrc(c, t)
    PROVE  IInv'
<1>1. /\ TypeOK /\ QueueExact /\ RequestNoticed /\ Apart /\ Control /\ \A x \in Single : Placed(x)
      /\ at[t] \in Working /\ at[t] \in Looping /\ t \in Task /\ Runs(t, c)
      /\ UNCHANGED <<lock, curr, need_resched, nr_running, array, cpu, cpus_allowed, migration_queue,
                     migration_thread, sem, state, req, balance>>
  BY DEF IInv, ReadDest, ReadSrc, queues, affinity, requests, Working, Looping, Task
<1>2. cpu[t] = c /\ t = thread[c]
  BY <1>1, Running, Threaded
<1>3. target(t) \in Task /\ cpu[target(t)] \in CPU /\ cpus_allowed[target(t)] \in SUBSET CPU
      /\ cpus_allowed[target(t)] # {}
  <2>1. target(t) \in Task
    BY <1>1, <1>2, Worked
  <2> QED BY <2>1, <1>1 DEF TypeOK
<1>4. ffs(cpus_allowed[target(t)]) \in cpus_allowed[target(t)]
  BY <1>3, First
<1>5. PICK a \in {"src", "first"} :
        /\ at' = [at EXCEPT ![t] = a]
        /\ rq' \in [Task -> CPU] /\ cpu_dest' \in [Task -> CPU]
        /\ \A u \in Task \ {t} : rq'[u] = rq[u] /\ cpu_dest'[u] = cpu_dest[u]
        /\ \/ cpu_dest'[t] \in cpus_allowed[target(t)]
           \/ at[t] = "src" /\ cpu_dest'[t] = cpu_dest[t]
  <2>1. CASE ReadDest(c, t)
    <3>1. cpu_dest' = [cpu_dest EXCEPT ![t] = ffs(cpus_allowed[target(t)])]
          /\ at' = [at EXCEPT ![t] = "src"] /\ rq' = rq
      BY <2>1 DEF ReadDest
    <3> QED BY <3>1, <1>1, <1>3, <1>4 DEF TypeOK
  <2>2. CASE ReadSrc(c, t)
    <3>1. rq' = [rq EXCEPT ![t] = cpu[target(t)]] /\ at[t] = "src"
          /\ at' = [at EXCEPT ![t] = "first"] /\ cpu_dest' = cpu_dest
      BY <2>2 DEF ReadSrc
    <3> QED BY <3>1, <1>1, <1>3 DEF TypeOK
  <2> QED BY <2>1, <2>2
<1>6. a \in Working /\ at'[t] = a
  BY <1>1, <1>5 DEF Working, TypeOK
<1>7. TypeOK'
  BY <1>1, <1>5 DEF TypeOK
<1>8. QueueExact'
  BY <1>1, SameQueues
<1>9. Control' /\ (\A x \in Single : Placed(x))'
  <2>1. target(t) \in Single => cpu_dest'[t] \in cpus_allowed[target(t)]
    BY <1>1, <1>2, <1>5 DEF Placed
  <2>2. a # "up"
    OBVIOUS
  <2> QED BY <1>1, <1>2, <1>5, <1>6, <2>1, <2>2, WorkControl
<1>10. RequestNoticed'
  BY <1>1, <1>2, <1>5, <1>6, WorkNoticed
<1>11. Apart'
  BY <1>1 DEF Apart
<1> QED BY <1>7, <1>8, <1>9, <1>10, <1>11 DEF IInv

\* What a migration thread does with both locks.
LEMMA MigrateInvariant ==
    ASSUME IInv, NEW c \in CPU, NEW t \in Thread, Runs(t, c), at[t] \in {"first", "second"},
           migrate(c, t), lock' \in [CPU -> CPU \cup {NULL}],
           UNCHANGED <<curr, need_resched, cpus_allowed, requests, state, locals, balance>>
    PROVE  IInv'
<1> DEFINE p == target(t)
           src == rq[t]
           dest == cpu_dest[t]
<1>1. /\ TypeOK /\ QueueExact /\ RequestNoticed /\ Apart /\ Control /\ \A x \in Single : Placed(x)
      /\ at[t] \in Working /\ at[t] \in Looping /\ t \in Task
      /\ UNCHANGED <<curr, need_resched, cpus_allowed, migration_queue, migration_thread, sem, state,
                     req, rq, cpu_dest, balance>>
  BY DEF IInv, requests, locals, Working, Looping, Task
<1>2. cpu[t] = c /\ t = thread[c] /\ curr[c] = t
  <2>1. cpu[t] = c /\ curr[c] = t
    BY <1>1, Running
  <2> QED BY <2>1, <1>1, Threaded
<1>3. /\ p \in Task /\ src \in CPU /\ dest \in CPU /\ p = req[req[t]]
      /\ req[t] \in Task /\ Caller(req[t]) /\ rq[req[t]] = c /\ req[t] # t
  <2>1. req[t] \in Task /\ Caller(req[t]) /\ rq[req[t]] = c /\ req[t] # t /\ p \in Task
    BY <1>1, <1>2, Worked
  <2>2. src \in CPU /\ dest \in CPU
    BY <1>1 DEF TypeOK
  <2>3. p = req[req[t]]
    BY DEF target
  <2> QED BY <2>1, <2>2, <2>3
<1>4. p # t
  <2>1. CASE req[t] \in User
    <3>1. <<req[t], p>> \in Calls
      BY <2>1, <1>1, <1>3, Threads DEF UserSound
    <3> QED BY <3>1, MigrationAssumption
  <2>2. CASE req[t] \in Thread
    <3>1. PICK d \in CPU : req[t] = thread[d]
      BY <2>2, Constants
    <3>2. p = req[t]
      BY <3>1, <1>1, <1>3, Threads DEF ThreadSound
    <3> QED BY <3>2, <1>3
  <2> QED BY <2>1, <2>2, <1>3, Constants
<1>5. p \in Single => /\ dest \in cpus_allowed[p]
                      /\ cpu[p] = c \/ cpu[p] \in cpus_allowed[p]
  BY <1>1, <1>2, <1>3 DEF Placed
<1>6. \/ /\ cpu[p] # src /\ at' = [at EXCEPT ![t] = "src"]
         /\ nr_running' = nr_running /\ array' = array /\ cpu' = cpu
      \/ /\ cpu[p] = src /\ at' = [at EXCEPT ![t] = "up"] /\ src # c
         /\ nr_running' = nr_running /\ array' = array /\ cpu' = cpu
      \/ /\ cpu[p] = src /\ at' = [at EXCEPT ![t] = "up"] /\ src = c
         /\ cpu' = [cpu EXCEPT ![p] = dest]
         /\ set_queues(IF array[p] = NULL THEN now ELSE move(p, src, dest))
  BY DEF migrate, elsewhere, queues, set_queues, now
<1> HIDE DEF p, src, dest
<1>7. /\ nr_running' \in [CPU -> 0 .. Cardinality(Task)]
      /\ array' \in [Task -> (CPU \X {"active", "rt_short"}) \cup {NULL}]
      /\ cpu' \in [Task -> CPU] /\ QueueExact'
      /\ \A u \in Task : array[u] # NULL => array'[u] # NULL
  <2>1. CASE nr_running' = nr_running /\ array' = array /\ cpu' = cpu
    BY <2>1, <1>1, SameQueues DEF TypeOK
  <2>2. CASE /\ cpu[p] = src /\ src = c /\ cpu' = [cpu EXCEPT ![p] = dest]
             /\ set_queues(IF array[p] = NULL THEN now ELSE move(p, src, dest))
    <3>1. /\ cpu' \in [Task -> CPU] /\ cpu'[p] = dest /\ \A u \in Task \ {p} : cpu'[u] = cpu[u]
      BY <2>2, <1>1, <1>3 DEF TypeOK
    <3>2. \A d \in CPU : curr[d] # Idle => curr[d] \in Task /\ curr[d] # p
      BY <2>2, <1>1, <1>2, <1>4 DEF QueueExact, TypeOK
    <3>3. CASE array[p] = NULL
      <4>1. nr_running' = nr_running /\ array' = array
        BY <2>2, <3>3 DEF set_queues, now
      <4> QED BY <3>1, <3>2, <3>3, <4>1, <1>1, SameQueues DEF TypeOK
    <3>4. CASE array[p] # NULL
      <4> DEFINE off == deactivate_task(now, p, src)
                 q   == activate_task(off, p, dest)
      <4>1. set_queues(q)
        BY <2>2, <3>4 DEF move
      <4>2. now \in Queues /\ Counted(now) /\ now.array = array /\ array[p][1] = src
        BY <1>1, <1>3, <2>2, <3>4, Now
      <4>3. off \in Queues /\ Counted(off) /\ \A u \in Task : off.array[u] = IF u = p THEN NULL ELSE array[u]
        BY <1>3, <3>4, <4>2, Deactivate
      <4> HIDE DEF off
      <4>4. q \in Queues /\ Counted(q)
            /\ \A u \in Task : q.array[u] = IF u = p THEN <<dest, home(p)>> ELSE off.array[u]
        BY <1>3, <4>3, Activate
      <4> HIDE DEF q
      <4>5. /\ nr_running' \in [CPU -> 0 .. Cardinality(Task)]
            /\ array' \in [Task -> (CPU \X {"active", "rt_short"}) \cup {NULL}]
            /\ (\A d \in CPU : nr_running[d] = Cardinality(on_rq(now, d)))'
            /\ array' = q.array
        BY <4>1, <4>4, SetQueues
      <4>6. \A u \in Task : array'[u] = IF u = p THEN <<dest, home(p)>> ELSE array[u]
        BY <4>3, <4>4, <4>5
      <4>7. <<dest, home(p)>> # NULL
        BY <1>3, Constants DEF home
      <4>8. \A u \in Task : array'[u] # NULL => array'[u] = <<cpu'[u], home(u)'>>
        BY <4>6, <3>1, <1>1, HomeKept DEF QueueExact
      <4>9. \A d \in CPU : curr'[d] # Idle =>
              /\ cpu'[curr'[d]] = d
              /\ array'[curr'[d]] = NULL => balance'[d].by = "schedule" /\ balance'[d].at # "none"
        BY <3>1, <3>2, <4>6, <1>1 DEF QueueExact
      <4>10. QueueExact'
        BY <4>5, <4>8, <4>9, Exact
      <4> QED BY <3>1, <4>5, <4>6, <4>7, <4>10
    <3> QED BY <3>3, <3>4
  <2> QED BY <1>6, <2>1, <2>2
<1>8. PICK a \in {"src", "up"} :
        /\ at' = [at EXCEPT ![t] = a]
        /\ \A x \in Task : cpu'[x] = cpu[x] \/ (x \in Single => cpu'[x] \in cpus_allowed[x])
        /\ p \in Single => /\ dest \in cpus_allowed[p]
                           /\ a = "up" => cpu'[p] \in cpus_allowed[p]
  <2>1. CASE cpu[p] # src /\ at' = [at EXCEPT ![t] = "src"] /\ cpu' = cpu
    BY <2>1, <1>5
  <2>2. CASE cpu[p] = src /\ at' = [at EXCEPT ![t] = "up"] /\ src # c /\ cpu' = cpu
    BY <2>2, <1>5
  <2>3. CASE cpu[p] = src /\ at' = [at EXCEPT ![t] = "up"] /\ cpu' = [cpu EXCEPT ![p] = dest]
    <3>1. cpu'[p] = dest /\ \A u \in Task \ {p} : cpu'[u] = cpu[u]
      BY <2>3, <1>1, <1>3 DEF TypeOK
    <3> QED BY <2>3, <3>1, <1>5
  <2> QED BY <1>6, <2>1, <2>2, <2>3
<1>9. a \in Working /\ at'[t] = a
  BY <1>1, <1>8 DEF Working, TypeOK
<1>10. TypeOK'
  BY <1>1, <1>7, <1>8 DEF TypeOK
<1>11. Control' /\ (\A x \in Single : Placed(x))'
  <2>1. target(t) \in Single =>
             /\ a \in {"src", "first", "second"} => cpu_dest'[t] \in cpus_allowed[target(t)]
             /\ a = "up" => cpu'[target(t)] \in cpus_allowed[target(t)]
    BY <1>1, <1>8 DEF p, dest
  <2> QED BY <1>1, <1>2, <1>8, <1>9, <2>1, WorkControl
<1>12. RequestNoticed'
  BY <1>1, <1>2, <1>7, <1>8, <1>9, WorkNoticed
<1>13. Apart'
  BY <1>1 DEF Apart
<1> QED BY <1>7, <1>10, <1>11, <1>12, <1>13 DEF IInv

LEMMA LockInvariant ==
    ASSUME IInv, NEW c \in CPU, NEW t \in Thread, LockFirst(c, t) \/ LockSecond(c, t)
    PROVE  IInv'
<1>1. /\ TypeOK /\ QueueExact /\ RequestNoticed /\ Apart /\ Control /\ \A x \in Single : Placed(x)
      /\ at[t] \in {"first", "second"} /\ at[t] \in Working /\ at[t] \in Looping /\ t \in Task /\ Runs(t, c)
      /\ lock \in [CPU -> CPU \cup {NULL}]
      /\ UNCHANGED <<curr, need_resched, cpus_allowed, requests, state, locals, balance>>
  BY DEF IInv, LockFirst, LockSecond, Working, Looping, Task, TypeOK
<1>2. CASE migrate(c, t)
  <2>1. lock' \in [CPU -> CPU \cup {NULL}]
    BY <1>1, Constants DEF LockFirst, LockSecond
  <2> QED BY <1>1, <1>2, <2>1, MigrateInvariant
<1>3. CASE ~migrate(c, t)
  <2>1. /\ at[t] = "first" /\ at' = [at EXCEPT ![t] = "second"]
        /\ lock' = [lock EXCEPT ![Lower(rq[t], cpu_dest[t])] = c]
        /\ UNCHANGED <<nr_running, array, cpu, migration_queue, migration_thread, sem, req, rq, cpu_dest>>
    BY <1>1, <1>3 DEF LockFirst, LockSecond, queues, requests, locals
  <2>2. cpu[t] = c /\ t = thread[c] /\ at'[t] = "second" /\ "second" \in Working
    <3>1. cpu[t] = c /\ t = thread[c]
      BY <1>1, Running, Threaded
    <3>2. at'[t] = "second"
      BY <1>1, <2>1 DEF TypeOK
    <3> QED BY <3>1, <3>2 DEF Working
  <2>3. TypeOK'
    <3>1. lock' \in [CPU -> CPU \cup {NULL}]
      BY <1>1, <2>1
    <3>2. /\ TypeOK /\ at' = [at EXCEPT ![t] = "second"]
          /\ UNCHANGED <<nr_running, curr, need_resched, migration_queue, migration_thread, array, cpu,
                         cpus_allowed, state, req, rq, cpu_dest, sem, balance>>
      BY <1>1, <2>1
    <3> QED BY <3>1, <3>2 DEF TypeOK
  <2>4. QueueExact'
    BY <1>1, <2>1, SameQueues
  <2>5. Control' /\ (\A x \in Single : Placed(x))'
    <3>1. target(t) \in Single => cpu_dest[t] \in cpus_allowed[target(t)]
      BY <1>1, <2>1, <2>2 DEF Placed
    <3> QED BY <1>1, <2>1, <2>2, <3>1, WorkControl
  <2>6. RequestNoticed'
    BY <1>1, <2>1, <2>2, WorkNoticed
  <2>7. Apart'
    BY <1>1 DEF Apart
  <2> QED BY <2>3, <2>4, <2>5, <2>6, <2>7 DEF IInv
<1> QED BY <1>2, <1>3

LEMMA UpInvariant ==
    ASSUME IInv, NEW c \in CPU, NEW t \in Thread, Up(c, t)
    PROVE  IInv'
<1>1. /\ TypeOK /\ QueueExact /\ RequestNoticed /\ Apart /\ Control /\ \A x \in Single : Placed(x)
      /\ at[t] = "up" /\ at[t] \in Looping /\ t \in Task /\ Runs(t, c) /\ req[t] \in Task
      /\ sem' = [sem EXCEPT ![req[t]] = 1]
      /\ at' = [at EXCEPT ![t] = "top"] /\ forget(t)
      /\ UNCHANGED <<lock, curr, cpu, cpus_allowed, migration_queue, migration_thread, balance>>
  BY DEF IInv, Up, affinity, Looping, Task, TypeOK
<1>2. cpu[t] = c /\ t = thread[c] /\ array[t] # NULL
  BY <1>1, Running, Threaded
<1>3. /\ QueueExact'
      /\ nr_running' \in [CPU -> 0 .. Cardinality(Task)]
      /\ array' \in [Task -> (CPU \X {"active", "rt_short"}) \cup {NULL}]
      /\ need_resched' \in [CPU -> BOOLEAN]
      /\ state' \in [Task -> {"running", "sleeping"}]
      /\ \A u \in Task : array[u] # NULL => array'[u] # NULL
      /\ \A u \in Task : state[u] = "running" => state'[u] = "running"
  <2>1. CASE try_to_wake_up(req[t])
    <3>1. /\ QueueExact'
          /\ nr_running' \in [CPU -> 0 .. Cardinality(Task)]
          /\ array' \in [Task -> (CPU \X {"active", "rt_short"}) \cup {NULL}]
          /\ need_resched' \in [CPU -> BOOLEAN]
          /\ state' \in [Task -> {"running", "sleeping"}]
          /\ array'[req[t]] # NULL /\ state'[req[t]] = "running"
          /\ \A u \in Task \ {req[t]} : array'[u] = array[u] /\ state'[u] = state[u]
      BY <1>1, <2>1, WakeUp
    <3> QED BY <3>1
  <2>2. CASE UNCHANGED <<queues, need_resched, state>>
    <3>1. nr_running' = nr_running /\ array' = array /\ need_resched' = need_resched /\ state' = state
      BY <2>2 DEF queues
    <3>2. QueueExact'
      BY <1>1, <3>1, SameQueues
    <3> QED BY <1>1, <3>1, <3>2 DEF TypeOK
  <2> QED BY <2>1, <2>2 DEF Up
<1>4. /\ at'[t] = "top" /\ at' = [at EXCEPT ![t] = at'[t]]
      /\ \A u \in Task \ {t} : rq'[u] = rq[u]
      /\ req' \in [Task -> Task] /\ rq' \in [Task -> CPU] /\ cpu_dest' \in [Task -> CPU]
      /\ sem' \in [Task -> {0, 1}]
  BY <1>1, Constants DEF TypeOK, forget
<1>5. TypeOK'
  BY <1>1, <1>3, <1>4 DEF TypeOK
<1>6. Control' /\ (\A x \in Single : Placed(x))'
  BY <1>1, <1>2, UpControl
<1>7. RequestNoticed'
  BY <1>1, <1>2, <1>3, <1>4, WorkNoticed
<1>8. Apart'
  BY <1>1 DEF Apart
<1> QED BY <1>3, <1>5, <1>6, <1>7, <1>8 DEF IInv

-----------------------------------------------------------------------------
(* The results.                                                            *)

\* Every migration thread starts on the runqueue of CPU 0.
LEMMA InitQueues == ASSUME Init PROVE QueueExact
<1>1. /\ \A t \in Task : array[t] = IF t \in Thread THEN <<0, "active">> ELSE NULL
      /\ \A c \in CPU : nr_running[c] = IF c = 0 THEN N ELSE 0
      /\ \A c \in CPU : curr[c] = Idle /\ migration_thread[c] = NULL
      /\ \A t \in Task : cpu[t] = 0
  BY DEF Init
<1>2. /\ <<0, "active">> # NULL /\ <<0, "active">>[1] = 0 /\ Thread \subseteq Task
  BY Constants DEF Task
<1>3. Cardinality(Thread) = N
  <2>1. Cardinality(CPU) = N /\ IsFiniteSet(CPU)
    BY MigrationAssumption, FS_Interval DEF CPU
  <2>2. thread \in Surjection(CPU, Thread)
    <3>1. thread \in [CPU -> Thread] /\ \A t \in Thread : \E c \in CPU : thread[c] = t
      BY MigrationAssumption DEF Thread
    <3> QED BY <3>1 DEF Surjection
  <2>3. thread \in Injection(CPU, Thread)
    <3>1. thread \in [CPU -> Thread] /\ \A c, d \in CPU : thread[c] = thread[d] => c = d
      BY MigrationAssumption
    <3> QED BY <3>1 DEF Injection, IsInjective
  <2> QED BY <2>1, <2>2, <2>3, FS_Surjection
<1>4. ASSUME NEW c \in CPU
      PROVE  nr_running[c] = Cardinality(on_rq(now, c))
  <2>1. CASE c = 0
    <3>1. on_rq(now, c) = Thread
      BY <1>1, <1>2, <2>1 DEF on_rq, now
    <3> QED BY <3>1, <2>1, <1>1, <1>3
  <2>2. CASE c # 0
    <3>1. on_rq(now, c) = {}
      BY <1>1, <1>2, <2>2 DEF on_rq, now
    <3> QED BY <3>1, <2>2, <1>1, FS_EmptySet
  <2> QED BY <2>1, <2>2
<1>5. ASSUME NEW t \in Task, array[t] # NULL
      PROVE  array[t] = <<cpu[t], home(t)>>
  <2>1. t \in Thread /\ array[t] = <<0, "active">> /\ cpu[t] = 0
    BY <1>1, <1>5
  <2>2. home(t) = "active"
    <3>1. t \notin Short /\ t # NULL
      BY <2>1, MigrationAssumption, Constants
    <3> QED BY <3>1, <1>1 DEF home
  <2> QED BY <2>1, <2>2
<1> QED BY <1>1, <1>4, <1>5 DEF QueueExact

LEMMA InitInvariant == Init => IInv
<1> SUFFICES ASSUME Init PROVE IInv
  OBVIOUS
<1>1. TypeOK
  <2>1. /\ NoBalance \in Balance /\ <<>> \in Seq(Task) /\ Cardinality(Task) \in Nat /\ 0 \in CPU
        /\ {0} \in (SUBSET CPU) \ {{}} /\ CPU \in (SUBSET CPU) \ {{}}
        /\ <<0, "active">> \in CPU \X {"active", "rt_short"}
    BY Constants, FS_CardinalityType DEF NoBalance, Balance
  <2>2. N \in 0 .. Cardinality(Task) /\ 0 \in 0 .. Cardinality(Task)
    <3>1. nr_running[0] = N /\ nr_running[0] = Cardinality(on_rq(now, 0))
      BY <2>1, InitQueues DEF Init, QueueExact
    <3> QED BY <3>1, <2>1, OnRq
  <2>3. nr_running \in [CPU -> 0 .. Cardinality(Task)]
    BY <2>2 DEF Init
  <2>4. array \in [Task -> (CPU \X {"active", "rt_short"}) \cup {NULL}]
    BY <2>1 DEF Init
  <2> QED BY <2>1, <2>3, <2>4 DEF Init, TypeOK
<1>2. QueueExact
  BY InitQueues
<1>3. \A c \in CPU : migration_queue[c] = <<>> /\ migration_thread[c] = NULL /\ balance[c].at = "none"
  BY DEF Init, NoBalance
<1>4. \A t \in Task : /\ at[t] = IF t \in Thread THEN "boot" ELSE "user"
                      /\ cpu[t] = 0 /\ cpus_allowed[t] = IF t \in Thread THEN {0} ELSE CPU
  BY DEF Init
<1>5. RequestNoticed /\ Apart
  BY <1>3 DEF RequestNoticed, Apart
<1>6. Control
  <2>1. ASSUME NEW c \in CPU
        PROVE  ThreadSound(c, thread[c]) /\ Queued(c) /\ Served(c)
    <3>1. thread[c] \in Task /\ at[thread[c]] = "boot" /\ cpu[thread[c]] = 0
          /\ cpus_allowed[thread[c]] = {0} /\ thread[c] # NULL
      BY <1>4, Constants
    <3>2. Len(migration_queue[c]) = 0
      BY <1>3, EmptySeq
    <3> QED BY <3>1, <3>2, <1>3 DEF ThreadSound, Queued, Served, Looping, Working, Caller
  <2>2. \A u \in User : UserSound(u)
    BY <1>4, MigrationAssumption DEF UserSound, Caller, Task
  <2>3. \A u \in Task : Heard(u)
    BY <1>4 DEF Heard, Caller
  <2> QED BY <2>1, <2>2, <2>3 DEF Control
<1>7. ASSUME NEW p \in Single
      PROVE  Placed(p)
  <2>1. p \in Task
    BY DEF Single
  <2>2. cpu[p] \in cpus_allowed[p]
    BY <2>1, <1>4, Constants
  <2>3. \A u \in Task : ~Caller(u)
    BY <1>4 DEF Caller
  <2>4. \A c \in CPU : at[thread[c]] \notin Working
    BY <1>4, Constants DEF Working
  <2> QED BY <2>2, <2>3, <2>4 DEF Placed
<1> QED BY <1>1, <1>2, <1>5, <1>6, <1>7 DEF IInv

LEMMA StepInvariant == IInv /\ [Next]_vars => IInv'
<1> SUFFICES ASSUME IInv, [Next]_vars PROVE IInv'
  OBVIOUS
<1>1. CASE UNCHANGED vars
  <2>1. TypeOK' /\ QueueExact' /\ RequestNoticed' /\ Apart'
    BY <1>1 DEF IInv, vars, TypeOK, QueueExact, on_rq, now, home, RequestNoticed, Apart
  <2>2. Control' /\ (\A p \in Single : Placed(p))'
    BY <1>1, Moves DEF IInv, vars
  <2> QED BY <2>1, <2>2 DEF IInv
<1>2. ASSUME NEW c \in CPU, Preempt(c) \/ Tick(c) \/ Balancing(c)
      PROVE  IInv'
  BY <1>2, PreemptInvariant, TickInvariant, BalancingInvariant
<1>3. ASSUME NEW p \in User, Wake(p)
      PROVE  IInv'
  BY <1>3, WakeInvariant
<1>4. ASSUME NEW c \in CPU, NEW t \in User, Sleep(c, t)
      PROVE  IInv'
  <2>1. t \in Task
    BY DEF Task
  <2> QED BY <1>4, <2>1, SleepsInvariant DEF Sleep, affinity, requests, locals
<1>5. ASSUME NEW c \in CPU, NEW t \in Task, CallStep(c, t)
      PROVE  IInv'
  <2>1. CASE DownSleeps(c, t)
    BY <2>1, SleepsInvariant DEF DownSleeps, affinity, requests, locals
  <2> QED BY <1>5, <2>1, WakeSyncEndsInvariant, WakeThreadInvariant, DownInvariant DEF CallStep
<1>6. ASSUME NEW c \in CPU, NEW t \in User, NEW p \in User, WakeSync(c, t, p)
      PROVE  IInv'
  BY <1>6, WakeSyncInvariant
<1>7. ASSUME NEW c \in CPU, NEW t \in User, NEW p \in User, NEW mask \in (SUBSET CPU) \ {{}},
             SetCpusAllowed(c, t, p, mask)
      PROVE  IInv'
  <2>1. /\ t \in Task /\ p \in Task /\ Runs(t, c) /\ ByUser(t, p, "user")
        /\ set_cpus_allowed(c, t, p, mask, "user")
    BY <1>7 DEF SetCpusAllowed, ByUser, Booted, Task
  <2> QED BY <2>1, SetCpusAllowedInvariant
<1>8. ASSUME NEW c \in CPU, NEW t \in Thread, ThreadStep(c, t)
      PROVE  IInv'
  BY <1>8, BootInvariant, BindInvariant, TopInvariant, ThreadSleepsInvariant, ReadInvariant,
     LockInvariant, UpInvariant DEF ThreadStep
<1>9. User \subseteq Task /\ Thread \subseteq Task
  BY DEF Task
<1> QED BY <1>1, <1>2, <1>3, <1>4, <1>5, <1>6, <1>7, <1>8, <1>9 DEF Next

LEMMA Invariant == Spec => []IInv
BY InitInvariant, StepInvariant, PTL DEF Spec

\* Every variable keeps its type: no load goes below zero, and no request is
\* made of or for something that is no task.
THEOREM MigrationTypeCorrect == Spec => []TypeOK
BY Invariant, PTL DEF IInv

\* Whatever moves a task, nr_running counts the tasks of the arrays, and a
\* queued task is on the runqueue of its cpu.
THEOREM QueuesCorrect == Spec => []QueueExact
BY Invariant, PTL DEF IInv

\* A migration thread does not sleep over a request on its queue.
THEOREM RequestsCorrect == Spec => []RequestNoticed
BY Invariant, PTL DEF IInv

\* A task whose mask no two tasks set is where the mask allows, unless a request
\* for it is on its way, whoever sets the masks of others.
THEOREM AffinityCorrect == Spec => []AffinityKept
<1>1. IInv => AffinityKept
  BY DEF IInv, Placed, Control, ThreadSound, AffinityKept
<1> QED BY <1>1, Invariant, PTL
=============================================================================
