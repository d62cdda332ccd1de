-------------------------- MODULE CompletionProofs --------------------------
(***************************************************************************)
(* The invariants of Completion, for any number of parents and children.   *)
(***************************************************************************)
EXTENDS Completion, CollectionLemmas

\* What a scan that wakes one exclusive task does: it leaves nobody asleep, or
\* one task more is awake.
LEMMA OneWoken ==
    ASSUME NEW Task, NEW q \in Seq(wait_queue_t(Task)), Flags(q, {TRUE}),
           NEW st \in [Task -> task_t], NEW mode
    PROVE  LET w == wake_up_common(q, st, mode, 1)
           IN  /\ \A p \in Task : w[p] = st[p] \/ (w[p] = Awake /\ OnQueue(q, p))
               /\ \/ \A p \in Task : OnQueue(q, p) /\ st[p].state \in mode => w[p] = Awake
                  \/ \E p \in Task : OnQueue(q, p) /\ ~st[p].runnable /\ st[p].state \in mode
                                     /\ w[p] = Awake
<1> DEFINE w == wake_up_common(q, st, mode, 1)
           Hits == {q[i].task : i \in {j \in Scanned(q, st, mode, 1) : Hit(q, st, mode, j)}}
           Asleep == {i \in 1 .. Len(q) : Counts(q, st, mode, i)}
<1>0. Len(q) \in Nat /\ \A i \in 1 .. Len(q) : q[i] \in wait_queue_t(Task)
  BY LenProperties
<1>1. \A p \in Task : w[p] = IF p \in Hits THEN Awake ELSE st[p]
  <2>1. w = [p \in DOMAIN st |-> IF p \in Hits THEN try_to_wake_up(st[p]) ELSE st[p]]
    BY DEF wake_up_common
  <2> HIDE DEF Hits, w
  <2> QED BY <2>1 DEF try_to_wake_up
<1>2. \A p : p \in Hits <=> \E i \in Scanned(q, st, mode, 1) : Hit(q, st, mode, i) /\ p = q[i].task
  OBVIOUS
<1>3. Scanned(q, st, mode, 1) \subseteq 1 .. Len(q)
  BY DEF Scanned
<1> HIDE DEF w, Hits
<1>4. \A p \in Task : w[p] = st[p] \/ (w[p] = Awake /\ OnQueue(q, p))
  BY <1>1, <1>2, <1>3 DEF OnQueue
<1>5. ASSUME NEW i \in 1 .. Len(q), \A j \in 1 .. i - 1 : ~Counts(q, st, mode, j)
      PROVE  i \in Scanned(q, st, mode, 1)
  <2>1. {j \in 1 .. i - 1 : Counts(q, st, mode, j)} = {}
    BY <1>5
  <2>2. Cardinality({j \in 1 .. i - 1 : Counts(q, st, mode, j)}) = 0
    BY <2>1, FS_EmptySet
  <2> QED BY <2>2 DEF Scanned
<1>6. ASSUME Asleep = {}, NEW p \in Task, OnQueue(q, p), st[p].state \in mode
      PROVE  w[p] = Awake
  <2>1. PICK i \in 1 .. Len(q) : q[i].task = p
    BY <1>6 DEF OnQueue
  <2>2. \A j \in 1 .. i - 1 : j \in 1 .. Len(q)
    BY <1>0
  <2>3. i \in Scanned(q, st, mode, 1)
    BY <1>5, <1>6, <2>2
  <2>4. p \in Hits
    BY <1>2, <1>6, <2>1, <2>3 DEF Hit
  <2> QED BY <1>1, <2>4
<1>7. ASSUME Asleep # {}
      PROVE  \E p \in Task : /\ OnQueue(q, p) /\ ~st[p].runnable /\ st[p].state \in mode
                             /\ w[p] = Awake
  <2>1. Asleep \in SUBSET Nat
    BY <1>0
  <2>2. PICK i \in Asleep : \A j \in Asleep : i <= j
    BY <1>7, <2>1, Least
  <2>3. i \in 1 .. Len(q) /\ Counts(q, st, mode, i)
    OBVIOUS
  <2>4. \A j \in 1 .. i - 1 : ~Counts(q, st, mode, j)
    <3> SUFFICES ASSUME NEW j \in 1 .. i - 1, Counts(q, st, mode, j)
                 PROVE  FALSE
      OBVIOUS
    <3>1. j \in Asleep /\ j < i
      BY <1>0, <2>3
    <3> QED BY <2>2, <2>3, <3>1, <1>0
  <2>5. i \in Scanned(q, st, mode, 1)
    BY <1>5, <2>3, <2>4
  <2>6. PICK p : p = q[i].task
    OBVIOUS
  <2>7. p \in Task /\ OnQueue(q, p)
    BY <1>0, <2>3, <2>6 DEF OnQueue, wait_queue_t
  <2>8. ~st[p].runnable /\ st[p].state \in mode /\ Hit(q, st, mode, i)
    BY <2>3, <2>6 DEF Counts, Hit
  <2>9. p \in Hits
    BY <1>2, <2>5, <2>6, <2>8
  <2> QED BY <1>1, <2>7, <2>8, <2>9
<1>8. \/ \A p \in Task : OnQueue(q, p) /\ st[p].state \in mode => w[p] = Awake
      \/ \E p \in Task : /\ OnQueue(q, p) /\ ~st[p].runnable /\ st[p].state \in mode
                         /\ w[p] = Awake
  BY <1>6, <1>7
<1> QED BY <1>4, <1>8 DEF w

Labels ==
    /\ \A p \in Parent : pc[p] \in {"call", "wait", "locked", "sched", "gone"}
    /\ \A c \in Child : pc[c] \in {"running", "exec", "complete", "unlock", "gone"}

LockSound ==
    /\ \A p \in Parent : pc[p] = "locked" <=> lock = p
    /\ \A c \in Child : pc[c] = "unlock" <=> lock = c

QueueSound ==
    /\ Unique(queue) /\ Flags(queue, {TRUE})
    /\ \A p \in Parent : /\ pc[p] \in {"wait", "sched"} => OnQueue(queue, p)
                         /\ pc[p] \in {"call", "gone"} => ~OnQueue(queue, p)

\* Only schedule() takes a parent off the CPU, and who returns from it runs.
StateSound ==
    \A p \in Parent : /\ ~task[p].runnable => pc[p] = "wait" /\ task[p].state # "RUNNING"
                      /\ task[p].state # "RUNNING" => pc[p] \in {"wait", "sched"}
                      /\ pc[p] = "wait" /\ task[p].runnable => task[p].state = "RUNNING"

\* The queued parents that will not sleep before they have looked at x->done.
Up == {p \in Parent : OnQueue(queue, p) /\ task[p].state = "RUNNING"}

\* There are enough of them for the completions, or nobody sleeps.
Told == done <= Cardinality(Up)
        \/ \A p \in Parent : OnQueue(queue, p) => task[p].state = "RUNNING"

Gone == {p \in Parent : pc[p] = "gone"}
Given == {c \in Child : ~vfork_done[c] /\ pc[c] # "complete"}

\* mm_release() clears vfork_done before it calls complete().
Released == \A c \in Child : pc[c] = "complete" => ~vfork_done[c]

Balance == done + Cardinality(Gone) = Cardinality(Given)

\* The last parent cannot leave while a child holds the lock.
FrameSound == (\A p \in Parent : pc[p] = "gone") => \A c \in Child : pc[c] # "unlock"

Typed ==
    /\ task \in [Parent -> task_t]
    /\ done \in Nat
    /\ queue \in Seq(wait_queue_t(Parent))
    /\ lock \in Parent \cup Child \cup {None}
    /\ vfork_done \in [Child -> BOOLEAN]
    /\ pc \in [Parent \cup Child ->
                 {"call", "wait", "locked", "sched", "unlock", "running", "exec", "complete", "gone"}]

IInv == /\ Typed /\ Labels /\ LockSound /\ QueueSound /\ StateSound /\ Told
        /\ Released /\ Balance /\ FrameSound

\* Parents and children are different processes, and there are finitely many.
LEMMA Kinds ==
    /\ \A p \in Parent : p \notin Child /\ p # None
    /\ \A c \in Child : c \notin Parent /\ c # None
BY CompletionAssumption

\* The sets that are counted are finite.
LEMMA Finite ==
    /\ IsFiniteSet(Up) /\ IsFiniteSet(Gone) /\ IsFiniteSet(Given)
    /\ Cardinality(Up) \in Nat /\ Cardinality(Gone) \in Nat /\ Cardinality(Given) \in Nat
<1>1. Up \subseteq Parent /\ Gone \subseteq Parent /\ Given \subseteq Child
  BY DEF Up, Gone, Given
<1>2. IsFiniteSet(Up) /\ IsFiniteSet(Gone) /\ IsFiniteSet(Given)
  BY <1>1, CompletionAssumption, FS_Subset
<1> QED BY <1>2, FS_CardinalityType

\* When all parents have returned, every child has given its completion.
LEMMA AllGiven ==
    ASSUME Typed, Balance, \A p \in Parent : pc[p] = "gone"
    PROVE  Given = Child
<1>1. Gone = Parent /\ Given \subseteq Child
  BY DEF Gone, Given
<1>2. /\ Cardinality(Given) <= Cardinality(Child)
      /\ Cardinality(Given) = Cardinality(Child) => Given = Child
      /\ Cardinality(Child) \in Nat
  BY <1>1, CompletionAssumption, FS_Subset, FS_CardinalityType
<1>3. Cardinality(Given) >= Cardinality(Child)
  BY <1>1, Finite, CompletionAssumption DEF Typed, Balance
<1> QED BY <1>2, <1>3, Finite

-----------------------------------------------------------------------------
(* One lemma per kind of step.                                             *)

\* A parent that takes the lock, sleeps, or is woken by somebody else: no
\* completion is given or taken.
LEMMA ParentStep ==
    ASSUME IInv, NEW p \in Parent, Lock(p) \/ Sleep(p) \/ Schedule(p) \/ Spurious(p)
    PROVE  IInv'
<1>0. /\ Typed /\ Labels /\ LockSound /\ QueueSound /\ StateSound /\ Told
      /\ Released /\ Balance /\ FrameSound
  BY DEF IInv
<1>1. /\ done' = done /\ vfork_done' = vfork_done
      /\ \A q \in Parent \cup Child : q # p => pc'[q] = pc[q]
      /\ \A q \in Parent : q # p => task'[q] = task[q]
      /\ pc'[p] \in {pc[p], "locked", "sched", "wait"} /\ pc[p] # "gone"
      /\ pc' \in [Parent \cup Child -> {"call", "wait", "locked", "sched", "unlock", "running",
                                        "exec", "complete", "gone"}]
  BY <1>0, Kinds DEF Typed, StateSound, Lock, Sleep, Schedule, Spurious, Goto, TASK_NORMAL
<1>2. /\ task' \in [Parent -> task_t]
      /\ lock' \in Parent \cup Child \cup {None}
      /\ pc'[p] \in {"call", "wait", "locked", "sched"}
      /\ pc'[p] = "locked" <=> lock' = p
      /\ \A c \in Child : lock' = c <=> lock = c
      /\ \A q \in Parent : q # p => (lock' = q <=> lock = q)
      /\ ~task'[p].runnable => pc'[p] = "wait" /\ task'[p].state # "RUNNING"
      /\ task'[p].state # "RUNNING" => pc'[p] \in {"wait", "sched"}
      /\ pc'[p] = "wait" /\ task'[p].runnable => task'[p].state = "RUNNING"
      /\ task[p].state = "RUNNING" /\ task'[p].state # "RUNNING" => Sleep(p)
  <2>0. /\ task[p] \in task_t /\ Awake \in task_t /\ Awake.runnable /\ Awake.state = "RUNNING"
        /\ task[p].runnable \in BOOLEAN /\ task[p].state \in TaskState
    BY <1>0 DEF Typed, task_t, Awake, TaskState
  <2>1. CASE Lock(p)
    BY <2>0, <2>1, <1>0, Kinds DEF Lock, Goto, Typed, Labels, LockSound, StateSound
  <2>2. CASE Sleep(p)
    <3>1. /\ task' = [task EXCEPT ![p] = [task[p] EXCEPT !.state = "UNINTERRUPTIBLE"]]
          /\ [task[p] EXCEPT !.state = "UNINTERRUPTIBLE"] \in task_t
          /\ task'[p].runnable = task[p].runnable /\ task'[p].state = "UNINTERRUPTIBLE"
      BY <2>0, <2>2, <1>0 DEF Sleep, Typed, task_t, TaskState
    <3>2. task' \in [Parent -> task_t]
      BY <3>1, <1>0 DEF Typed
    <3> QED BY <3>1, <3>2, <2>2, <1>0, Kinds DEF Sleep, Goto, Typed, LockSound, StateSound
  <2>3. CASE Schedule(p)
    <3> DEFINE t == schedule(task[p], FALSE)
    <3>1. /\ t \in task_t /\ t.state = task[p].state
          /\ t.runnable = (task[p].state = "RUNNING")
      BY <2>0 DEF schedule, task_t, Awake, TaskState
    <3> HIDE DEF t
    <3>2. task' = [task EXCEPT ![p] = t]
      BY <2>3 DEF Schedule, t
    <3>3. task' \in [Parent -> task_t] /\ task'[p] = t
      BY <3>1, <3>2, <1>0 DEF Typed
    <3> QED BY <3>1, <3>3, <2>3, <1>0, Kinds DEF Schedule, Goto, Typed, LockSound, StateSound
  <2>4. CASE Spurious(p)
    <3>1. task' = [task EXCEPT ![p] = Awake]
      BY <2>4 DEF Spurious, try_to_wake_up
    <3>2. task' \in [Parent -> task_t] /\ task'[p] = Awake
      BY <3>1, <2>0, <1>0 DEF Typed
    <3>3. task'[p].state = "RUNNING" /\ task'[p].runnable
      BY <3>2, <2>0
    <3>4. pc' = pc /\ lock' = lock
      BY <2>4 DEF Spurious
    <3>5. pc[p] \in {"call", "wait", "locked", "sched"} /\ lock \in Parent \cup Child \cup {None}
          /\ (pc[p] = "locked" <=> lock = p)
      BY <1>0, <1>1 DEF Typed, LockSound, Labels
    <3> QED BY <3>2, <3>3, <3>4, <3>5
  <2> QED BY <2>1, <2>2, <2>3, <2>4
<1>3. /\ queue' \in Seq(wait_queue_t(Parent)) /\ Unique(queue') /\ Flags(queue', {TRUE})
      /\ \A q \in Parent : q # p => (OnQueue(queue', q) <=> OnQueue(queue, q))
      /\ OnQueue(queue, p) => OnQueue(queue', p)
      /\ OnQueue(queue', p) /\ ~OnQueue(queue, p) => Sleep(p)
      /\ Sleep(p) => OnQueue(queue', p)
  <2>1. queue \in Seq(wait_queue_t(Parent)) /\ Unique(queue) /\ Flags(queue, {TRUE})
    BY <1>0 DEF Typed, QueueSound
  <2>2. p \in Queued <=> OnQueue(queue, p)
    BY DEF Queued, OnQueue
  <2>3. CASE Sleep(p) /\ ~OnQueue(queue, p)
    <3>1. PICK e : e = Entry(p)
      OBVIOUS
    <3>2. e \in wait_queue_t(Parent) /\ e.task = p /\ e.exclusive \in {TRUE}
      BY <3>1 DEF Entry, wait_queue_t
    <3>3. queue' = Append(queue, e)
      BY <2>2, <2>3, <3>1 DEF Sleep
    <3>4. /\ Append(queue, e) \in Seq(wait_queue_t(Parent))
          /\ Unique(Append(queue, e)) /\ Flags(Append(queue, e), {TRUE})
          /\ \A q : OnQueue(Append(queue, e), q) <=> OnQueue(queue, q) \/ q = e.task
      BY <2>1, <2>3, <3>2, TailJoined
    <3> QED BY <2>3, <3>2, <3>3, <3>4
  <2>4. CASE ~Sleep(p) \/ OnQueue(queue, p)
    <3>1. queue' = queue
      BY <2>2, <2>4 DEF Lock, Sleep, Schedule, Spurious
    <3> QED BY <2>1, <2>4, <3>1
  <2> QED BY <2>3, <2>4
<1>4. Typed'
  BY <1>0, <1>1, <1>2, <1>3 DEF Typed
<1>5. Labels' /\ LockSound'
  BY <1>0, <1>1, <1>2, Kinds DEF Labels, LockSound
<1>6. StateSound'
  BY <1>0, <1>1, <1>2 DEF StateSound
<1>7. QueueSound'
  <2>1. ASSUME NEW q \in Parent
        PROVE  /\ pc'[q] \in {"wait", "sched"} => OnQueue(queue', q)
               /\ pc'[q] \in {"call", "gone"} => ~OnQueue(queue', q)
    <3>1. CASE q # p
      BY <3>1, <1>0, <1>1, <1>3 DEF QueueSound
    <3>2. CASE q = p
      <4>1. pc'[p] = "call" => pc[p] = "call" /\ ~Sleep(p)
        BY <1>0 DEF Lock, Sleep, Schedule, Spurious, Goto, Typed
      <4>2. pc'[p] \in {"wait", "sched"} => Sleep(p) \/ pc[p] \in {"wait", "sched"}
        BY <1>0 DEF Lock, Sleep, Schedule, Spurious, Goto, Typed
      <4> QED BY <3>2, <4>1, <4>2, <1>0, <1>2, <1>3 DEF QueueSound
    <3> QED BY <3>1, <3>2
  <2> QED BY <2>1, <1>3 DEF QueueSound
<1>8. Told'
  <2>1. CASE Sleep(p)
    <3>1. done' = 0
      BY <2>1, <1>1 DEF Sleep
    <3>2. IsFiniteSet(Up') /\ Cardinality(Up') \in Nat
      <4>1. Up' \subseteq Parent
        BY DEF Up
      <4> QED BY <4>1, CompletionAssumption, FS_Subset, FS_CardinalityType
    <3> QED BY <3>1, <3>2 DEF Told
  <2>2. CASE ~Sleep(p)
    <3>1. \A q \in Parent : OnQueue(queue', q) <=> OnQueue(queue, q)
      BY <2>2, <1>3
    <3>2. \A q \in Parent : task[q].state = "RUNNING" => task'[q].state = "RUNNING"
      BY <2>2, <1>1, <1>2
    <3>3. Up \subseteq Up' /\ IsFiniteSet(Up')
      <4>1. Up' \subseteq Parent
        BY DEF Up
      <4> QED BY <4>1, <3>1, <3>2, CompletionAssumption, FS_Subset DEF Up
    <3>4. Cardinality(Up) <= Cardinality(Up') /\ Cardinality(Up') \in Nat
      BY <3>3, FS_Subset, FS_CardinalityType
    <3> QED BY <3>1, <3>2, <3>4, <1>0, <1>1, Finite DEF Told, Typed
  <2> QED BY <2>1, <2>2
<1>9. Released' /\ Balance' /\ FrameSound'
  <2>1. Gone' = Gone /\ Given' = Given
    BY <1>1, <1>2, Kinds DEF Gone, Given
  <2> QED BY <2>1, <1>0, <1>1, <1>2, Kinds DEF Released, Balance, FrameSound
<1> QED BY <1>4, <1>5, <1>6, <1>7, <1>8, <1>9 DEF IInv

\* A parent that takes a completion leaves the queue, if it is there.
LEMMA TakeStep ==
    ASSUME IInv, NEW p \in Parent, Take(p)
    PROVE  IInv'
<1>0. /\ Typed /\ Labels /\ LockSound /\ QueueSound /\ StateSound /\ Told
      /\ Released /\ Balance /\ FrameSound
  BY DEF IInv
<1>1. /\ pc[p] = "locked" /\ lock = p /\ done > 0 /\ done' = done - 1 /\ lock' = None
      /\ pc' = [pc EXCEPT ![p] = "gone"] /\ UNCHANGED <<task, vfork_done>>
      /\ queue' = IF OnQueue(queue, p) THEN remove_wait_queue(queue, p) ELSE queue
      /\ task[p].runnable /\ task[p].state = "RUNNING"
  BY <1>0 DEF Take, Goto, LockSound, StateSound, Queued, OnQueue
<1>2. /\ queue' \in Seq(wait_queue_t(Parent)) /\ Unique(queue') /\ Flags(queue', {TRUE})
      /\ \A q : OnQueue(queue', q) <=> OnQueue(queue, q) /\ q # p
  <2>1. queue \in Seq(wait_queue_t(Parent)) /\ Unique(queue) /\ Flags(queue, {TRUE})
    BY <1>0 DEF Typed, QueueSound
  <2>2. CASE OnQueue(queue, p)
    BY <2>1, <2>2, <1>1, EntryRemoved DEF remove_wait_queue
  <2>3. CASE ~OnQueue(queue, p)
    BY <2>1, <2>3, <1>1
  <2> QED BY <2>2, <2>3
<1>3. Typed' /\ Labels' /\ LockSound' /\ StateSound'
  BY <1>0, <1>1, <1>2, Kinds DEF Typed, Labels, LockSound, StateSound
<1>4. QueueSound'
  BY <1>0, <1>1, <1>2 DEF Typed, QueueSound
<1>5. Told'
  <2>1. \A q : q # p => (q \in Up <=> q \in Up')
    BY <1>1, <1>2 DEF Up
  <2>2. p \notin Up' /\ (p \in Up <=> OnQueue(queue, p))
    BY <1>1, <1>2 DEF Up
  <2>3. PICK S, T : S = Up /\ T = Up'
    OBVIOUS
  <2>4. Cardinality(T) = IF OnQueue(queue, p) THEN Cardinality(S) - 1 ELSE Cardinality(S)
    BY <2>1, <2>2, <2>3, Finite, OneMore
  <2> QED BY <2>3, <2>4, <1>0, <1>1, <1>2, Finite DEF Told, Typed
<1>6. Released' /\ Balance'
  <2>1. /\ \A q : q # p => (q \in Gone <=> q \in Gone')
        /\ p \in Gone' /\ p \notin Gone /\ Given' = Given
    BY <1>0, <1>1, Kinds DEF Gone, Given, Typed
  <2>2. PICK S, T : S = Gone /\ T = Gone'
    OBVIOUS
  <2>3. Cardinality(T) = Cardinality(S) + 1
    BY <2>1, <2>2, Finite, OneMore
  <2>4. Balance'
    BY <2>1, <2>2, <2>3, <1>0, <1>1, Finite DEF Balance, Typed
  <2> QED BY <2>4, <1>0, <1>1, Kinds DEF Released, Typed
<1>7. FrameSound'
  BY <1>0, <1>1, Kinds DEF FrameSound, LockSound, Typed
<1> QED BY <1>3, <1>4, <1>5, <1>6, <1>7 DEF IInv

\* complete() gives one completion, and wakes somebody if somebody sleeps.
LEMMA CompleteStep ==
    ASSUME IInv, NEW c \in Child, complete(c), pc[c] = "complete"
    PROVE  IInv'
<1>0. /\ Typed /\ Labels /\ LockSound /\ QueueSound /\ StateSound /\ Told
      /\ Released /\ Balance /\ FrameSound
  BY DEF IInv
<1>1. /\ lock = None /\ lock' = c /\ done' = done + 1 /\ pc' = [pc EXCEPT ![c] = "unlock"]
      /\ task' = wake_up_common(queue, task, TASK_NORMAL, 1)
      /\ UNCHANGED <<queue, vfork_done>> /\ ~vfork_done[c]
      /\ \A p \in Parent : pc'[p] = pc[p]
  BY <1>0, Kinds DEF complete, Goto, Typed, Released
<1>2. /\ \A p \in Parent : task'[p] = task[p] \/ (task'[p] = Awake /\ OnQueue(queue, p))
      /\ \/ \A p \in Parent : OnQueue(queue, p) /\ task[p].state \in TASK_NORMAL => task'[p] = Awake
         \/ \E p \in Parent : /\ OnQueue(queue, p) /\ ~task[p].runnable
                              /\ task[p].state \in TASK_NORMAL /\ task'[p] = Awake
  <2>1. queue \in Seq(wait_queue_t(Parent)) /\ Flags(queue, {TRUE}) /\ task \in [Parent -> task_t]
    BY <1>0 DEF Typed, QueueSound
  <2> QED BY <2>1, <1>1, OneWoken
<1>3. /\ Awake \in task_t /\ Awake.runnable /\ Awake.state = "RUNNING"
      /\ \A p \in Parent : task[p].state \in TASK_NORMAL \/ task[p].state = "RUNNING"
      /\ "RUNNING" \notin TASK_NORMAL
  BY <1>0 DEF Typed, task_t, Awake, TaskState, TASK_NORMAL
<1>4. Typed'
  <2>1. task' = [p \in Parent |-> task'[p]]
    BY <1>0, <1>1 DEF wake_up_common, Typed
  <2>2. \A p \in Parent : task'[p] \in task_t
    BY <1>0, <1>2, <1>3 DEF Typed
  <2>3. task' \in [Parent -> task_t]
    BY <2>1, <2>2
  <2> QED BY <2>3, <1>0, <1>1 DEF Typed
<1>5. Labels' /\ LockSound' /\ Released'
  BY <1>0, <1>1, Kinds DEF Labels, LockSound, Released, Typed
<1>6. QueueSound'
  BY <1>0, <1>1 DEF QueueSound
<1>7. StateSound'
  BY <1>0, <1>1, <1>2, <1>3 DEF StateSound
<1>8. Told'
  <2>1. CASE \A p \in Parent : OnQueue(queue, p) /\ task[p].state \in TASK_NORMAL => task'[p] = Awake
    BY <2>1, <1>1, <1>2, <1>3 DEF Told
  <2>2. CASE \A p \in Parent : OnQueue(queue, p) => task[p].state = "RUNNING"
    BY <2>2, <1>1, <1>2, <1>3 DEF Told
  <2>3. CASE /\ done <= Cardinality(Up)
             /\ \E p \in Parent : /\ OnQueue(queue, p) /\ ~task[p].runnable
                                  /\ task[p].state \in TASK_NORMAL /\ task'[p] = Awake
    <3>1. PICK p \in Parent : OnQueue(queue, p) /\ task[p].state # "RUNNING" /\ task'[p] = Awake
      BY <2>3, <1>3
    <3>2. PICK S, T : S = Up /\ T = Up'
      OBVIOUS
    <3>3. p \notin S /\ S \cup {p} \subseteq T /\ T \subseteq Parent
      BY <3>1, <3>2, <1>1, <1>2, <1>3 DEF Up
    <3>4. IsFiniteSet(T) /\ IsFiniteSet(S)
      BY <3>2, <3>3, Finite, CompletionAssumption, FS_Subset
    <3>5. Cardinality(S \cup {p}) = Cardinality(S) + 1
      BY <3>3, <3>4, FS_AddElement
    <3>6. Cardinality(S \cup {p}) <= Cardinality(T) /\ Cardinality(T) \in Nat
      BY <3>3, <3>4, FS_Subset, FS_CardinalityType
    <3> QED BY <2>3, <3>2, <3>5, <3>6, <1>0, <1>1, Finite DEF Told, Typed
  <2> QED BY <2>1, <2>2, <2>3, <1>0, <1>2 DEF Told
<1>9. Balance'
  <2>1. /\ \A d : d # c => (d \in Given <=> d \in Given')
        /\ c \in Given' /\ c \notin Given /\ Gone' = Gone
    BY <1>0, <1>1, Kinds DEF Gone, Given, Typed
  <2>2. PICK S, T : S = Given /\ T = Given'
    OBVIOUS
  <2>3. Cardinality(T) = Cardinality(S) + 1
    BY <2>1, <2>2, Finite, OneMore
  <2> QED BY <2>1, <2>2, <2>3, <1>0, <1>1, Finite DEF Balance, Typed
<1>10. FrameSound'
  <2>1. CASE \A p \in Parent : pc[p] = "gone"
    <3>1. c \in Given
      BY <2>1, <1>0, AllGiven
    <3> QED BY <3>1 DEF Given
  <2>2. CASE ~\A p \in Parent : pc[p] = "gone"
    BY <2>2, <1>1 DEF FrameSound
  <2> QED BY <2>1, <2>2
<1> QED BY <1>4, <1>5, <1>6, <1>7, <1>8, <1>9, <1>10 DEF IInv

\* The rest of a child's life: mm_release(), and the end of complete().
LEMMA ChildStep ==
    ASSUME IInv, NEW c \in Child, mm_release(c) \/ (complete(c) /\ pc[c] = "unlock")
    PROVE  IInv'
<1>0. /\ Typed /\ Labels /\ LockSound /\ QueueSound /\ StateSound /\ Told
      /\ Released /\ Balance /\ FrameSound
  BY DEF IInv
<1>1. /\ UNCHANGED <<task, done, queue>>
      /\ \A q \in Parent \cup Child : q # c => pc'[q] = pc[q]
      /\ \A p \in Parent : pc'[p] = pc[p]
      /\ \A d \in Child : d # c => vfork_done'[d] = vfork_done[d]
      /\ pc'[c] \in {"exec", "complete", "gone"} /\ lock' # c
      /\ \A q \in Parent \cup Child : q # c => (lock' = q <=> lock = q)
      /\ pc'[c] = "complete" => ~vfork_done'[c]
      /\ c \in Given <=> ~vfork_done'[c] /\ pc'[c] # "complete"
  <2>1. CASE mm_release(c)
    <3>1. /\ pc[c] \in {"running", "exec"} /\ vfork_done' = [vfork_done EXCEPT ![c] = FALSE]
          /\ pc' = [pc EXCEPT ![c] = IF vfork_done[c] THEN "complete" ELSE "gone"]
          /\ UNCHANGED <<task, done, queue, lock>>
      BY <2>1 DEF mm_release, Goto
    <3> QED BY <3>1, <1>0, Kinds DEF Typed, LockSound, Given
  <2>2. CASE complete(c) /\ pc[c] = "unlock"
    <3>1. /\ lock' = None /\ pc' = [pc EXCEPT ![c] = "exec"]
          /\ UNCHANGED <<task, done, queue, vfork_done>>
      BY <2>2 DEF complete, Goto
    <3> QED BY <3>1, <2>2, <1>0, Kinds DEF Typed, LockSound, Given
  <2> QED BY <2>1, <2>2
<1>2. Typed'
  <2>1. /\ pc' \in [Parent \cup Child -> {"call", "wait", "locked", "sched", "unlock", "running",
                                          "exec", "complete", "gone"}]
        /\ vfork_done' \in [Child -> BOOLEAN] /\ lock' \in Parent \cup Child \cup {None}
    BY <1>0 DEF Typed, mm_release, complete, Goto
  <2> QED BY <2>1, <1>0, <1>1 DEF Typed
<1>3. Labels' /\ LockSound' /\ Released'
  BY <1>0, <1>1, Kinds DEF Labels, LockSound, Released
<1>4. QueueSound' /\ StateSound'
  BY <1>0, <1>1 DEF QueueSound, StateSound
<1>5. Told'
  <2>1. Up' = Up
    BY <1>1 DEF Up
  <2> QED BY <2>1, <1>0, <1>1 DEF Told
<1>6. Balance'
  <2>1. Gone' = Gone
    BY <1>1 DEF Gone
  <2>2. Given' = Given
    BY <1>1 DEF Given
  <2> QED BY <2>1, <2>2, <1>0, <1>1 DEF Balance
<1>7. FrameSound'
  BY <1>0, <1>1 DEF FrameSound
<1> QED BY <1>2, <1>3, <1>4, <1>5, <1>6, <1>7 DEF IInv

\* The invariant holds at first,
LEMMA InitInv == Init => IInv
<1> SUFFICES ASSUME Init
             PROVE  IInv
  OBVIOUS
<1>1. /\ task = [p \in Parent |-> Awake] /\ done = 0 /\ queue = << >> /\ lock = None
      /\ vfork_done = [c \in Child |-> TRUE]
      /\ pc = [p \in Parent \cup Child |-> IF p \in Parent THEN "call" ELSE "running"]
  BY DEF Init
<1>2. /\ Awake \in task_t /\ Awake.runnable /\ Awake.state = "RUNNING"
      /\ << >> \in Seq(wait_queue_t(Parent)) /\ Len(<< >>) = 0
  BY DEF Awake, task_t, TaskState
<1>3. /\ \A p \in Parent : pc[p] = "call" /\ task[p].runnable /\ task[p].state = "RUNNING"
      /\ \A c \in Child : pc[c] = "running" /\ vfork_done[c]
  BY <1>1, <1>2, Kinds
<1>4. Typed
  BY <1>1, <1>2 DEF Typed
<1>5. Labels /\ LockSound /\ StateSound /\ Released /\ FrameSound
  BY <1>1, <1>3, Kinds DEF Labels, LockSound, StateSound, Released, FrameSound
<1>6. QueueSound
  BY <1>1, <1>2, <1>3 DEF QueueSound, Unique, Flags, OnQueue
<1>7. Told
  BY <1>1, Finite DEF Told
<1>8. Balance
  <2>1. Gone = {} /\ Given = {}
    BY <1>3 DEF Gone, Given
  <2> QED BY <2>1, <1>1, FS_EmptySet DEF Balance
<1> QED BY <1>4, <1>5, <1>6, <1>7, <1>8 DEF IInv

\* and every step keeps it.
LEMMA Inductive == IInv /\ [Next]_vars => IInv'
<1> SUFFICES ASSUME IInv, [Next]_vars
             PROVE  IInv'
  OBVIOUS
<1>1. CASE UNCHANGED vars
  BY <1>1 DEF vars, IInv, Typed, Labels, LockSound, QueueSound, StateSound, Told, Up,
              Released, Balance, Gone, Given, FrameSound
<1>2. ASSUME NEW p \in Parent, Lock(p) \/ Sleep(p) \/ Schedule(p) \/ Take(p) \/ Spurious(p)
      PROVE  IInv'
  BY <1>2, ParentStep, TakeStep
<1>3. ASSUME NEW c \in Child, mm_release(c) \/ complete(c)
      PROVE  IInv'
  <2>1. complete(c) => pc[c] \in {"complete", "unlock"}
    BY DEF complete
  <2> QED BY <2>1, <1>3, CompleteStep, ChildStep
<1> QED BY <1>1, <1>2, <1>3 DEF Next

\* The inductive invariant is one.
LEMMA Invariant == Spec => []IInv
BY InitInv, Inductive, PTL DEF Spec

-----------------------------------------------------------------------------
(* The results.                                                            *)

\* Every variable keeps its type: x->done never passes the number of children,
\* and no parent has two entries on the queue.
THEOREM CompletionTypeCorrect == Spec => []TypeOK
<1>1. IInv => TypeOK
  <2> SUFFICES ASSUME IInv
               PROVE  TypeOK
    OBVIOUS
  <2>1. Given \subseteq Child
    BY DEF Given
  <2>2. Cardinality(Given) <= Cardinality(Child) /\ Cardinality(Child) \in Nat
    BY <2>1, CompletionAssumption, FS_Subset, FS_CardinalityType
  <2>3. done \in 0 .. Cardinality(Child)
    BY <2>2, Finite DEF IInv, Typed, Balance
  <2>4. IsInjective(queue)
    BY UniqueInjective DEF IInv, Typed, QueueSound
  <2> QED BY <2>3, <2>4 DEF IInv, Typed, TypeOK
<1> QED BY <1>1, Invariant, PTL

\* As many queued parents are awake as there are completions for them.
THEOREM NoCompletionIsLost == Spec => []WakeupPerCompletion
<1>1. IInv => WakeupPerCompletion
  <2> SUFFICES ASSUME IInv
               PROVE  WakeupPerCompletion
    OBVIOUS
  <2> DEFINE On == {p \in Queued : task[p].runnable}
  <2>1. /\ \A p : p \in Queued <=> p \in Parent /\ OnQueue(queue, p)
        /\ \A p \in Parent : task[p].state = "RUNNING" => task[p].runnable
    BY DEF Queued, OnQueue, IInv, StateSound, Typed, task_t
  <2>2. IsFiniteSet(On) /\ Cardinality(On) \in Nat /\ Up \subseteq On
    <3>1. On \subseteq Parent /\ Up \subseteq On
      BY <2>1 DEF Up
    <3> HIDE DEF On
    <3> QED BY <3>1, CompletionAssumption, FS_Subset, FS_CardinalityType
  <2>3. done \in Nat /\ Len(queue) \in Nat
    BY LenProperties DEF IInv, Typed
  <2>4. Min({done, Len(queue)}) <= done /\ Min({done, Len(queue)}) <= Len(queue)
        /\ Min({done, Len(queue)}) \in Nat
    <3>1. \E x \in {done, Len(queue)} : \A y \in {done, Len(queue)} : x <= y
      BY <2>3
    <3> QED BY <2>3, <3>1 DEF Min
  <2>5. CASE done <= Cardinality(Up)
    <3> HIDE DEF On
    <3>1. Cardinality(Up) <= Cardinality(On)
      BY <2>2, FS_Subset
    <3>2. Cardinality(On) >= Min({done, Len(queue)})
      BY <3>1, <2>2, <2>3, <2>4, <2>5, Finite
    <3> QED BY <3>2 DEF On, WakeupPerCompletion
  <2>6. CASE \A p \in Parent : OnQueue(queue, p) => task[p].state = "RUNNING"
    <3>1. \A i \in 1 .. Len(queue) : queue[i].task \in On
      <4> SUFFICES ASSUME NEW i \in 1 .. Len(queue)
                   PROVE  queue[i].task \in On
        OBVIOUS
      <4>1. queue[i] \in wait_queue_t(Parent)
        BY LenProperties DEF IInv, Typed
      <4>2. queue[i].task \in Parent /\ OnQueue(queue, queue[i].task)
        BY <4>1 DEF wait_queue_t, OnQueue
      <4> QED BY <4>2, <2>1, <2>6
    <3> HIDE DEF On
    <3>2. Len(queue) <= Cardinality(On)
      BY <3>1, <2>2, LengthBound DEF IInv, Typed, QueueSound
    <3>3. Cardinality(On) >= Min({done, Len(queue)})
      BY <3>2, <2>2, <2>3, <2>4
    <3> QED BY <3>3 DEF On, WakeupPerCompletion
  <2> QED BY <2>5, <2>6 DEF IInv, Told
<1> QED BY <1>1, Invariant, PTL

\* Completions given are completions taken and completions left.
THEOREM CompletionsBalance == Spec => []OneReturnPerCompletion
<1>1. IInv => OneReturnPerCompletion
  BY DEF IInv, Balance, Gone, Given, OneReturnPerCompletion
<1> QED BY <1>1, Invariant, PTL

\* The stack frame of do_fork() is not used after it has returned.
THEOREM FrameIsSafe == Spec => []FrameOutlivesUse
<1>1. IInv => FrameOutlivesUse
  <2> SUFFICES ASSUME IInv
               PROVE  FrameOutlivesUse
    OBVIOUS
  <2>1. ASSUME \A p \in Parent : pc[p] = "gone", NEW c \in Child
        PROVE  pc[c] \in {"running", "exec", "gone"}
    <3>1. Given = Child
      BY <2>1, AllGiven DEF IInv
    <3> QED BY <2>1, <3>1 DEF Given, IInv, Labels, FrameSound
  <2>2. ASSUME NEW p \in Queued
        PROVE  pc[p] # "gone"
    BY <2>2 DEF Queued, OnQueue, IInv, QueueSound
  <2> QED BY <2>1, <2>2 DEF FrameOutlivesUse
<1> QED BY <1>1, Invariant, PTL
=============================================================================
