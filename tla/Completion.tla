----------------------------- MODULE Completion -----------------------------
(***************************************************************************)
(* struct completion: wait_for_completion() and complete() of sched.c, in  *)
(* the way vfork() uses them (fork.c): the completion is a local variable  *)
(* of the waiting parents' do_fork(), and each child calls mm_release()    *)
(* when it executes a program and when it exits.  The completion is one    *)
(* object that several parents and children share; vfork() is the case of  *)
(* one of each.  Processes run in parallel; a step is the code between two *)
(* operations on the lock of the wait queue.                               *)
(***************************************************************************)
EXTENDS WakeUp

CONSTANTS
    Parent,      \* call wait_for_completion() once
    Child,       \* have vfork_done set, and call mm_release() twice
    None         \* nobody holds the lock

ASSUME CompletionAssumption ==
    /\ IsFiniteSet(Parent) /\ IsFiniteSet(Child) /\ Cardinality(Parent) = Cardinality(Child)
    /\ Parent \cap Child = {} /\ None \notin Parent \cup Child

VARIABLES
    task,        \* state of the parents
    done,        \* x->done
    queue,       \* x->wait.task_list
    lock,        \* who holds x->wait.lock
    vfork_done,  \* tsk->vfork_done # NULL
    pc

vars == <<task, done, queue, lock, vfork_done, pc>>

TypeOK ==
    /\ task \in [Parent -> task_t]
    /\ done \in 0 .. Cardinality(Child)
    /\ queue \in Seq(wait_queue_t(Parent)) /\ IsInjective(queue)
    /\ lock \in Parent \cup Child \cup {None}
    /\ vfork_done \in [Child -> BOOLEAN]
    /\ pc \in [Parent \cup Child ->
                 {"call", "wait", "locked", "sched", "unlock", "running", "exec", "complete", "gone"}]

Init ==
    /\ task = [p \in Parent |-> Awake]
    /\ done = 0 /\ queue = << >> /\ lock = None
    /\ vfork_done = [c \in Child |-> TRUE]
    /\ pc = [p \in Parent \cup Child |-> IF p \in Parent THEN "call" ELSE "running"]

Queued == {p \in Parent : \E i \in 1 .. Len(queue) : queue[i].task = p}

Goto(p, label) == pc' = [pc EXCEPT ![p] = label]

\* spin_lock_irq(&x->wait.lock), on entry and after every schedule().
Lock(p) ==
    /\ pc[p] \in {"call", "wait"} /\ task[p].runnable
    /\ lock = None /\ lock' = p
    /\ Goto(p, "locked")
    /\ UNCHANGED <<task, done, queue, vfork_done>>

Entry(p) == [task |-> p, exclusive |-> TRUE]

\* x->done is zero: join the queue the first time, and sleep.
Sleep(p) ==
    /\ pc[p] = "locked" /\ done = 0
    /\ queue' = IF p \in Queued THEN queue ELSE Append(queue, Entry(p))
    /\ task' = [task EXCEPT ![p].state = "UNINTERRUPTIBLE"]
    /\ lock' = None /\ Goto(p, "sched")
    /\ UNCHANGED <<done, vfork_done>>

Schedule(p) ==
    /\ pc[p] = "sched"
    /\ task' = [task EXCEPT ![p] = schedule(@, FALSE)]
    /\ Goto(p, "wait")
    /\ UNCHANGED <<done, queue, lock, vfork_done>>

\* x->done is positive: leave the queue, if it was joined, and return from do_fork().
Take(p) ==
    /\ pc[p] = "locked" /\ done > 0
    /\ queue' = IF p \in Queued THEN remove_wait_queue(queue, p) ELSE queue
    /\ done' = done - 1
    /\ lock' = None /\ Goto(p, "gone")
    /\ UNCHANGED <<task, vfork_done>>

\* wake_up_process() by somebody who knows nothing of the completion.
Spurious(p) ==
    /\ task[p].state \in TASK_NORMAL
    /\ task' = [task EXCEPT ![p] = try_to_wake_up(@)]
    /\ UNCHANGED <<done, queue, lock, vfork_done, pc>>

\* Mutant: vfork_done stays set.
mm_release_again(c) ==
    /\ pc[c] \in {"running", "exec"}
    /\ Goto(c, IF vfork_done[c] THEN "complete" ELSE "gone")
    /\ UNCHANGED <<task, done, queue, lock, vfork_done>>

\* mm_release(), the first time from exec or exit, the second from exit.
mm_release(c) ==
    /\ pc[c] \in {"running", "exec"}
    /\ Goto(c, IF vfork_done[c] THEN "complete" ELSE "gone")
    /\ vfork_done' = [vfork_done EXCEPT ![c] = FALSE]
    /\ UNCHANGED <<task, done, queue, lock>>

\* Mutant: the lock is not taken for the update, only for the scan after it.
complete_unlocked(c) ==
    \/ /\ pc[c] = "complete" /\ done' = done + 1 /\ Goto(c, "unlock")
       /\ UNCHANGED <<task, queue, lock, vfork_done>>
    \/ /\ pc[c] = "unlock" /\ lock = None
       /\ task' = wake_up_common(queue, task, TASK_NORMAL, 1)
       /\ Goto(c, "exec")
       /\ UNCHANGED <<done, queue, lock, vfork_done>>

\* complete(): everything is done between lock and unlock.
complete(c) ==
    \/ /\ pc[c] = "complete" /\ lock = None /\ lock' = c
       /\ done' = done + 1
       /\ task' = wake_up_common(queue, task, TASK_NORMAL, 1)
       /\ Goto(c, "unlock")
       /\ UNCHANGED <<queue, vfork_done>>
    \/ /\ pc[c] = "unlock" /\ lock' = None
       /\ Goto(c, "exec")
       /\ UNCHANGED <<task, done, queue, vfork_done>>

Finished == \A p \in Parent \cup Child : pc[p] = "gone"

Next ==
    \/ \E p \in Parent : Lock(p) \/ Sleep(p) \/ Schedule(p) \/ Take(p) \/ Spurious(p)
    \/ \E c \in Child : mm_release(c) \/ complete(c)
    \/ Finished /\ UNCHANGED vars

Spec == Init /\ [][Next]_vars

(***************************************************************************)
(* Fairness: every process that can take a step does, and a spinning       *)
(* processor gets a lock that is free again and again.                     *)
(***************************************************************************)
FairSpec ==
    /\ Spec
    /\ \A p \in Parent : SF_vars(Lock(p)) /\ WF_vars(Sleep(p) \/ Take(p)) /\ WF_vars(Schedule(p))
    /\ \A c \in Child : WF_vars(mm_release(c)) /\ SF_vars(complete(c))

-----------------------------------------------------------------------------
(***************************************************************************)
(* A wakeup is never lost: as many of the queued parents are awake as      *)
(* there are completions for them to take, also when a parent that comes   *)
(* late takes one first and when somebody else wakes a parent.             *)
(***************************************************************************)
WakeupPerCompletion ==
    Cardinality({p \in Queued : task[p].runnable}) >= Min({done, Len(queue)})

(***************************************************************************)
(* One complete() lets exactly one wait_for_completion() return, however   *)
(* often mm_release() is called (vfork_done is cleared).                   *)
(***************************************************************************)
OneReturnPerCompletion ==
    done + Cardinality({p \in Parent : pc[p] = "gone"})
        = Cardinality({c \in Child : ~vfork_done[c] /\ pc[c] # "complete"})

(***************************************************************************)
(* The completion lives in the stack frame of do_fork(): when the parents  *)
(* have returned, no child is inside complete() any more and no entry of a *)
(* returned parent, a local variable too, is on the queue.                 *)
(***************************************************************************)
FrameOutlivesUse ==
    /\ (\A p \in Parent : pc[p] = "gone") => \A c \in Child : pc[c] \in {"running", "exec", "gone"}
    /\ \A p \in Queued : pc[p] # "gone"

\* Every vfork() returns.
EveryParentReturns == \A p \in Parent : <>(pc[p] = "gone")
=============================================================================
