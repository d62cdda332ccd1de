----------------------------- MODULE ProcessIds -----------------------------
(***************************************************************************)
(* Process ids: get_pid() of fork.c, which hands out an id that no linked  *)
(* task uses and remembers in next_safe up to where it need not look, and  *)
(* the pid hash of sched.h.  do_fork() takes the pid of a child long       *)
(* before it links the child (it may block in the copies between the two), *)
(* and a task that is not linked is not seen by get_pid().  The search goes *)
(* through the list one task per step; it holds lastpid_lock and, for      *)
(* reading, tasklist_lock, so nothing else here happens meanwhile.         *)
(***************************************************************************)
EXTENDS Integers, SequencesExt

CONSTANTS
    Task,        \* slots for task_structs, without the swapper
    InitTask,    \* the task with pid 1
    PID_MAX,     \* pids are less than this
    RESERVED,    \* where the search goes on after PID_MAX (300 in the code)
    PidHash,     \* the hash chains
    pid_hashfn   \* the chain of every pid

ASSUME PidAssumption ==
    /\ InitTask \in Task
    /\ PID_MAX \in Nat /\ RESERVED \in 2 .. PID_MAX - 1
    /\ pid_hashfn \in [1 .. PID_MAX - 1 -> PidHash]

VARIABLES
    tasks,       \* the linked tasks in the order of for_each_task()
    copying,     \* the tasks do_fork() works on: the parent of each
    id,          \* p->pid, p->pgrp, p->tgid and p->session
    pidhash,     \* the hash chains
    last_pid, next_safe,
    at,          \* the task for_each_task() is at, 0 when nobody searches
    call,        \* who searches for which child, and the pid it began with
    exhausted,   \* history: get_pid() has found no pid
    lapped,      \* history: the search went round while a fork was copying
    regrouped    \* history: a task got another group while it was forking

vars == <<tasks, copying, id, pidhash, last_pid, next_safe, at, call, exhausted, lapped, regrouped>>

Ids == [pid : 0 .. PID_MAX - 1, pgrp : 0 .. PID_MAX - 1,
        tgid : 0 .. PID_MAX - 1, session : 0 .. PID_MAX - 1]
NoIds == [pid |-> 0, pgrp |-> 0, tgid |-> 0, session |-> 0]

Linked == ToSet(tasks)
Copying == DOMAIN copying
Forking == {copying[c] : c \in Copying}
NoCall == [parent |-> InitTask, child |-> InitTask, beginpid |-> 0]

TypeOK ==
    /\ tasks \in Seq(Task) /\ IsInjective(tasks)
    /\ Copying \subseteq Task \ Linked /\ Forking \subseteq Linked
    /\ id \in [Task -> Ids]
    /\ pidhash \in [PidHash -> Seq(Task)]
    /\ last_pid \in 1 .. PID_MAX - 1 /\ next_safe \in 1 .. PID_MAX
    /\ at \in 0 .. Len(tasks) + 1
    /\ call \in [parent : Task, child : Task, beginpid : 0 .. PID_MAX - 1]
    /\ exhausted \in BOOLEAN /\ lapped \in BOOLEAN /\ regrouped \in BOOLEAN

Init ==
    /\ tasks = <<InitTask>>
    /\ copying = << >>
    /\ id = [t \in Task |-> IF t = InitTask THEN [NoIds EXCEPT !.pid = 1, !.tgid = 1] ELSE NoIds]
    /\ pidhash = [h \in PidHash |-> IF h = pid_hashfn[1] THEN <<InitTask>> ELSE << >>]
    /\ last_pid = 1 /\ next_safe = PID_MAX /\ at = 0 /\ call = NoCall
    /\ exhausted = FALSE /\ lapped = FALSE /\ regrouped = FALSE

-----------------------------------------------------------------------------
IdsOf(t) == {id[t].pid, id[t].pgrp, id[t].tgid, id[t].session}

\* Mutant: the first pid after the reserved ones is left out.
wrap_skips(n) == IF n >= PID_MAX THEN RESERVED + 1 ELSE n

wrap(n) == IF n >= PID_MAX THEN RESERVED ELSE n

\* Mutant: only pids are looked at.
lower_safe_pid(t, last, safe) == Min({safe} \cup {n \in {id[t].pid} : n > last})

\* The ids above last that are less than safe, and safe.
lower_safe(t, last, safe) == Min({safe} \cup {n \in IdsOf(t) : n > last})

\* hash_pid(), unhash_pid() and find_task_by_pid().
hash_pid(t) ==
    LET h == pid_hashfn[id'[t].pid] IN pidhash' = [pidhash EXCEPT ![h] = <<t>> \o @]

\* list without its entry t.
without(list, t) == RemoveAt(list, CHOOSE i \in 1 .. Len(list) : list[i] = t)

unhash_pid(t) ==
    LET h == pid_hashfn[id[t].pid] IN pidhash' = [pidhash EXCEPT ![h] = without(@, t)]

\* The first task on the chain that has the pid.
find_task_by_pid(pid) ==
    LET chain == pidhash[pid_hashfn[pid]]
        hits  == {i \in 1 .. Len(chain) : id[chain[i]].pid = pid}
    IN  {chain[i] : i \in {j \in hits : \A k \in hits : j <= k}}

-----------------------------------------------------------------------------
(* get_pid(), called by do_fork() of t for the child c.                    *)

\* One task searches at most, and do_fork() of one task is not called twice.
may_fork(t, c) == at = 0 /\ t \in Linked \ Forking /\ c \notin Linked \cup Copying

\* do_fork() to the point where c has its pid.  The other ids are the parent's.
start_copying(t, c, beginpid, pid) ==
    /\ id' = [id EXCEPT ![c] = [id[t] EXCEPT !.pid = pid]]
    /\ copying' = [u \in Copying \cup {c} |-> IF u = c THEN t ELSE copying[u]]
    /\ lapped' = (lapped \/ (Copying # {} /\ pid <= beginpid))
    /\ UNCHANGED <<tasks, pidhash, exhausted, regrouped>>

\* Mutant: only the wrap makes a search necessary.
must_search_at_wrap(n) == n >= PID_MAX

\* The two ways to the label inside.
must_search(n) == n >= PID_MAX \/ n >= next_safe

\* The next pid is taken at once, or is the first candidate of a search.
get_pid(t, c) ==
    /\ may_fork(t, c)
    /\ last_pid' = wrap(last_pid + 1)
    /\ IF must_search(last_pid + 1)
       THEN /\ next_safe' = PID_MAX
            /\ at' = 1 /\ call' = [parent |-> t, child |-> c, beginpid |-> last_pid]
            /\ UNCHANGED <<tasks, copying, id, pidhash, exhausted, lapped, regrouped>>
       ELSE /\ start_copying(t, c, last_pid, last_pid + 1)
            /\ UNCHANGED <<next_safe, at, call>>

\* The task at hand has the candidate as one of its ids: the next candidate,
\* with which for_each_task() begins again, or no pid at all.
repeat ==
    /\ at \in 1 .. Len(tasks) /\ last_pid \in IdsOf(tasks[at])
    /\ LET over == last_pid + 1 >= next_safe
       IN  /\ last_pid' = IF over THEN wrap(last_pid + 1) ELSE last_pid + 1
           /\ next_safe' = IF over THEN PID_MAX ELSE next_safe
    /\ IF last_pid' = call.beginpid
       THEN at' = 0 /\ call' = NoCall /\ exhausted' = TRUE
       ELSE at' = 1 /\ UNCHANGED <<call, exhausted>>
    /\ UNCHANGED <<tasks, copying, id, pidhash, lapped, regrouped>>

\* It does not: next_safe comes down to the ids of the task.
for_each_task ==
    /\ at \in 1 .. Len(tasks) /\ last_pid \notin IdsOf(tasks[at])
    /\ next_safe' = lower_safe(tasks[at], last_pid, next_safe)
    /\ at' = at + 1
    /\ UNCHANGED <<tasks, copying, id, pidhash, last_pid, call, exhausted, lapped, regrouped>>

\* Nobody has the candidate.
found ==
    /\ at = Len(tasks) + 1
    /\ start_copying(call.parent, call.child, call.beginpid, last_pid)
    /\ at' = 0 /\ call' = NoCall
    /\ UNCHANGED <<last_pid, next_safe>>

-----------------------------------------------------------------------------
(* The rest of do_fork(), and what others do with ids.                     *)

forget(c) == copying' = [u \in Copying \ {c} |-> copying[u]]

\* A copy fails: the pid is not used after all.
fork_fails(c) ==
    /\ at = 0 /\ c \in Copying
    /\ forget(c)
    /\ id' = [id EXCEPT ![c] = NoIds]
    /\ UNCHANGED <<tasks, pidhash, last_pid, next_safe, at, call, exhausted, lapped, regrouped>>

\* The end of do_fork(), with or without CLONE_THREAD.
SET_LINKS(c) ==
    /\ at = 0 /\ c \in Copying
    /\ \E tgid \in {id[c].pid, id[copying[c]].tgid} : id' = [id EXCEPT ![c].tgid = tgid]
    /\ tasks' = Append(tasks, c)
    /\ hash_pid(c)
    /\ forget(c)
    /\ UNCHANGED <<last_pid, next_safe, at, call, exhausted, lapped, regrouped>>

\* unhash_process(), when the parent has waited for it.
unhash_process(t) ==
    /\ at = 0 /\ t \in Linked \ (Forking \cup {InitTask})
    /\ tasks' = without(tasks, t)
    /\ unhash_pid(t)
    /\ id' = [id EXCEPT ![t] = NoIds]
    /\ UNCHANGED <<copying, last_pid, next_safe, at, call, exhausted, lapped, regrouped>>

\* setsid(), outside src/.
setsid(t) ==
    /\ at = 0 /\ t \in Linked \ Forking
    /\ \A u \in Linked : id[u].pgrp # id[t].pid
    /\ id' = [id EXCEPT ![t].pgrp = id[t].pid, ![t].session = id[t].pid]
    /\ UNCHANGED <<tasks, copying, pidhash, last_pid, next_safe, at, call, exhausted, lapped, regrouped>>

\* setpgid(), outside src/, by the task or its parent: a group of its own, or one
\* that is there in its session.
setpgid(t) ==
    /\ at = 0 /\ t \in Linked /\ id[t].session # id[t].pid
    /\ \E u \in Linked :
         /\ u = t \/ id[u].session = id[t].session
         /\ LET pgrp == IF u = t THEN id[t].pid ELSE id[u].pgrp
            IN  pgrp # id[t].pgrp /\ id' = [id EXCEPT ![t].pgrp = pgrp]
    /\ regrouped' = (regrouped \/ t \in Forking)
    /\ UNCHANGED <<tasks, copying, pidhash, last_pid, next_safe, at, call, exhausted, lapped>>

Next ==
    \/ repeat \/ for_each_task \/ found
    \/ \E t \in Task :
         \/ \E c \in Task : get_pid(t, c)
         \/ fork_fails(t) \/ SET_LINKS(t) \/ unhash_process(t)
         \/ setsid(t) \/ setpgid(t)

Spec == Init /\ [][Next]_vars

-----------------------------------------------------------------------------
InUse == UNION {IdsOf(t) : t \in Linked}

\* The allocator has never run dry, nor gone round during one fork().
Sane == ~exhausted /\ ~lapped

(***************************************************************************)
(* What next_safe stands for: no linked task uses an id between last_pid   *)
(* and next_safe, so those are handed out without a search.  A child that  *)
(* is linked later brings its pid, which is not above last_pid unless the  *)
(* search has gone round, and its parent's group, which the parent shows   *)
(* as long as it stays in it.                                              *)
(***************************************************************************)
CacheSound ==
    at = 0 /\ Sane /\ ~regrouped => InUse \cap (last_pid + 1 .. next_safe - 1) = {}

(***************************************************************************)
(* find_task_by_pid() finds every linked task by its pid, so that no two   *)
(* have the same, and finds nothing for a pid that no linked task has.     *)
(***************************************************************************)
FindsTheTask ==
    Sane => \A pid \in 1 .. PID_MAX - 1 :
                find_task_by_pid(pid) = {t \in Linked : id[t].pid = pid}

(***************************************************************************)
(* The answer of get_pid(), found with or without a search: a pid that no  *)
(* task has as its pid, group, thread group or session, not even one that  *)
(* is still being copied.  This is as long as get_pid() has not failed, no *)
(* search wrapped at PID_MAX while a child was being copied (both are      *)
(* Sane), and nobody changed group while it forked (regrouped).  And no    *)
(* answer only when every pid is in use but, maybe, the one that the       *)
(* search began with: the first failure may leave that one untried.        *)
(***************************************************************************)
RightAnswer ==
    [][/\ Sane' /\ ~regrouped =>
             \A c \in Copying' \ Copying, t \in Linked \cup Copying : id'[c].pid \notin IdsOf(t)
       /\ Sane /\ exhausted' =>
             RESERVED .. PID_MAX - 1 \subseteq InUse \cup {call.beginpid}]_vars
=============================================================================
