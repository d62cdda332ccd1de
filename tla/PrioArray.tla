----------------------------- MODULE PrioArray -----------------------------
(***************************************************************************)
(* The priority arrays of a runqueue (struct prio_array in sched.c) and    *)
(* the list primitives of list.h that the scheduler applies to them.       *)
(*                                                                         *)
(* A prio_array keeps the same information three times: the lists          *)
(* themselves, a bitmap with one bit per non-empty list, and a counter of  *)
(* the tasks linked on any of its lists.  schedule() trusts the counter to *)
(* choose an array, the bitmap to choose a list, and the list to choose a  *)
(* task, so the scheduler is only correct while the three agree.           *)
(***************************************************************************)
EXTENDS Integers, FiniteSets, SequencesExt

CONSTANTS
    Task,        \* the task_structs that can be linked on a run list
    MAX_PRIO     \* number of priority levels; level 0 is the best

ASSUME TaskAssumption == IsFiniteSet(Task)
ASSUME MaxPrioAssumption == MAX_PRIO \in Nat \ {0}

Prio == 0 .. MAX_PRIO - 1

(***************************************************************************)
(* The four arrays of struct runqueue: arrays[0] and arrays[1], which      *)
(* rq->active and rq->expired point to in turn, and the two shortArrays.   *)
(* NULL is the value of p->array for a task that is not runnable.          *)
(***************************************************************************)
ArrayId == {"array0", "array1", "rt_short", "overdue"}
NULL == "NULL"

prio_array == [nr_active : Int, bitmap : SUBSET Prio, queue : [Prio -> Seq(Task)]]

\* An array as sched_init() leaves it.
EmptyArray == [nr_active |-> 0, bitmap |-> {}, queue |-> [k \in Prio |-> << >>]]

-----------------------------------------------------------------------------
(* list.h: lists are circular with a head node; a list is the sequence of  *)
(* its entries in the order the head's next pointers visit them.           *)

\* list_del(entry), for an entry of list q.
list_del(q, p) == RemoveAt(q, CHOOSE i \in 1 .. Len(q) : q[i] = p)

\* list_add(entry, head): directly behind the head.
list_add(q, p) == InsertAt(q, 1, p)

\* list_add_tail(entry, head): directly before the head.
list_add_tail(q, p) == Append(q, p)

\* list_add(entry, head->next): behind the first entry, and behind the head
\* itself when the list is empty, because head->next is then the head.
list_add_second(q, p) == InsertAt(q, IF q = << >> THEN 1 ELSE 2, p)

-----------------------------------------------------------------------------
(* Operations on the four arrays; arrays is a function from ArrayId.       *)

\* sched_find_first_bit(): the lowest set bit; sched_init() leaves the
\* delimiter bit MAX_PRIO set in every bitmap.
sched_find_first_bit(bitmap) == IF bitmap = {} THEN MAX_PRIO ELSE Min(bitmap)

(***************************************************************************)
(* dequeue_task(p, array).  list_del() takes p off the list it is linked   *)
(* on, which is list k of array "home"; the counter and the bitmap updated *)
(* are those of the array passed in.                                       *)
(***************************************************************************)
unlink(arrays, home, k, p) ==
    [arrays EXCEPT ![home].queue[k] = list_del(@, p)]

account_dequeue(arrays, array, k) ==
    [arrays EXCEPT ![array] =
        [nr_active |-> @.nr_active - 1,
         bitmap    |-> IF @.queue[k] = << >> THEN @.bitmap \ {k} ELSE @.bitmap,
         queue     |-> @.queue]]

array_dequeue(arrays, home, array, k, p) ==
    account_dequeue(unlink(arrays, home, k, p), array, k)

\* enqueue_task(): q is the list with p already linked on it.
array_enqueue(arrays, array, k, q) ==
    [arrays EXCEPT ![array] =
        [nr_active |-> @.nr_active + 1,
         bitmap    |-> @.bitmap \cup {k},
         queue     |-> [@.queue EXCEPT ![k] = q]]]

\* sys_sched_yield() links a task it unlinked before, without counting it.
array_relink(arrays, array, k, bitmap, q) ==
    [arrays EXCEPT ![array] =
        [nr_active |-> @.nr_active,
         bitmap    |-> bitmap,
         queue     |-> [@.queue EXCEPT ![k] = q]]]

-----------------------------------------------------------------------------
(***************************************************************************)
(* The three copies agree, with each other and with where the tasks say    *)
(* they are.  on[p] is p->array and at[p] is p->prio.                      *)
(***************************************************************************)
OnArray(on, a) == {p \in Task : on[p] = a}

InList(q, p) == \E i \in 1 .. Len(q) : q[i] = p

ListsExact(on, at, arrays) ==
    \A a \in ArrayId, k \in Prio :
        /\ IsInjective(arrays[a].queue[k])
        /\ \A p \in Task : InList(arrays[a].queue[k], p) <=> on[p] = a /\ at[p] = k

BitmapsExact(arrays) ==
    \A a \in ArrayId, k \in Prio :
        k \in arrays[a].bitmap <=> arrays[a].queue[k] # << >>

CountersExact(on, arrays) ==
    \A a \in ArrayId : arrays[a].nr_active = Cardinality(OnArray(on, a))

ArraysExact(on, at, arrays) ==
    /\ ListsExact(on, at, arrays)
    /\ BitmapsExact(arrays)
    /\ CountersExact(on, arrays)
=============================================================================
