----------------------------- MODULE HomeProofs -----------------------------
(***************************************************************************)
(* Theorems about Sched that relate a task_struct to the array it is on:   *)
(* a runnable task waits on the array of its class, nr_uninterruptible     *)
(* counts the sleepers, and schedule() picks the best task.  The kernel    *)
(* functions are described by the traits they give the task they move and  *)
(* by the array they leave it on.  Once a task was misfiled the arrays     *)
(* are of no interest, but the traits are.                                 *)
(***************************************************************************)
EXTENDS SchedProofs

\* What dequeue_task() and enqueue_task() leave of a task_struct.
Traits(t) ==
    <<t.state, t.policy, t.iAmOverdue, t.prio, t.static_prio, t.overdue_static_prio, t.p_opptr>>

\* A kernel state the functions are applied to.
Fit(S) ==
    /\ Records(S)
    /\ S.rq.panic = "none" \/ S.rq.misfiled
    /\ S.rq.active \in {"array0", "array1"} /\ S.rq.curr \in AllTask
    /\ \A q \in AllTask : S.task[q].p_opptr \in AllTask

\* S2 is S, but the task p has the traits of t and is on the array of t.
Moved(S, S2, p, t) ==
    /\ Fit(S2)
    /\ S2.rq.curr = S.rq.curr /\ S2.rq.active = S.rq.active
    /\ S.rq.misfiled => S2.rq.misfiled
    /\ \A q \in AllTask : Traits(S2.task[q]) = IF q = p THEN Traits(t) ELSE Traits(S.task[q])
    /\ ~S2.rq.misfiled =>
         \A q \in AllTask : S2.task[q].array = IF q = p THEN t.array ELSE S.task[q].array

Rests(S, S2) == \A p \in AllTask : Moved(S, S2, p, S.task[p])

SameLoad(S, S2) == S2.rq.nr_uninterruptible = S.rq.nr_uninterruptible

LEMMA RestsIf ==
    ASSUME NEW S, NEW S2, NEW p, Moved(S, S2, p, S.task[p])
    PROVE  Rests(S, S2)
  BY DEF Rests, Moved

LEMMA RestsRefl == ASSUME NEW S, Fit(S) PROVE Rests(S, S)
  BY DEF Rests, Moved

LEMMA RestsTrans ==
    ASSUME NEW S, NEW S1, NEW S2, Rests(S, S1), Rests(S1, S2)
    PROVE  Rests(S, S2)
<1> SUFFICES ASSUME NEW p \in AllTask PROVE Moved(S, S2, p, S.task[p])
  BY DEF Rests
<1>1. Moved(S, S1, p, S.task[p]) /\ Moved(S1, S2, p, S1.task[p])
  BY DEF Rests
<1> QED BY <1>1 DEF Moved

\* One move, and what comes before and after it.
LEMMA MovedBefore ==
    ASSUME NEW S, NEW S1, NEW S2, NEW p \in AllTask, NEW t, Rests(S, S1), Moved(S1, S2, p, t)
    PROVE  Moved(S, S2, p, t)
<1>1. Moved(S, S1, p, S.task[p])
  BY DEF Rests
<1> QED BY <1>1 DEF Moved

LEMMA MovedAfter ==
    ASSUME NEW S, NEW S1, NEW S2, NEW p \in AllTask, NEW t, Moved(S, S1, p, t), Rests(S1, S2)
    PROVE  Moved(S, S2, p, t)
<1>1. Moved(S1, S2, p, S1.task[p])
  BY DEF Rests
<1> QED BY <1>1 DEF Moved

LEMMA MovedTrans ==
    ASSUME NEW S, NEW S1, NEW S2, NEW p, NEW t1, NEW t2,
           Moved(S, S1, p, t1), Moved(S1, S2, p, t2)
    PROVE  Moved(S, S2, p, t2)
  BY DEF Moved

\* Only traits and array of t matter, and the array only until a task is misfiled.
LEMMA MovedAs ==
    ASSUME NEW S, NEW S2, NEW p, NEW t, NEW u, Moved(S, S2, p, t),
           Traits(t) = Traits(u), ~S2.rq.misfiled => t.array = u.array
    PROVE  Moved(S, S2, p, u)
  BY DEF Moved

\* One task_struct is replaced.
LEMMA MovedPut ==
    ASSUME NEW S, Fit(S), NEW p \in AllTask, NEW t, IsStruct(t), t.p_opptr \in AllTask
    PROVE  /\ Moved(S, put_task(S, p, t), p, t) /\ SameLoad(S, put_task(S, p, t))
           /\ put_task(S, p, t).rq = S.rq
           /\ \A q \in AllTask : put_task(S, p, t).task[q] = IF q = p THEN t ELSE S.task[q]
<1> DEFINE S2 == put_task(S, p, t)
<1>1. S2.rq = S.rq /\ S2.task = [S.task EXCEPT ![p] = t]
  BY DEF put_task
<1> HIDE DEF S2
<1>2. /\ DOMAIN S2.task = AllTask
      /\ \A q \in AllTask : S2.task[q] = IF q = p THEN t ELSE S.task[q]
  BY <1>1 DEF Fit, Records
<1>3. Fit(S2)
  BY <1>1, <1>2 DEF Fit, Records
<1> QED BY <1>1, <1>2, <1>3 DEF Moved, SameLoad, S2

LEMMA RestsRq ==
    ASSUME NEW S, Fit(S), NEW r, IsRunqueue(r), r.curr = S.rq.curr, r.active = S.rq.active,
           S.rq.misfiled => r.misfiled, r.panic = "none" \/ r.misfiled
    PROVE  Rests(S, put_rq(S, r))
<1>1. put_rq(S, r).rq = r /\ put_rq(S, r).task = S.task
  BY DEF put_rq
<1> QED BY <1>1 DEF Rests, Moved, Fit, Records

-----------------------------------------------------------------------------
(* The functions that move tasks between the arrays.                       *)

LEMMA RestsDequeue ==
    ASSUME NEW S, Fit(S), NEW p, NEW array, array # NULL
    PROVE  LET S2 == dequeue_task(S, p, array)
           IN  /\ Rests(S, S2) /\ SameLoad(S, S2) /\ S2.task = S.task
               /\ ~S2.rq.misfiled => S.task[p].array = array
               /\ S.task[p].array = array /\ S2.rq.misfiled => S.rq.misfiled
<1> DEFINE t == S.task[p]
           r1 == [S.rq EXCEPT !.panic = "list", !.misfiled = TRUE]
           r2 == [S.rq EXCEPT !.arrays = array_dequeue(@, t.array, array, t.prio, p),
                              !.misfiled = @ \/ t.array # array]
           S2 == dequeue_task(S, p, array)
<1>1. IsRunqueue(S.rq)
  BY DEF Fit, Records
<1>2. /\ IsRunqueue(r1) /\ r1.curr = S.rq.curr /\ r1.active = S.rq.active /\ r1.misfiled
      /\ r1.nr_uninterruptible = S.rq.nr_uninterruptible
  BY <1>1 DEF IsRunqueue
<1>3. /\ IsRunqueue(r2) /\ r2.curr = S.rq.curr /\ r2.active = S.rq.active
      /\ r2.misfiled = (S.rq.misfiled \/ t.array # array)
      /\ r2.panic = S.rq.panic /\ r2.nr_uninterruptible = S.rq.nr_uninterruptible
  BY <1>1 DEF IsRunqueue
<1>4. S2 = IF t.array = NULL THEN put_rq(S, r1) ELSE put_rq(S, r2)
  BY DEF dequeue_task
<1> HIDE DEF r1, r2, S2
<1>5. \A r : put_rq(S, r).rq = r /\ put_rq(S, r).task = S.task
  BY DEF put_rq
<1>6. CASE t.array = NULL
  <2>1. S2 = put_rq(S, r1) /\ S2.rq = r1 /\ S2.task = S.task
    BY <1>4, <1>5, <1>6
  <2>2. Rests(S, S2)
    BY <1>2, <2>1, RestsRq
  <2> QED BY <1>2, <1>6, <2>1, <2>2 DEF SameLoad, S2
<1>7. CASE t.array # NULL
  <2>1. S2 = put_rq(S, r2) /\ S2.rq = r2 /\ S2.task = S.task
    BY <1>4, <1>5, <1>7
  <2>2. r2.panic = "none" \/ r2.misfiled
    BY <1>3 DEF Fit
  <2>3. Rests(S, S2)
    BY <1>3, <2>1, <2>2, RestsRq
  <2>4. ~S2.rq.misfiled => S.task[p].array = array
    BY <1>3, <2>1
  <2>5. S.task[p].array = array /\ S2.rq.misfiled => S.rq.misfiled
    BY <1>3, <2>1
  <2> QED BY <1>3, <2>1, <2>3, <2>4, <2>5 DEF SameLoad, S2
<1> QED BY <1>6, <1>7

\* No task is flagged by do_fork() that was not.
FlagsFall(S, S2) ==
    \A q \in AllTask : S2.task[q].justGotForked => S.task[q].justGotForked

Onto(t, array) == [t EXCEPT !.array = array]

LEMMA OntoTraits ==
    ASSUME NEW t, IsStruct(t), NEW array
    PROVE  /\ IsStruct(Onto(t, array)) /\ Onto(t, array).array = array
           /\ Traits(Onto(t, array)) = Traits(t)
           /\ Onto(t, array).p_opptr = t.p_opptr
           /\ Onto(t, array).justGotForked = t.justGotForked
  BY DEF Onto, Traits, IsStruct

LEMMA MovedEnqueueWith ==
    ASSUME NEW S, Fit(S), NEW p \in AllTask, NEW array, NEW q
    PROVE  LET S2 == enqueue_with(S, p, array, q)
           IN  /\ Moved(S, S2, p, Onto(S.task[p], array))
               /\ SameLoad(S, S2) /\ FlagsFall(S, S2) /\ S2.rq.misfiled = S.rq.misfiled
<1> DEFINE t == Onto(S.task[p], array)
           S1 == put_task(S, p, t)
           r == [S.rq EXCEPT !.arrays = array_enqueue(@, array, S.task[p].prio, q)]
<1>1. IsStruct(S.task[p]) /\ S.task[p].p_opptr \in AllTask /\ IsRunqueue(S.rq)
  BY DEF Fit, Records
<1>2. /\ IsStruct(t) /\ t.p_opptr \in AllTask
      /\ t.justGotForked = S.task[p].justGotForked
  BY <1>1, OntoTraits
<1>3. /\ IsRunqueue(r) /\ r.curr = S.rq.curr /\ r.active = S.rq.active
      /\ r.misfiled = S.rq.misfiled /\ r.panic = S.rq.panic
      /\ r.nr_uninterruptible = S.rq.nr_uninterruptible
  BY <1>1 DEF IsRunqueue
<1>4. enqueue_with(S, p, array, q) = put_rq(S1, r)
  BY DEF enqueue_with, Onto
<1> HIDE DEF t, r
<1>5. /\ Moved(S, S1, p, t) /\ S1.rq = S.rq
      /\ \A x \in AllTask : S1.task[x] = IF x = p THEN t ELSE S.task[x]
  BY <1>1, <1>2, MovedPut
<1> HIDE DEF S1
<1>6. Rests(S1, put_rq(S1, r))
  BY <1>3, <1>5, RestsRq DEF Moved, Fit
<1>7. Moved(S, put_rq(S1, r), p, t)
  BY <1>5, <1>6, MovedAfter
<1>8. put_rq(S1, r).rq = r /\ put_rq(S1, r).task = S1.task
  BY DEF put_rq
<1> QED BY <1>2, <1>3, <1>4, <1>5, <1>7, <1>8 DEF SameLoad, FlagsFall, t

LEMMA MovedEnqueueEnds ==
    ASSUME NEW S, Fit(S), NEW p \in AllTask, NEW array
    PROVE  /\ LET S2 == enqueue_head(S, p, array)
              IN  /\ Moved(S, S2, p, Onto(S.task[p], array))
                  /\ SameLoad(S, S2) /\ FlagsFall(S, S2) /\ S2.rq.misfiled = S.rq.misfiled
           /\ LET S2 == enqueue_tail(S, p, array)
              IN  /\ Moved(S, S2, p, Onto(S.task[p], array))
                  /\ SameLoad(S, S2) /\ FlagsFall(S, S2) /\ S2.rq.misfiled = S.rq.misfiled
<1>1. \A q : LET S2 == enqueue_with(S, p, array, q)
             IN  /\ Moved(S, S2, p, Onto(S.task[p], array))
                 /\ SameLoad(S, S2) /\ FlagsFall(S, S2) /\ S2.rq.misfiled = S.rq.misfiled
  BY MovedEnqueueWith
<1> QED BY <1>1 DEF enqueue_head, enqueue_tail

\* The nested dequeue_task() is harmless when the parent is on the array named.
LEMMA RestsDequeueParent ==
    ASSUME NEW S, Fit(S), NEW p \in AllTask, NEW array, array # NULL
    PROVE  LET S2 == dequeue_parent(S, p, array)
               parent == S.task[p].p_opptr
           IN  /\ Rests(S, S2) /\ SameLoad(S, S2) /\ FlagsFall(S, S2)
               /\ ~S2.task[parent].justGotForked
               /\ ~S2.rq.misfiled => S.task[parent].array = array
               /\ S.task[parent].array = array /\ S2.rq.misfiled => S.rq.misfiled
<1> DEFINE parent == S.task[p].p_opptr
           t == [S.task[parent] EXCEPT !.justGotForked = FALSE]
           S1 == put_task(S, parent, t)
           S2 == dequeue_task(S1, parent, array)
<1>1. parent \in AllTask /\ IsStruct(S.task[parent]) /\ S.task[parent].p_opptr \in AllTask
  BY DEF Fit, Records
<1>2. /\ IsStruct(t) /\ t.p_opptr \in AllTask /\ ~t.justGotForked
      /\ t.array = S.task[parent].array /\ Traits(t) = Traits(S.task[parent])
  BY <1>1 DEF Traits, IsStruct
<1> HIDE DEF t, parent
<1>3. /\ Moved(S, S1, parent, t) /\ SameLoad(S, S1) /\ S1.rq = S.rq
      /\ \A x \in AllTask : S1.task[x] = IF x = parent THEN t ELSE S.task[x]
  BY <1>1, <1>2, MovedPut
<1> HIDE DEF S1
<1>4. Rests(S, S1)
  <2>1. Moved(S, S1, parent, S.task[parent])
    BY <1>2, <1>3, MovedAs
  <2> QED BY <2>1, RestsIf
<1>5. /\ Rests(S1, S2) /\ SameLoad(S1, S2) /\ S2.task = S1.task
      /\ ~S2.rq.misfiled => S1.task[parent].array = array
      /\ S1.task[parent].array = array /\ S2.rq.misfiled => S1.rq.misfiled
  BY <1>3, RestsDequeue DEF Moved
<1>6. dequeue_parent(S, p, array) = S2
  BY DEF dequeue_parent, S2, S1, t, parent
<1> HIDE DEF S2
<1>7. Rests(S, S2)
  BY <1>4, <1>5, RestsTrans
<1>8. FlagsFall(S, S2) /\ ~S2.task[parent].justGotForked
  BY <1>1, <1>2, <1>3, <1>5 DEF FlagsFall
<1> QED BY <1>1, <1>2, <1>3, <1>5, <1>6, <1>7, <1>8 DEF SameLoad, parent

\* A child goes on its list when its parent has been put back.
LEMMA MovedChild ==
    ASSUME NEW S, Fit(S), NEW p \in AllTask, NEW array, array # NULL, NEW S1, NEW S2,
           S1 = dequeue_parent(S, p, array),
           Moved(S1, S2, S.task[p].p_opptr, Onto(S1.task[S.task[p].p_opptr], array)),
           SameLoad(S1, S2), FlagsFall(S1, S2)
    PROVE  LET S3 == enqueue_child(S1, S2, p, array)
               parent == S.task[p].p_opptr
           IN  /\ Moved(S, S3, p, Onto(S.task[p], array))
               /\ SameLoad(S, S3) /\ FlagsFall(S, S3) /\ ~S3.task[parent].justGotForked
               /\ S.task[parent].array = array /\ (S2.rq.misfiled => S1.rq.misfiled)
                  /\ S3.rq.misfiled => S.rq.misfiled
<1> DEFINE parent == S.task[p].p_opptr
           S3 == enqueue_child(S1, S2, p, array)
           S4 == enqueue_head(S2, p, array)
<1>1. /\ Rests(S, S1) /\ SameLoad(S, S1) /\ FlagsFall(S, S1)
      /\ ~S1.task[parent].justGotForked
      /\ ~S1.rq.misfiled => S.task[parent].array = array
      /\ S.task[parent].array = array /\ S1.rq.misfiled => S.rq.misfiled
  BY RestsDequeueParent
<1>2. parent \in AllTask /\ p \in AllTask /\ IsStruct(S.task[p])
  BY DEF Fit, Records
<1>3. S3 = IF S1.rq.panic # "none" THEN S1 ELSE S4
  BY DEF enqueue_child
<1>4. Moved(S1, S2, parent, Onto(S1.task[parent], array))
  OBVIOUS
<1> HIDE DEF S3, parent
<1>5. Fit(S1) /\ Moved(S, S1, p, S.task[p])
  BY <1>1 DEF Rests, Moved
<1>6. Rests(S1, S2)
  <2>1. IsStruct(S1.task[parent])
    BY <1>2, <1>5 DEF Fit, Records
  <2>2. ~S2.rq.misfiled => S1.task[parent].array = array
    <3>1. ~S2.rq.misfiled => ~S1.rq.misfiled
      BY <1>4 DEF Moved
    <3>2. Moved(S, S1, parent, S.task[parent])
      BY <1>1, <1>2 DEF Rests
    <3>3. ~S1.rq.misfiled => S1.task[parent].array = S.task[parent].array
      BY <1>2, <3>2 DEF Moved
    <3> QED BY <1>1, <3>1, <3>3
  <2>3. Moved(S1, S2, parent, S1.task[parent])
    BY <1>4, <2>1, <2>2, OntoTraits, MovedAs
  <2> QED BY <2>3, RestsIf
<1>7. CASE S1.rq.panic # "none"
  <2>1. S3 = S1 /\ S1.rq.misfiled
    BY <1>3, <1>5, <1>7 DEF Fit
  <2>2. Traits(S.task[p]) = Traits(Onto(S.task[p], array))
    BY <1>2, OntoTraits
  <2>3. Moved(S, S1, p, Onto(S.task[p], array))
    BY <1>5, <2>1, <2>2, MovedAs
  <2> QED BY <1>1, <2>1, <2>3 DEF S3, parent
<1>8. CASE S1.rq.panic = "none"
  <2>1. S3 = S4
    BY <1>3, <1>8
  <2>2. /\ Moved(S2, S4, p, Onto(S2.task[p], array))
        /\ SameLoad(S2, S4) /\ FlagsFall(S2, S4) /\ S4.rq.misfiled = S2.rq.misfiled
    BY <1>4, MovedEnqueueEnds DEF Moved
  <2> HIDE DEF S4
  <2>3. Rests(S, S2)
    BY <1>1, <1>6, RestsTrans
  <2>4. Moved(S, S4, p, Onto(S2.task[p], array))
    BY <2>2, <2>3, MovedBefore
  <2>5. Traits(Onto(S2.task[p], array)) = Traits(Onto(S.task[p], array))
        /\ Onto(S2.task[p], array).array = Onto(S.task[p], array).array
    <3>1. Fit(S2) /\ Moved(S, S2, p, S.task[p])
      BY <1>4, <2>3 DEF Rests, Moved
    <3>2. IsStruct(S2.task[p]) /\ Traits(S2.task[p]) = Traits(S.task[p])
      BY <3>1 DEF Fit, Records, Moved
    <3> QED BY <1>2, <3>2, OntoTraits
  <2>6. Moved(S, S4, p, Onto(S.task[p], array))
    BY <2>4, <2>5, MovedAs
  <2>7. FlagsFall(S, S4)
    BY <1>1, <2>2 DEF FlagsFall
  <2>8. ~S4.task[parent].justGotForked
    BY <1>1, <1>2, <2>2 DEF FlagsFall
  <2>9. SameLoad(S, S4)
    BY <1>1, <2>2 DEF SameLoad
  <2> QED BY <1>1, <2>1, <2>2, <2>6, <2>7, <2>8, <2>9 DEF S3, parent
<1> QED BY <1>7, <1>8

\* The task do_fork() flagged, if it runs, is the parent of p and is on array.
OwnChild(S, p, array) ==
    S.task[S.rq.curr].justGotForked =>
        S.task[p].p_opptr = S.rq.curr /\ S.task[S.rq.curr].array = array

LEMMA MovedAncestor ==
    ASSUME NEW S, Fit(S), NEW p \in AllTask, NEW array, array # NULL
    PROVE  LET S2 == enqueue_ancestor(S, p, array)
           IN  /\ Moved(S, S2, p, Onto(S.task[p], array))
               /\ SameLoad(S, S2) /\ FlagsFall(S, S2)
               /\ OwnChild(S, p, array) /\ S2.rq.misfiled => S.rq.misfiled
<1> DEFINE parent == S.task[p].p_opptr
           S1 == dequeue_parent(S, p, array)
           S2 == enqueue_tail(S1, parent, array)
<1>1. CASE forked_by_short(S, p)
  <2>1. enqueue_ancestor(S, p, array) = enqueue_child(S1, S2, p, array)
    BY <1>1 DEF enqueue_ancestor
  <2>2. parent \in AllTask /\ Fit(S1)
    BY RestsDequeueParent DEF Rests, Moved, Fit
  <2> HIDE DEF S1
  <2>3. /\ Moved(S1, S2, parent, Onto(S1.task[parent], array))
        /\ SameLoad(S1, S2) /\ FlagsFall(S1, S2) /\ S2.rq.misfiled = S1.rq.misfiled
    BY <2>2, MovedEnqueueEnds
  <2> HIDE DEF S2
  <2>4. LET S3 == enqueue_child(S1, S2, p, array)
        IN  /\ Moved(S, S3, p, Onto(S.task[p], array))
            /\ SameLoad(S, S3) /\ FlagsFall(S, S3)
            /\ S.task[parent].array = array /\ S3.rq.misfiled => S.rq.misfiled
    BY <2>3, MovedChild DEF S1
  <2>5. OwnChild(S, p, array) => S.task[parent].array = array
    BY <1>1 DEF OwnChild, forked_by_short
  <2> QED BY <2>1, <2>4, <2>5
<1>2. CASE ~forked_by_short(S, p)
  <2>1. enqueue_ancestor(S, p, array) = enqueue_tail(S, p, array)
    BY <1>2 DEF enqueue_ancestor
  <2> QED BY <2>1, MovedEnqueueEnds
<1> QED BY <1>1, <1>2

LEMMA MovedEnqueue ==
    ASSUME NEW S, Fit(S), NEW p \in AllTask, NEW array, array # NULL
    PROVE  LET S2 == enqueue_task(S, p, array)
           IN  /\ Moved(S, S2, p, Onto(S.task[p], array))
               /\ SameLoad(S, S2) /\ FlagsFall(S, S2)
               /\ OwnChild(S, p, array) /\ S2.rq.misfiled => S.rq.misfiled
               /\ forked_by_short(S, p) => ~S2.task[S.task[p].p_opptr].justGotForked
<1> DEFINE parent == S.task[p].p_opptr
           S1 == dequeue_parent(S, p, array)
           S2 == enqueue_ancestor(S1, parent, array)
<1>1. CASE forked_by_short(S, p)
  <2>1. enqueue_task(S, p, array) = enqueue_child(S1, S2, p, array)
    BY <1>1 DEF enqueue_task
  <2>2. /\ parent \in AllTask /\ Fit(S1) /\ S1.rq.curr = S.rq.curr
        /\ ~S1.task[parent].justGotForked
    BY RestsDequeueParent DEF Rests, Moved, Fit
  <2> HIDE DEF S1
  <2>3. /\ Moved(S1, S2, parent, Onto(S1.task[parent], array))
        /\ SameLoad(S1, S2) /\ FlagsFall(S1, S2)
        /\ OwnChild(S1, parent, array) /\ S2.rq.misfiled => S1.rq.misfiled
    BY <2>2, MovedAncestor
  <2> HIDE DEF S2
  <2>4. LET S3 == enqueue_child(S1, S2, p, array)
        IN  /\ Moved(S, S3, p, Onto(S.task[p], array))
            /\ SameLoad(S, S3) /\ FlagsFall(S, S3) /\ ~S3.task[parent].justGotForked
            /\ S.task[parent].array = array /\ (S2.rq.misfiled => S1.rq.misfiled)
               /\ S3.rq.misfiled => S.rq.misfiled
    BY <2>3, MovedChild DEF S1
  <2>5. OwnChild(S, p, array) => S.task[parent].array = array /\ OwnChild(S1, parent, array)
    BY <1>1, <2>2 DEF OwnChild, forked_by_short
  <2> QED BY <2>1, <2>3, <2>4, <2>5
<1>2. CASE ~forked_by_short(S, p)
  <2>1. enqueue_task(S, p, array) = enqueue_tail(S, p, array)
    BY <1>2 DEF enqueue_task
  <2> QED BY <1>2, <2>1, MovedEnqueueEnds
<1> QED BY <1>1, <1>2

Pointer(S, p) == pointer_to_my_active_prio_array(S.task[p], S)

LEMMA PointerNotNull == ASSUME NEW S, Fit(S), NEW t
                        PROVE  /\ pointer_to_my_active_prio_array(t, S) # NULL
                               /\ expired(S) # NULL /\ expired(S) # S.rq.active
                               /\ expired(S) \in {"array0", "array1"}
  BY DEF pointer_to_my_active_prio_array, expired, NULL, Fit

LEMMA RestsResched ==
    ASSUME NEW S, Fit(S)
    PROVE  LET S2 == set_need_resched(S)
           IN Rests(S, S2) /\ SameLoad(S, S2) /\ FlagsFall(S, S2) /\ S2.rq = S.rq
<1> DEFINE p == S.rq.curr
           t == [S.task[p] EXCEPT !.need_resched = TRUE]
<1>1. p \in AllTask /\ IsStruct(S.task[p]) /\ S.task[p].p_opptr \in AllTask
  BY DEF Fit, Records
<1>2. /\ IsStruct(t) /\ t.p_opptr \in AllTask /\ t.array = S.task[p].array
      /\ Traits(t) = Traits(S.task[p]) /\ t.justGotForked = S.task[p].justGotForked
  BY <1>1 DEF Traits, IsStruct
<1>3. set_need_resched(S) = put_task(S, p, t)
  BY DEF set_need_resched
<1> HIDE DEF t, p
<1>4. /\ Moved(S, put_task(S, p, t), p, t) /\ SameLoad(S, put_task(S, p, t))
      /\ put_task(S, p, t).rq = S.rq
      /\ \A q \in AllTask : put_task(S, p, t).task[q] = IF q = p THEN t ELSE S.task[q]
  BY <1>1, <1>2, MovedPut
<1>5. Moved(S, put_task(S, p, t), p, S.task[p])
  BY <1>2, <1>4, MovedAs
<1> QED BY <1>2, <1>3, <1>4, <1>5, RestsIf DEF FlagsFall

\* activate_task() chooses the array before it changes the priority.
LEMMA MovedActivate ==
    ASSUME NEW S, Fit(S), NEW p \in AllTask, NEW k
    PROVE  LET S2 == activate_task(S, p, k)
           IN  /\ Moved(S, S2, p, [S.task[p] EXCEPT !.prio = k, !.array = Pointer(S, p)])
               /\ SameLoad(S, S2) /\ FlagsFall(S, S2)
               /\ OwnChild(S, p, Pointer(S, p)) /\ S2.rq.misfiled => S.rq.misfiled
               /\ forked_by_short(S, p) => ~S2.task[S.task[p].p_opptr].justGotForked
<1> DEFINE array == Pointer(S, p)
           t == [S.task[p] EXCEPT !.prio = k]
           u == [S.task[p] EXCEPT !.prio = k, !.array = array]
           S1 == put_task(S, p, t)
           S2 == enqueue_task(S1, p, array)
           r == [S2.rq EXCEPT !.nr_running = @ + 1]
<1>1. array # NULL
  BY PointerNotNull DEF Pointer
<1>2. activate_task(S, p, k) = put_rq(S2, r)
  BY DEF activate_task, Pointer
<1> HIDE DEF array
<1>3. /\ IsStruct(S.task[p]) /\ S.task[p].p_opptr \in AllTask
  BY DEF Fit, Records
<1>4. /\ IsStruct(t) /\ t.p_opptr = S.task[p].p_opptr /\ IsStruct(u) /\ u.array = array
      /\ Traits(u) = Traits(t) /\ t.array = S.task[p].array
      /\ t.justGotForked = S.task[p].justGotForked
      /\ t.iAmOverdue = S.task[p].iAmOverdue /\ t.policy = S.task[p].policy
  BY <1>3 DEF Traits, IsStruct
<1> HIDE DEF t, u
<1>5. /\ Moved(S, S1, p, t) /\ SameLoad(S, S1)
      /\ S1.rq = S.rq
      /\ \A q \in AllTask : S1.task[q] = IF q = p THEN t ELSE S.task[q]
  BY <1>3, <1>4, MovedPut
<1>6. FlagsFall(S, S1)
  BY <1>4, <1>5 DEF FlagsFall
<1>7. /\ S1.task[p].p_opptr = S.task[p].p_opptr
      /\ OwnChild(S, p, array) => OwnChild(S1, p, array)
      /\ forked_by_short(S, p) => forked_by_short(S1, p)
  <2>1. S.rq.curr \in AllTask
    BY DEF Fit
  <2> QED BY <1>3, <1>4, <1>5, <2>1 DEF OwnChild, forked_by_short
<1> HIDE DEF S1
<1>8. /\ Moved(S1, S2, p, Onto(S1.task[p], array))
      /\ SameLoad(S1, S2) /\ FlagsFall(S1, S2)
      /\ OwnChild(S1, p, array) /\ S2.rq.misfiled => S1.rq.misfiled
      /\ forked_by_short(S1, p) => ~S2.task[S1.task[p].p_opptr].justGotForked
  BY <1>1, <1>5, MovedEnqueue DEF Moved
<1> HIDE DEF S2
<1>9. Moved(S, S2, p, u)
  <2>1. Moved(S, S2, p, Onto(S1.task[p], array))
    BY <1>5, <1>8, MovedTrans
  <2>2. /\ Traits(Onto(S1.task[p], array)) = Traits(u)
        /\ Onto(S1.task[p], array).array = u.array
    BY <1>4, <1>5, OntoTraits
  <2> QED BY <2>1, <2>2, MovedAs
<1>10. /\ IsRunqueue(r) /\ r.curr = S2.rq.curr /\ r.active = S2.rq.active
       /\ r.misfiled = S2.rq.misfiled /\ r.panic = S2.rq.panic
       /\ r.nr_uninterruptible = S2.rq.nr_uninterruptible
  BY <1>9 DEF Moved, Fit, Records, IsRunqueue
<1> HIDE DEF r
<1>11. /\ put_rq(S2, r).rq = r /\ put_rq(S2, r).task = S2.task
  BY DEF put_rq
<1>12. Moved(S, put_rq(S2, r), p, u)
  <2>1. Rests(S2, put_rq(S2, r))
    BY <1>9, <1>10, RestsRq DEF Moved, Fit
  <2> QED BY <1>9, <2>1, MovedAfter
<1>13. SameLoad(S, put_rq(S2, r)) /\ FlagsFall(S, put_rq(S2, r))
  BY <1>5, <1>6, <1>8, <1>10, <1>11 DEF SameLoad, FlagsFall
<1> QED BY <1>2, <1>5, <1>7, <1>8, <1>10, <1>11, <1>12, <1>13 DEF u, array

LEMMA MovedDeactivate ==
    ASSUME NEW S, Fit(S), NEW p \in AllTask, S.task[p].array # NULL
    PROVE  LET S2 == deactivate_task(S, p)
           IN  /\ Moved(S, S2, p, Onto(S.task[p], NULL)) /\ FlagsFall(S, S2)
               /\ S2.rq.nr_uninterruptible
                    = S.rq.nr_uninterruptible + uninterruptible(S.task[p])
               /\ S2.rq.misfiled => S.rq.misfiled
<1> DEFINE home == S.task[p].array
           r == [S.rq EXCEPT !.nr_running = @ - 1,
                             !.nr_uninterruptible = @ + uninterruptible(S.task[p])]
           S1 == put_rq(S, r)
           S2 == dequeue_task(S1, p, home)
           t == Onto(S2.task[p], NULL)
           S3 == put_task(S2, p, t)
<1>1. IsStruct(S.task[p]) /\ S.task[p].p_opptr \in AllTask /\ IsRunqueue(S.rq)
  BY DEF Fit, Records
<1>2. deactivate_task(S, p) = S3
  BY DEF deactivate_task, Onto
<1>3. /\ IsRunqueue(r) /\ r.curr = S.rq.curr /\ r.active = S.rq.active
      /\ r.misfiled = S.rq.misfiled /\ r.panic = S.rq.panic
      /\ r.nr_uninterruptible = S.rq.nr_uninterruptible + uninterruptible(S.task[p])
  BY <1>1 DEF IsRunqueue
<1> HIDE DEF r, home
<1>4. S1.rq = r /\ S1.task = S.task
  BY DEF put_rq
<1>5. Rests(S, S1)
  BY <1>3, RestsRq DEF Fit
<1> HIDE DEF S1
<1>6. /\ Rests(S1, S2) /\ SameLoad(S1, S2) /\ S2.task = S1.task
      /\ S1.task[p].array = home /\ S2.rq.misfiled => S1.rq.misfiled
  BY <1>5, RestsDequeue DEF Rests, Moved, home
<1> HIDE DEF S2
<1>7. Rests(S, S2) /\ Fit(S2)
  BY <1>5, <1>6, RestsTrans DEF Rests, Moved
<1>8. /\ IsStruct(t) /\ t.p_opptr \in AllTask /\ t.justGotForked = S.task[p].justGotForked
      /\ Traits(t) = Traits(Onto(S.task[p], NULL)) /\ t.array = Onto(S.task[p], NULL).array
  BY <1>1, <1>4, <1>6, OntoTraits
<1> HIDE DEF t
<1>9. /\ Moved(S2, S3, p, t) /\ S3.rq = S2.rq
      /\ \A q \in AllTask : S3.task[q] = IF q = p THEN t ELSE S2.task[q]
  BY <1>7, <1>8, MovedPut
<1> HIDE DEF S3
<1>10. Moved(S, S3, p, Onto(S.task[p], NULL))
  <2>1. Moved(S, S3, p, t)
    BY <1>7, <1>9, MovedBefore
  <2> QED BY <1>8, <2>1, MovedAs
<1>11. FlagsFall(S, S3)
  BY <1>4, <1>6, <1>8, <1>9 DEF FlagsFall
<1> QED BY <1>2, <1>3, <1>4, <1>6, <1>9, <1>10, <1>11 DEF SameLoad, home

LEMMA MovedRunning ==
    ASSUME NEW S, Fit(S), NEW p \in AllTask
    PROVE  LET S2 == set_running(S, p)
           IN  /\ Moved(S, S2, p, [S.task[p] EXCEPT !.state = "RUNNING"]) /\ SameLoad(S, S2)
               /\ FlagsFall(S, S2) /\ S2.rq = S.rq
<1> DEFINE t == [S.task[p] EXCEPT !.state = "RUNNING"]
<1>1. IsStruct(S.task[p]) /\ S.task[p].p_opptr \in AllTask
  BY DEF Fit, Records
<1>2. IsStruct(t) /\ t.p_opptr \in AllTask /\ t.justGotForked = S.task[p].justGotForked
  BY <1>1 DEF IsStruct
<1>3. set_running(S, p) = put_task(S, p, t)
  BY DEF set_running
<1> HIDE DEF t
<1>4. /\ Moved(S, put_task(S, p, t), p, t) /\ SameLoad(S, put_task(S, p, t))
      /\ put_task(S, p, t).rq = S.rq
      /\ \A q \in AllTask : put_task(S, p, t).task[q] = IF q = p THEN t ELSE S.task[q]
  BY <1>2, MovedPut
<1> QED BY <1>2, <1>3, <1>4 DEF FlagsFall, t

\* A wakeup makes the task running; a task off the runqueue goes to its array
\* and leaves the count of the sleepers.
LEMMA MovedWakeUp ==
    ASSUME NEW S, Fit(S), NEW p \in AllTask, NEW k
    PROVE  LET S2 == try_to_wake_up(S, p, k)
               awake == [S.task[p] EXCEPT !.state = "RUNNING"]
           IN  /\ FlagsFall(S, S2)
               /\ OwnChild(S, p, Pointer(S, p)) /\ S2.rq.misfiled => S.rq.misfiled
               /\ S.task[p].array # NULL => Moved(S, S2, p, awake) /\ SameLoad(S, S2)
               /\ S.task[p].array = NULL =>
                    /\ Moved(S, S2, p, [awake EXCEPT !.prio = k, !.array = Pointer(S, p)])
                    /\ S2.rq.nr_uninterruptible
                         = S.rq.nr_uninterruptible - uninterruptible(S.task[p])
<1> DEFINE awake == [S.task[p] EXCEPT !.state = "RUNNING"]
           u == [S.task[p] EXCEPT !.prio = k, !.array = Pointer(S, p)]
           v == [awake EXCEPT !.prio = k, !.array = Pointer(S, p)]
           r == [S.rq EXCEPT !.nr_uninterruptible = @ - uninterruptible(S.task[p])]
           S1 == put_rq(S, r)
           S2 == activate_task(S1, p, k)
           S3 == IF S2.task[p].prio < S2.task[S2.rq.curr].prio THEN set_need_resched(S2) ELSE S2
           S4 == set_running(S3, p)
<1>1. IsStruct(S.task[p]) /\ S.task[p].p_opptr \in AllTask /\ IsRunqueue(S.rq)
  BY DEF Fit, Records
<1>2. try_to_wake_up(S, p, k) = IF S.task[p].array # NULL THEN set_running(S, p) ELSE S4
  BY DEF try_to_wake_up
<1>3. CASE S.task[p].array # NULL
  BY <1>2, <1>3, MovedRunning
<1>4. CASE S.task[p].array = NULL
  <2>1. /\ IsRunqueue(r) /\ r.curr = S.rq.curr /\ r.active = S.rq.active
        /\ r.misfiled = S.rq.misfiled /\ r.panic = S.rq.panic
        /\ r.nr_uninterruptible = S.rq.nr_uninterruptible - uninterruptible(S.task[p])
    BY <1>1 DEF IsRunqueue
  <2> HIDE DEF r
  <2>2. S1.rq = r /\ S1.task = S.task
    BY DEF put_rq
  <2>3. Rests(S, S1)
    BY <2>1, RestsRq DEF Fit
  <2>4. Pointer(S1, p) = Pointer(S, p)
    BY <2>1, <2>2 DEF Pointer, pointer_to_my_active_prio_array
  <2>5. OwnChild(S, p, Pointer(S, p)) => OwnChild(S1, p, Pointer(S1, p))
    BY <2>1, <2>2, <2>4 DEF OwnChild
  <2> HIDE DEF S1
  <2>6. /\ Moved(S1, S2, p, u) /\ SameLoad(S1, S2) /\ FlagsFall(S1, S2)
        /\ OwnChild(S1, p, Pointer(S1, p)) /\ S2.rq.misfiled => S1.rq.misfiled
    <3>1. Fit(S1)
      BY <2>3 DEF Rests, Moved
    <3>2. u = [S1.task[p] EXCEPT !.prio = k, !.array = Pointer(S1, p)]
      BY <2>2, <2>4
    <3> HIDE DEF u
    <3> QED BY <3>1, <3>2, MovedActivate
  <2> HIDE DEF S2
  <2>7. Rests(S2, S3) /\ SameLoad(S2, S3) /\ FlagsFall(S2, S3) /\ S3.rq.misfiled = S2.rq.misfiled
    <3>1. Fit(S2)
      BY <2>6 DEF Moved
    <3>2. /\ Rests(S2, S2) /\ SameLoad(S2, S2) /\ FlagsFall(S2, S2)
      BY <3>1, RestsRefl DEF SameLoad, FlagsFall
    <3> QED BY <3>1, <3>2, RestsResched
  <2> HIDE DEF S3
  <2>8. Moved(S, S3, p, u)
    <3>1. Moved(S, S2, p, u)
      BY <2>3, <2>6, MovedBefore
    <3> QED BY <2>7, <3>1, MovedAfter
  <2>9. /\ Moved(S3, S4, p, [S3.task[p] EXCEPT !.state = "RUNNING"]) /\ SameLoad(S3, S4)
        /\ FlagsFall(S3, S4) /\ S4.rq = S3.rq
    BY <2>8, MovedRunning DEF Moved
  <2> HIDE DEF S4
  <2>10. Moved(S, S4, p, v)
    <3> DEFINE w == [S3.task[p] EXCEPT !.state = "RUNNING"]
    <3>1. Moved(S, S4, p, w)
      BY <2>8, <2>9, MovedTrans
    <3>2. /\ IsStruct(S3.task[p]) /\ Traits(S3.task[p]) = Traits(u)
          /\ ~S3.rq.misfiled => S3.task[p].array = u.array
      BY <2>8 DEF Moved, Fit, Records
    <3>3. IsStruct(u) /\ u.array = Pointer(S, p) /\ IsStruct(awake)
      BY <1>1 DEF IsStruct
    <3>4. Traits(v) = Traits([u EXCEPT !.state = "RUNNING"]) /\ v.array = Pointer(S, p)
      BY <1>1 DEF IsStruct, Traits
    <3>5. Traits(w) = Traits([u EXCEPT !.state = "RUNNING"]) /\ w.array = S3.task[p].array
      <4> HIDE DEF u
      <4> QED BY <3>2, <3>3 DEF IsStruct, Traits
    <3>6. Traits(w) = Traits(v) /\ (~S4.rq.misfiled => w.array = v.array)
      BY <2>9, <3>2, <3>3, <3>4, <3>5
    <3> HIDE DEF v, w
    <3> QED BY <3>1, <3>6, MovedAs
  <2>11. FlagsFall(S, S4)
    BY <2>2, <2>6, <2>7, <2>9 DEF FlagsFall
  <2>12. S4.rq.nr_uninterruptible = S.rq.nr_uninterruptible - uninterruptible(S.task[p])
    BY <2>1, <2>2, <2>6, <2>7, <2>9 DEF SameLoad
  <2>13. OwnChild(S, p, Pointer(S, p)) /\ S4.rq.misfiled => S.rq.misfiled
    BY <2>1, <2>2, <2>5, <2>6, <2>7, <2>9
  <2> QED BY <1>2, <1>4, <2>10, <2>11, <2>12, <2>13
<1> QED BY <1>3, <1>4

-----------------------------------------------------------------------------
(* Who may wait where.                                                     *)

\* Class and priority fit together: the real-time classes have the priorities
\* below MAX_RT_PRIO to themselves, and an overdue task has a static priority to
\* go back to.  A child copied from a real-time parent that became SHORT while
\* do_fork() waited is SHORT with a real-time priority.
Classed(t) ==
    /\ t.static_prio \in UserPrio
    /\ t.policy = "OTHER" => ~rt_task(t)
    /\ t.policy \in {"FIFO", "RR"} => rt_task(t)
    /\ t.policy = "SHORT" /\ "fork_block" \notin Workload => ~rt_task(t)
    /\ t.iAmOverdue => t.policy = "SHORT" /\ ~rt_task(t) /\ t.overdue_static_prio \in UserPrio
    /\ t.policy \in Policy /\ t.prio \in 0 .. MAX_PRIO

AtHome(t, S) ==
    \/ t.array = NULL
    \/ t.array = pointer_to_my_active_prio_array(t, S)
    \/ t.array = expired(S) /\ other_task(t) /\ ~rt_task(t)

Homed(S) ==
    /\ \A q \in AllTask : Classed(S.task[q])
    /\ ~S.rq.misfiled => \A q \in AllTask : AtHome(S.task[q], S)

Unflagged(S) == ~S.task[S.rq.curr].justGotForked

\* The kernel goes from S to S2, everybody stays awake or asleep, and nobody
\* comes to wait in the wrong place.
Lodges(S, S2) ==
    /\ Fit(S2) /\ Homed(S2)
    /\ S2.rq.curr = S.rq.curr /\ S2.rq.active = S.rq.active
    /\ SameLoad(S, S2) /\ FlagsFall(S, S2)
    /\ \A q \in AllTask : S2.task[q].state = S.task[q].state
    /\ S.rq.misfiled => S2.rq.misfiled
    /\ Unflagged(S) /\ S2.rq.misfiled => S.rq.misfiled

\* Both depend on traits and array only.
LEMMA SameTraits ==
    ASSUME NEW t, NEW u, Traits(t) = Traits(u)
    PROVE  /\ Classed(t) <=> Classed(u)
           /\ t.state = u.state
           /\ \A S, S2 : t.array = u.array /\ S.rq.active = S2.rq.active
                            => (AtHome(t, S) <=> AtHome(u, S2))
<1>1. /\ t.state = u.state /\ t.policy = u.policy /\ t.iAmOverdue = u.iAmOverdue /\ t.prio = u.prio
      /\ t.static_prio = u.static_prio /\ t.overdue_static_prio = u.overdue_static_prio
  BY DEF Traits
<1>2. Classed(t) <=> Classed(u)
  BY <1>1 DEF Classed, rt_task
<1>3. \A S, S2 : t.array = u.array /\ S.rq.active = S2.rq.active
                   => (AtHome(t, S) <=> AtHome(u, S2))
  BY <1>1 DEF AtHome, pointer_to_my_active_prio_array, expired, rt_task, short_task,
              overdue_task, other_task
<1> QED BY <1>1, <1>2, <1>3

\* A move of a task to a place that suits it.
LEMMA HomedMoved ==
    ASSUME NEW S, Homed(S), NEW S2, NEW p \in AllTask, NEW t, Moved(S, S2, p, t), Classed(t),
           ~S2.rq.misfiled => AtHome(t, S)
    PROVE  /\ Fit(S2) /\ Homed(S2)
           /\ \A q \in AllTask : S2.task[q].state = IF q = p THEN t.state ELSE S.task[q].state
<1> DEFINE u(q) == IF q = p THEN t ELSE S.task[q]
<1>1. /\ Fit(S2) /\ S2.rq.active = S.rq.active
      /\ ~S2.rq.misfiled => ~S.rq.misfiled
      /\ \A q \in AllTask : Traits(S2.task[q]) = Traits(u(q))
      /\ ~S2.rq.misfiled => \A q \in AllTask : S2.task[q].array = u(q).array
  BY DEF Moved
<1>2. \A q \in AllTask : Classed(u(q))
  BY DEF Homed
<1>3. ~S2.rq.misfiled => \A q \in AllTask : AtHome(u(q), S)
  BY <1>1 DEF Homed
<1>4. \A q \in AllTask : S2.task[q].state = u(q).state
  BY <1>1, SameTraits
<1> HIDE DEF u
<1>5. \A q \in AllTask : Classed(S2.task[q])
  BY <1>1, <1>2, SameTraits
<1>6. ~S2.rq.misfiled => \A q \in AllTask : AtHome(S2.task[q], S2)
  BY <1>1, <1>3, SameTraits
<1> QED BY <1>1, <1>4, <1>5, <1>6 DEF Homed, u

LEMMA LodgesMoved ==
    ASSUME NEW S, Homed(S), NEW S2, NEW p \in AllTask, NEW t, Moved(S, S2, p, t), Classed(t),
           ~S2.rq.misfiled => AtHome(t, S),
           t.state = S.task[p].state, SameLoad(S, S2), FlagsFall(S, S2),
           Unflagged(S) /\ S2.rq.misfiled => S.rq.misfiled
    PROVE  Lodges(S, S2)
<1>1. /\ Fit(S2) /\ Homed(S2)
      /\ \A q \in AllTask : S2.task[q].state = IF q = p THEN t.state ELSE S.task[q].state
  BY HomedMoved
<1> QED BY <1>1 DEF Moved, Lodges

LEMMA LodgesRests ==
    ASSUME NEW S, Fit(S), Homed(S), NEW S2, Rests(S, S2), SameLoad(S, S2), FlagsFall(S, S2),
           Unflagged(S) /\ S2.rq.misfiled => S.rq.misfiled
    PROVE  Lodges(S, S2)
<1>1. PICK p \in AllTask : p = S.rq.curr
  BY DEF Fit
<1>2. Moved(S, S2, p, S.task[p])
  BY DEF Rests
<1>3. Classed(S.task[p]) /\ (~S2.rq.misfiled => AtHome(S.task[p], S))
  BY <1>2 DEF Homed, Moved
<1> QED BY <1>2, <1>3, LodgesMoved

LEMMA LodgesRefl ==
    ASSUME NEW S, Fit(S), Homed(S)
    PROVE  Lodges(S, S)
  BY DEF Lodges, SameLoad, FlagsFall

LEMMA LodgesTrans ==
    ASSUME NEW S, NEW S1, NEW S2, Fit(S), Lodges(S, S1), Lodges(S1, S2)
    PROVE  Lodges(S, S2)
<1>1. S.rq.curr \in AllTask
  BY DEF Fit
<1> QED BY <1>1 DEF Lodges, SameLoad, FlagsFall, Unflagged

LEMMA LodgesResched ==
    ASSUME NEW S, Fit(S), Homed(S)
    PROVE  Lodges(S, set_need_resched(S))
  BY RestsResched, LodgesRests

-----------------------------------------------------------------------------
(* The timer interrupt.                                                    *)

LEMMA Levels ==
    /\ MAX_PRIO \in Nat /\ MAX_RT_PRIO \in Nat /\ MAX_RT_PRIO > 0 /\ MAX_RT_PRIO + 1 < MAX_PRIO
    /\ OVERDUE_PRIO \in UserPrio /\ DefaultPrio \in UserPrio
    /\ UserPrio \subseteq 0 .. MAX_PRIO
    /\ \A k \in UserPrio : ~(k < MAX_RT_PRIO)
  BY SchedAssumption, MaxPrioAssumption DEF OVERDUE_PRIO, UserPrio

\* The priority computed for a task is never a real-time one, but for a SHORT
\* task's own, which is not one either.
LEMMA EffectivePrio ==
    ASSUME NEW t, Classed(t), NEW b \in Bonuses
    PROVE  effective_prio(t, b) \in UserPrio
<1>1. b \in Int /\ t.static_prio \in Int
  BY Constants, SchedAssumption DEF Classed, UserPrio
<1> DEFINE prio == t.static_prio - b
<1>2. prio \in Int
  BY <1>1
<1> HIDE DEF prio
<1>3. (IF prio < MAX_RT_PRIO THEN MAX_RT_PRIO
       ELSE IF prio > MAX_PRIO - 1 THEN MAX_PRIO - 1 ELSE prio) \in UserPrio
  BY <1>2, Levels DEF UserPrio
<1> QED BY <1>3, Levels DEF effective_prio, prio, Classed

\* What scheduler_tick() makes of a task whose slice ended.
LEMMA RefillClassed ==
    ASSUME NEW t, IsStruct(t), Classed(t), ~rt_task(t), NEW b \in Bonuses
    PROVE  LET u == refill(t, b)
           IN  /\ IsStruct(u) /\ Classed(u) /\ ~rt_task(u) /\ u.state = t.state
               /\ u.p_opptr = t.p_opptr /\ u.array = t.array
               /\ u.justGotForked = t.justGotForked
<1> DEFINE v == lapse(t)
           w == [v EXCEPT !.prio = effective_prio(v, b), !.first_time_slice = FALSE,
                          !.time_slice = OS_TASK_TIMESLICE(v), !.need_resched = TRUE]
<1>1. /\ IsStruct(v) /\ v.state = t.state /\ v.p_opptr = t.p_opptr /\ v.array = t.array
      /\ v.justGotForked = t.justGotForked /\ v.prio = t.prio
      /\ v.static_prio \in UserPrio /\ v.policy \in Policy
      /\ v.policy \notin {"FIFO", "RR"}
      /\ v.iAmOverdue => v.policy = "SHORT" /\ v.overdue_static_prio \in UserPrio
  <2>1. CASE overdue_task(t)
    BY <2>1, Levels DEF lapse, IsStruct, Classed, overdue_task, Policy
  <2>2. CASE short_task(t)
    BY <2>2, Levels DEF lapse, IsStruct, Classed, overdue_task, short_task, Policy
  <2>3. CASE ~overdue_task(t) /\ ~short_task(t)
    BY <2>3, Levels DEF lapse, IsStruct, Classed, overdue_task, short_task, Policy
  <2> QED BY <2>1, <2>2, <2>3
<1> HIDE DEF v
<1>2. /\ IsStruct(w) /\ w.prio = effective_prio(v, b) /\ w.state = v.state /\ w.policy = v.policy
      /\ w.p_opptr = v.p_opptr /\ w.array = v.array /\ w.justGotForked = v.justGotForked
      /\ w.static_prio = v.static_prio /\ w.iAmOverdue = v.iAmOverdue
      /\ w.overdue_static_prio = v.overdue_static_prio
  BY <1>1 DEF IsStruct
<1>3. effective_prio(v, b) \in UserPrio
  <2>1. Classed(v)
    BY <1>1 DEF Classed, rt_task
  <2> QED BY <2>1, EffectivePrio
<1> HIDE DEF w
<1>4. ~rt_task(w) /\ Classed(w)
  BY <1>1, <1>2, <1>3, Levels DEF Classed, rt_task
<1> QED BY <1>1, <1>2, <1>4 DEF refill, v, w

\* A dequeue_task() and an enqueue_task() of a task, with a change
\* of its task_struct in between or before.
LEMMA LodgesRequeue ==
    ASSUME NEW S, Fit(S), Homed(S), NEW p \in AllTask, NEW t, NEW array, NEW array2,
           NEW S1, NEW S2,
           array # NULL, array2 # NULL, ~S.rq.misfiled => S.task[p].array = array,
           IsStruct(t), t.p_opptr = S.task[p].p_opptr, t.state = S.task[p].state,
           t.array = S.task[p].array, t.justGotForked = S.task[p].justGotForked,
           Classed(t), ~S.rq.misfiled => AtHome(Onto(t, array2), S),
           \/ S1 = dequeue_task(put_task(S, p, t), p, array)
           \/ S1 = put_task(dequeue_task(S, p, array), p, t),
           S2 = enqueue_task(S1, p, array2)
    PROVE  Lodges(S, S2)
<1>1. p \in AllTask /\ IsStruct(S.task[p]) /\ S.task[p].p_opptr \in AllTask
  BY DEF Fit, Records
<1>2. /\ Moved(S, S1, p, t) /\ SameLoad(S, S1) /\ FlagsFall(S, S1)
      /\ S1.rq.misfiled => S.rq.misfiled
      /\ Fit(S1) /\ S1.task[p] = t /\ S1.rq.curr = S.rq.curr
  <2>1. CASE S1 = dequeue_task(put_task(S, p, t), p, array)
    <3> DEFINE S0 == put_task(S, p, t)
    <3>1. /\ Moved(S, S0, p, t) /\ SameLoad(S, S0) /\ S0.rq = S.rq
          /\ \A q \in AllTask : S0.task[q] = IF q = p THEN t ELSE S.task[q]
      BY <1>1, MovedPut
    <3> HIDE DEF S0
    <3>2. /\ Rests(S0, S1) /\ SameLoad(S0, S1) /\ S1.task = S0.task
          /\ S0.task[p].array = array /\ S1.rq.misfiled => S0.rq.misfiled
      BY <2>1, <3>1, RestsDequeue DEF Moved, S0
    <3>3. Moved(S, S1, p, t)
      BY <1>1, <3>1, <3>2, MovedAfter
    <3> QED BY <1>1, <3>1, <3>2, <3>3 DEF SameLoad, FlagsFall, Moved
  <2>2. CASE S1 = put_task(dequeue_task(S, p, array), p, t)
    <3> DEFINE S0 == dequeue_task(S, p, array)
    <3>1. /\ Rests(S, S0) /\ SameLoad(S, S0) /\ S0.task = S.task
          /\ S.task[p].array = array /\ S0.rq.misfiled => S.rq.misfiled
      BY RestsDequeue
    <3>2. Fit(S0)
      BY <1>1, <3>1 DEF Rests, Moved
    <3> HIDE DEF S0
    <3>3. /\ Moved(S0, S1, p, t) /\ SameLoad(S0, S1) /\ S1.rq = S0.rq
          /\ \A q \in AllTask : S1.task[q] = IF q = p THEN t ELSE S0.task[q]
      BY <1>1, <2>2, <3>2, MovedPut DEF S0
    <3>4. Moved(S, S1, p, t)
      BY <1>1, <3>1, <3>3, MovedBefore
    <3> QED BY <1>1, <3>1, <3>3, <3>4 DEF SameLoad, FlagsFall, Moved
  <2> QED BY <2>1, <2>2
<1>3. /\ Moved(S1, S2, p, Onto(t, array2))
      /\ SameLoad(S1, S2) /\ FlagsFall(S1, S2)
      /\ OwnChild(S1, p, array2) /\ S2.rq.misfiled => S1.rq.misfiled
  BY <1>1, <1>2, MovedEnqueue
<1>4. Moved(S, S2, p, Onto(t, array2))
  BY <1>2, <1>3, MovedTrans
<1>5. Unflagged(S) => OwnChild(S1, p, array2)
  <2>1. S.rq.curr \in AllTask
    BY DEF Fit
  <2> QED BY <1>2, <2>1 DEF Unflagged, OwnChild, FlagsFall
<1>6. Classed(Onto(t, array2)) /\ Onto(t, array2).state = S.task[p].state
  BY OntoTraits, SameTraits
<1>7. SameLoad(S, S2) /\ FlagsFall(S, S2)
  BY <1>2, <1>3 DEF SameLoad, FlagsFall
<1>8. ~S2.rq.misfiled => AtHome(Onto(t, array2), S)
  BY <1>4 DEF Moved
<1> QED BY <1>1, <1>2, <1>3, <1>4, <1>5, <1>6, <1>7, <1>8, LodgesMoved


LEMMA TickLodges ==
    ASSUME NEW S, Fit(S), Homed(S), NEW b \in Bonuses, NEW toExpired \in BOOLEAN,
           S.rq.curr # Idle => S.task[S.rq.curr].array # NULL
    PROVE  Lodges(S, scheduler_tick(S, b, toExpired))
<1> DEFINE p == S.rq.curr
           t == S.task[p]
           spent == [t EXCEPT !.time_slice = (@ - 1) % UINT]
           S1 == spend_tick(S, p)
<1>1. p \in AllTask /\ IsStruct(t) /\ t.p_opptr \in AllTask /\ Classed(t)
  BY DEF Fit, Records, Homed
<1>2. /\ IsStruct(spent) /\ spent.p_opptr = t.p_opptr /\ spent.state = t.state
      /\ spent.array = t.array /\ spent.justGotForked = t.justGotForked
      /\ Traits(spent) = Traits(t)
  BY <1>1 DEF IsStruct, Traits
<1>3. S1 = put_task(S, p, spent)
  BY DEF spend_tick
<1> HIDE DEF spent, S1
<1>4. Classed(spent) /\ (rt_task(spent) <=> rt_task(t))
  BY <1>1, <1>2, SameTraits DEF rt_task, Traits
<1>5. /\ Moved(S, S1, p, spent) /\ SameLoad(S, S1) /\ S1.rq = S.rq
      /\ \A q \in AllTask : S1.task[q] = IF q = p THEN spent ELSE S.task[q]
  BY <1>1, <1>2, <1>3, MovedPut
<1>6. Fit(S1) /\ S1.task[p] = spent /\ S1.rq.curr = p /\ FlagsFall(S, S1) /\ Rests(S, S1)
  <2>1. Moved(S, S1, p, t)
    BY <1>2, <1>5, MovedAs
  <2>2. Rests(S, S1)
    BY <2>1, RestsIf
  <2>3. Fit(S1) /\ S1.rq.curr = p
    BY <2>1 DEF Moved
  <2>4. S1.task[p] = spent /\ FlagsFall(S, S1)
    BY <1>1, <1>2, <1>5 DEF FlagsFall
  <2> QED BY <2>2, <2>3, <2>4
<1>7. Lodges(S, S1)
  BY <1>5, <1>6, LodgesRests
<1>8. Homed(S1)
  BY <1>7 DEF Lodges
<1>9. CASE p = Idle
  BY <1>9, LodgesRefl DEF scheduler_tick
<1>10. CASE p # Idle /\ t.array = expired(S)
  BY <1>10, LodgesResched DEF scheduler_tick
<1>11. CASE p # Idle /\ t.array # expired(S)
  <2> DEFINE home == pointer_to_my_active_prio_array(spent, S1)
  <2>1. home # NULL /\ ~S1.rq.misfiled => spent.array = home
    <3>1. ~S.rq.misfiled => t.array = pointer_to_my_active_prio_array(t, S)
      BY <1>1, <1>11 DEF Homed, AtHome
    <3>2. home = pointer_to_my_active_prio_array(t, S)
      BY <1>2, <1>5 DEF pointer_to_my_active_prio_array, rt_task, short_task, overdue_task, Traits
    <3> QED BY <1>2, <1>5, <3>1, <3>2
  <2>2. home # NULL
    BY <1>6, PointerNotNull
  <2>3. CASE rt_task(t) /\ t.policy # "RR"
    BY <1>9, <1>11, <2>3, LodgesRefl DEF scheduler_tick
  <2>4. CASE ~(rt_task(t) /\ t.policy # "RR") /\ S1.task[p].time_slice # 0
    BY <1>7, <1>11, <2>4 DEF scheduler_tick, S1
  <2>5. CASE ~(rt_task(t) /\ t.policy # "RR") /\ S1.task[p].time_slice = 0 /\ rt_task(t)
    <3> DEFINE u == [spent EXCEPT !.time_slice = TASK_TIMESLICE(spent) % UINT,
                                  !.first_time_slice = FALSE, !.need_resched = TRUE]
               S2 == dequeue_task(put_task(S1, p, u), p, home)
               S3 == enqueue_task(S2, p, home)
    <3>1. scheduler_tick(S, b, toExpired) = S3
      BY <1>6, <1>11, <2>5 DEF scheduler_tick, requeue_rr, S1
    <3>2. /\ IsStruct(u) /\ u.p_opptr = spent.p_opptr /\ u.state = spent.state
          /\ u.array = spent.array /\ u.justGotForked = spent.justGotForked
          /\ Traits(u) = Traits(spent)
      BY <1>2 DEF IsStruct, Traits
    <3>3. Classed(u) /\ AtHome(Onto(u, home), S1)
      <4>1. Onto(u, home).array = home /\ Traits(Onto(u, home)) = Traits(spent)
        BY <3>2, OntoTraits
      <4>2. pointer_to_my_active_prio_array(Onto(u, home), S1) = home
        BY <4>1 DEF pointer_to_my_active_prio_array, rt_task, short_task, overdue_task, Traits
      <4> QED BY <1>4, <3>2, <4>1, <4>2, SameTraits DEF AtHome
    <3> HIDE DEF u, home
    <3>4. Lodges(S1, S3)
      <4> HIDE DEF S3, p
      <4>1. S2 = dequeue_task(put_task(S1, p, u), p, home) /\ S3 = enqueue_task(S2, p, home)
        BY DEF S3
      <4> HIDE DEF S2
      <4> QED BY <1>1, <1>6, <1>8, <2>1, <2>2, <3>2, <3>3, <4>1, LodgesRequeue
    <3> HIDE DEF S3
    <3> QED BY <1>7, <3>1, <3>4, LodgesTrans
  <2>6. CASE ~(rt_task(t) /\ t.policy # "RR") /\ S1.task[p].time_slice = 0 /\ ~rt_task(t)
    <3> DEFINE u == refill(spent, b)
               S2 == put_task(dequeue_task(S1, p, home), p, u)
               array2 == IF other_task(u) /\ toExpired THEN expired(S2)
                         ELSE pointer_to_my_active_prio_array(u, S2)
               S3 == enqueue_task(S2, p, array2)
    <3>1. scheduler_tick(S, b, toExpired) = S3
      BY <1>6, <1>11, <2>6 DEF scheduler_tick, expire, S1
    <3>2. /\ IsStruct(u) /\ u.p_opptr = spent.p_opptr /\ u.state = spent.state
          /\ u.array = spent.array /\ u.justGotForked = spent.justGotForked
          /\ Classed(u) /\ ~rt_task(u)
      BY <1>2, <1>4, <2>6, RefillClassed
    <3>3. S2.rq.active = S1.rq.active
      <4>1. dequeue_task(S1, p, home).rq.active = S1.rq.active
        <5> HIDE DEF home
        <5>1. Rests(S1, dequeue_task(S1, p, home))
          BY <1>6, <2>2, RestsDequeue
        <5> QED BY <1>1, <5>1 DEF Rests, Moved
      <4>2. S2.rq = dequeue_task(S1, p, home).rq
        BY DEF put_task
      <4> QED BY <4>1, <4>2
    <3> HIDE DEF u, S2, home
    <3>4. array2 # NULL /\ AtHome(Onto(u, array2), S1)
      <4>1. expired(S2) = expired(S1)
            /\ pointer_to_my_active_prio_array(u, S2) = pointer_to_my_active_prio_array(u, S1)
        BY <3>3 DEF expired, pointer_to_my_active_prio_array
      <4>2. array2 # NULL
        BY <1>6, <4>1, PointerNotNull
      <4>3. Onto(u, array2).array = array2 /\ Traits(Onto(u, array2)) = Traits(u)
        BY <3>2, OntoTraits
      <4>4. \/ array2 = pointer_to_my_active_prio_array(Onto(u, array2), S1)
            \/ array2 = expired(S1) /\ other_task(Onto(u, array2)) /\ ~rt_task(Onto(u, array2))
        <5> HIDE DEF array2
        <5>1. /\ pointer_to_my_active_prio_array(Onto(u, array2), S1)
                   = pointer_to_my_active_prio_array(u, S1)
              /\ other_task(Onto(u, array2)) = other_task(u)
              /\ rt_task(Onto(u, array2)) = rt_task(u)
          BY <4>3 DEF pointer_to_my_active_prio_array, rt_task, short_task, overdue_task,
                      other_task, Traits
        <5> QED BY <3>2, <4>1, <5>1 DEF array2
      <4> QED BY <4>2, <4>3, <4>4 DEF AtHome
    <3>5. Lodges(S1, S3)
      <4>1. S2 = put_task(dequeue_task(S1, p, home), p, u) /\ S3 = enqueue_task(S2, p, array2)
        BY DEF S2
      <4> HIDE DEF S3, p, array2
      <4> QED BY <1>1, <1>6, <1>8, <2>1, <2>2, <3>2, <3>4, <4>1, LodgesRequeue
    <3> HIDE DEF S3
    <3> QED BY <1>7, <3>1, <3>5, LodgesTrans
  <2> QED BY <2>3, <2>4, <2>5, <2>6
<1> QED BY <1>9, <1>10, <1>11

-----------------------------------------------------------------------------
(* System calls that change scheduling parameters.                         *)

\* A change of a task_struct that neither class, priority nor array sees.
LEMMA LodgesPut ==
    ASSUME NEW S, Fit(S), Homed(S), NEW p \in AllTask, NEW t, IsStruct(t),
           t.p_opptr = S.task[p].p_opptr, t.state = S.task[p].state, Classed(t),
           S.task[p].array = NULL \/ S.rq.misfiled \/ AtHome(t, S), t.array = S.task[p].array,
           t.justGotForked => S.task[p].justGotForked
    PROVE  Lodges(S, put_task(S, p, t))
<1>1. t.p_opptr \in AllTask
  BY DEF Fit
<1>2. /\ Moved(S, put_task(S, p, t), p, t) /\ SameLoad(S, put_task(S, p, t))
      /\ put_task(S, p, t).rq = S.rq
      /\ \A q \in AllTask : put_task(S, p, t).task[q] = IF q = p THEN t ELSE S.task[q]
  BY <1>1, MovedPut
<1>3. FlagsFall(S, put_task(S, p, t)) /\ (~S.rq.misfiled => AtHome(t, S))
  BY <1>2 DEF FlagsFall, AtHome
<1> QED BY <1>2, <1>3, LodgesMoved

LEMMA RenewLodges ==
    ASSUME NEW S, Fit(S), Homed(S), NEW p \in AllTask, NEW ms
    PROVE  Lodges(S, renew_short(S, p, ms))
<1> DEFINE t == S.task[p]
           j == CHANGE_MS_TO_JIFFIS(ms)
           u == [t EXCEPT !.requestedTime = j, !.time_slice = (@ + j - t.requestedTime) % UINT]
<1>1. IsStruct(t) /\ t.p_opptr \in AllTask /\ Classed(t) /\ (S.rq.misfiled \/ AtHome(t, S))
  BY DEF Fit, Records, Homed
<1>2. /\ IsStruct(u) /\ u.p_opptr = t.p_opptr /\ u.array = t.array
      /\ u.justGotForked = t.justGotForked /\ Traits(u) = Traits(t)
  BY <1>1 DEF IsStruct, Traits
<1> HIDE DEF j
<1>3. renew_short(S, p, ms) = set_need_resched(put_task(S, p, u))
  BY DEF renew_short, j
<1> HIDE DEF u
<1>4. Classed(u) /\ u.state = t.state /\ (S.rq.misfiled \/ AtHome(u, S))
  BY <1>1, <1>2, SameTraits
<1>5. Lodges(S, put_task(S, p, u))
  BY <1>2, <1>4, LodgesPut
<1>6. Lodges(put_task(S, p, u), set_need_resched(put_task(S, p, u)))
  BY <1>5, LodgesResched DEF Lodges
<1> QED BY <1>3, <1>5, <1>6, LodgesTrans

\* activate_task() of a task that fits the priority k it is given.
LEMMA ActivateHomed ==
    ASSUME NEW S, Fit(S), NEW p \in AllTask, Classed(S.task[p]), NEW k,
           k \in activate_prios(S.task[p]) \/ k \in forked_prios(S.task[p])
    PROVE  LET u == [S.task[p] EXCEPT !.prio = k, !.array = Pointer(S, p)]
           IN  Classed(u) /\ AtHome(u, S)
<1> DEFINE t == S.task[p]
           u == [t EXCEPT !.prio = k, !.array = Pointer(S, p)]
<1>1. IsStruct(t)
  BY DEF Fit, Records
<1>2. /\ u.prio = k /\ u.array = Pointer(S, p) /\ u.policy = t.policy
      /\ u.iAmOverdue = t.iAmOverdue /\ u.static_prio = t.static_prio
      /\ u.overdue_static_prio = t.overdue_static_prio
  BY <1>1 DEF IsStruct
<1> HIDE DEF u
<1>3. k = t.prio \/ (~rt_task(t) /\ k \in UserPrio)
  BY EffectivePrio DEF activate_prios, forked_prios
<1>4. (rt_task(u) <=> rt_task(t)) /\ k \in 0 .. MAX_PRIO
  BY <1>2, <1>3, Levels DEF rt_task, Classed
<1>5. Classed(u)
  BY <1>2, <1>4 DEF Classed
<1>6. u.array = pointer_to_my_active_prio_array(u, S)
  BY <1>2, <1>4 DEF Pointer, pointer_to_my_active_prio_array, short_task, overdue_task
<1> QED BY <1>5, <1>6 DEF AtHome, u

LEMMA ReactivateLodges ==
    ASSUME NEW S, Fit(S), Homed(S), NEW p \in AllTask, NEW t, IsStruct(t),
           t.p_opptr = S.task[p].p_opptr, t.state = S.task[p].state, Classed(t),
           t.array = S.task[p].array, t.justGotForked = S.task[p].justGotForked,
           NEW k, k \in activate_prios(t),
           S.task[p].array # NULL => S.task[p].state # "UNINTERRUPTIBLE",
           S.rq.nr_uninterruptible \in Int
    PROVE  Lodges(S, reactivate(S, p, t, k))
<1>1. CASE S.task[p].array = NULL
  <2>1. reactivate(S, p, t, k) = put_task(S, p, t)
    BY <1>1 DEF reactivate
  <2> QED BY <1>1, <2>1, LodgesPut
<1>2. CASE S.task[p].array # NULL
  <2> DEFINE u == Onto(t, NULL)
             v == [u EXCEPT !.prio = k, !.array = Pointer(S, p)]
             S1 == deactivate_task(S, p)
             S2 == put_task(S1, p, u)
             w == [S2.task[p] EXCEPT !.prio = k, !.array = Pointer(S2, p)]
             S3 == activate_task(S2, p, k)
  <2>1. reactivate(S, p, t, k) = S3
    BY <1>2 DEF reactivate, Onto
  <2>2. /\ Moved(S, S1, p, Onto(S.task[p], NULL)) /\ FlagsFall(S, S1)
        /\ S1.rq.nr_uninterruptible = S.rq.nr_uninterruptible + uninterruptible(S.task[p])
        /\ S1.rq.misfiled => S.rq.misfiled
    BY <1>2, MovedDeactivate
  <2>3. uninterruptible(S.task[p]) = 0
    BY <1>2 DEF uninterruptible
  <2>4. /\ IsStruct(u) /\ u.array = NULL /\ Traits(u) = Traits(t) /\ u.p_opptr = t.p_opptr
        /\ u.justGotForked = t.justGotForked /\ t.p_opptr \in AllTask /\ u.prio = t.prio
    BY OntoTraits DEF Onto, Fit, IsStruct
  <2> HIDE DEF S1, S3
  <2>5. /\ Moved(S1, S2, p, u) /\ SameLoad(S1, S2)
        /\ S2.rq = S1.rq
        /\ \A q \in AllTask : S2.task[q] = IF q = p THEN u ELSE S1.task[q]
    <3> HIDE DEF u
    <3>1. Fit(S1) /\ u.p_opptr \in AllTask
      BY <2>2, <2>4 DEF Moved
    <3> QED BY <2>4, <3>1, MovedPut
  <2>6. Fit(S2) /\ S2.task[p] = u /\ Moved(S, S2, p, u) /\ S2.rq.curr = S.rq.curr
        /\ S2.rq.active = S.rq.active
    BY <2>2, <2>5, MovedTrans DEF Moved
  <2>7. Classed(u) /\ k \in activate_prios(u)
    <3>1. Classed(u)
      BY <2>4, SameTraits
    <3>2. activate_prios(u) = activate_prios(t)
      BY <2>4 DEF activate_prios, effective_prio, rt_task, short_task, overdue_task, Traits
    <3> QED BY <3>1, <3>2
  <2> HIDE DEF S2, u
  <2>8. /\ Moved(S2, S3, p, w) /\ SameLoad(S2, S3) /\ FlagsFall(S2, S3)
        /\ OwnChild(S2, p, Pointer(S2, p)) /\ S3.rq.misfiled => S2.rq.misfiled
    BY <2>6, MovedActivate DEF S3
  <2>9. Classed(w) /\ AtHome(w, S2)
    BY <2>6, <2>7, ActivateHomed
  <2>10. AtHome(w, S)
    BY <2>6, <2>9, SameTraits
  <2>11. w.state = S.task[p].state
    BY <2>4, <2>6, SameTraits DEF IsStruct
  <2> HIDE DEF w
  <2>12. Moved(S, S3, p, w)
    BY <2>6, <2>8, MovedTrans
  <2>13. FlagsFall(S, S3)
    BY <2>2, <2>4, <2>5, <2>8 DEF FlagsFall
  <2>14. SameLoad(S, S3)
    <3>1. S1.rq.nr_uninterruptible = S.rq.nr_uninterruptible + 0
      BY <2>2, <2>3
    <3>2. S1.rq.nr_uninterruptible = S.rq.nr_uninterruptible
      BY <3>1
    <3> QED BY <2>5, <2>8, <3>2 DEF SameLoad
  <2>15. Unflagged(S) => OwnChild(S2, p, Pointer(S2, p))
    <3>1. S.rq.curr \in AllTask
      BY DEF Fit
    <3>2. S2.task[S.rq.curr].justGotForked => S.task[S.rq.curr].justGotForked
      BY <2>2, <2>4, <2>5, <3>1 DEF FlagsFall
    <3> QED BY <2>6, <3>2 DEF Unflagged, OwnChild
  <2>16. Unflagged(S) /\ S3.rq.misfiled => S.rq.misfiled
    BY <2>2, <2>5, <2>8, <2>15
  <2> QED BY <2>1, <2>9, <2>10, <2>11, <2>12, <2>13, <2>14, <2>16, LodgesMoved
<1> QED BY <1>1, <1>2

\* A task of class OTHER becomes SHORT.
LEMMA MakeShortLodges ==
    ASSUME NEW S, Fit(S), Homed(S), NEW p \in AllTask, S.task[p].policy = "OTHER", NEW ms,
           NEW k, k \in activate_prios(as_short(S.task[p], ms)),
           S.task[p].array # NULL => S.task[p].state # "UNINTERRUPTIBLE",
           S.rq.nr_uninterruptible \in Int
    PROVE  Lodges(S, make_short(S, p, ms, k))
<1> DEFINE t == S.task[p]
           u == as_short(t, ms)
           S2 == reactivate(S, p, u, k)
<1>1. IsStruct(t) /\ Classed(t)
  BY DEF Fit, Records, Homed
<1>2. /\ IsStruct(u) /\ u.p_opptr = t.p_opptr /\ u.state = t.state /\ u.array = t.array
      /\ u.justGotForked = t.justGotForked /\ u.policy = "SHORT" /\ u.prio = t.prio
      /\ u.iAmOverdue = t.iAmOverdue /\ u.static_prio = t.static_prio
      /\ u.overdue_static_prio = t.overdue_static_prio
  BY <1>1 DEF as_short, IsStruct
<1> HIDE DEF u
<1>3. Classed(u)
  BY <1>1, <1>2 DEF Classed, Policy, rt_task
<1>4. Lodges(S, S2)
  BY <1>2, <1>3, ReactivateLodges DEF u
<1>5. make_short(S, p, ms, k) = set_need_resched(S2)
  BY DEF make_short, u
<1> HIDE DEF S2
<1>6. Lodges(S2, set_need_resched(S2))
  BY <1>4, LodgesResched DEF Lodges
<1> QED BY <1>4, <1>5, <1>6, LodgesTrans

\* A task that is not SHORT becomes OTHER or real-time.
LEMMA NormalLodges ==
    ASSUME NEW S, Fit(S), Homed(S), NEW p \in AllTask, S.task[p].policy # "SHORT",
           NEW policy, NEW prio,
           policy = "OTHER" \/ (policy \in {"FIFO", "RR"} /\ prio \in 0 .. MAX_RT_PRIO - 2),
           NEW k, k \in activate_prios(as_normal(S.task[p], policy, prio)),
           S.task[p].array # NULL => S.task[p].state # "UNINTERRUPTIBLE",
           S.rq.nr_uninterruptible \in Int
    PROVE  Lodges(S, reactivate(S, p, as_normal(S.task[p], policy, prio), k))
<1> DEFINE t == S.task[p]
           u == as_normal(t, policy, prio)
<1>1. IsStruct(t) /\ Classed(t)
  BY DEF Fit, Records, Homed
<1>2. /\ IsStruct(u) /\ u.p_opptr = t.p_opptr /\ u.state = t.state /\ u.array = t.array
      /\ u.justGotForked = t.justGotForked /\ u.policy = policy
      /\ u.prio = (IF policy = "OTHER" THEN t.static_prio ELSE prio)
      /\ u.iAmOverdue = t.iAmOverdue /\ u.static_prio = t.static_prio
      /\ u.overdue_static_prio = t.overdue_static_prio
  BY <1>1 DEF as_normal, IsStruct
<1> HIDE DEF u
<1>3. prio \in 0 .. MAX_RT_PRIO - 2 => prio < MAX_RT_PRIO /\ prio \in 0 .. MAX_PRIO
  BY Levels
<1>4. Classed(u)
  BY <1>1, <1>2, <1>3, Levels DEF Classed, Policy, rt_task
<1> QED BY <1>2, <1>4, ReactivateLodges DEF u

LEMMA NiceLodges ==
    ASSUME NEW S, Fit(S), Homed(S), NEW p \in AllTask, NEW static \in UserPrio
    PROVE  Lodges(S, set_user_nice(S, p, static))
<1> DEFINE t == S.task[p]
           u == [t EXCEPT !.static_prio = static, !.prio = static]
           home == t.array
           S0 == put_task(dequeue_task(S, p, home), p, u)
           S1 == enqueue_task(S0, p, home)
           v == [t EXCEPT !.static_prio = static]
           w == [t EXCEPT !.overdue_static_prio = static]
<1>1. IsStruct(t) /\ Classed(t) /\ (~S.rq.misfiled => AtHome(t, S))
  BY DEF Fit, Records, Homed
<1>2. CASE t.static_prio = static
  BY <1>2, LodgesRefl DEF set_user_nice
<1>3. CASE t.static_prio # static /\ rt_task(t)
  <2>1. set_user_nice(S, p, static) = put_task(S, p, v)
    BY <1>3 DEF set_user_nice
  <2>2. /\ IsStruct(v) /\ v.p_opptr = t.p_opptr /\ v.state = t.state /\ v.array = t.array
        /\ v.justGotForked = t.justGotForked /\ v.policy = t.policy /\ v.prio = t.prio
        /\ v.iAmOverdue = t.iAmOverdue /\ v.static_prio = static
        /\ v.overdue_static_prio = t.overdue_static_prio
    BY <1>1 DEF IsStruct
  <2> HIDE DEF v
  <2>3. Classed(v)
    BY <1>1, <2>2 DEF Classed, rt_task
  <2>4. ~S.rq.misfiled => AtHome(v, S)
    BY <1>1, <2>2 DEF AtHome, pointer_to_my_active_prio_array, rt_task, short_task, overdue_task,
                      other_task
  <2> QED BY <2>1, <2>2, <2>3, <2>4, LodgesPut
<1>4. CASE t.static_prio # static /\ ~rt_task(t) /\ overdue_task(t)
  <2>1. set_user_nice(S, p, static) = put_task(S, p, w)
    BY <1>4 DEF set_user_nice
  <2>2. /\ IsStruct(w) /\ w.p_opptr = t.p_opptr /\ w.state = t.state /\ w.array = t.array
        /\ w.justGotForked = t.justGotForked /\ w.policy = t.policy /\ w.prio = t.prio
        /\ w.iAmOverdue = t.iAmOverdue /\ w.static_prio = t.static_prio
        /\ w.overdue_static_prio = static
    BY <1>1 DEF IsStruct
  <2> HIDE DEF w
  <2>3. Classed(w)
    BY <1>1, <2>2 DEF Classed, rt_task
  <2>4. ~S.rq.misfiled => AtHome(w, S)
    BY <1>1, <2>2 DEF AtHome, pointer_to_my_active_prio_array, rt_task, short_task, overdue_task,
                      other_task
  <2> QED BY <2>1, <2>2, <2>3, <2>4, LodgesPut
<1>5. CASE t.static_prio # static /\ ~rt_task(t) /\ ~overdue_task(t)
  <2>1. /\ IsStruct(u) /\ u.p_opptr = t.p_opptr /\ u.state = t.state /\ u.array = t.array
        /\ u.justGotForked = t.justGotForked /\ u.policy = t.policy /\ u.prio = static
        /\ u.iAmOverdue = t.iAmOverdue /\ u.static_prio = static
        /\ u.overdue_static_prio = t.overdue_static_prio
    BY <1>1 DEF IsStruct
  <2>2. set_user_nice(S, p, static) = IF home = NULL THEN put_task(S, p, u)
                                      ELSE IF p = S.rq.curr THEN set_need_resched(S1) ELSE S1
    BY <1>5 DEF set_user_nice
  <2>3. ~t.iAmOverdue /\ ~rt_task(u) /\ static \in 0 .. MAX_PRIO
    BY <1>1, <1>5, <2>1, Levels DEF overdue_task, Classed, rt_task
  <2> HIDE DEF u
  <2>4. Classed(u)
    BY <1>1, <1>5, <2>1, <2>3 DEF Classed
  <2>5. ~S.rq.misfiled => AtHome(u, S)
    BY <1>1, <1>5, <2>1, <2>3 DEF AtHome, pointer_to_my_active_prio_array, short_task,
                                  overdue_task, other_task
  <2>6. CASE home = NULL
    BY <2>1, <2>2, <2>4, <2>5, <2>6, LodgesPut
  <2>7. CASE home # NULL
    <3>1. ~S.rq.misfiled => AtHome(Onto(u, home), S)
      <4>1. Traits(Onto(u, home)) = Traits(u) /\ Onto(u, home).array = u.array
        BY <2>1, OntoTraits
      <4> QED BY <2>5, <4>1, SameTraits
    <3>2. Lodges(S, S1)
      <4>1. S0 = put_task(dequeue_task(S, p, home), p, u) /\ S1 = enqueue_task(S0, p, home)
        OBVIOUS
      <4> HIDE DEF S0, S1
      <4> QED BY <2>1, <2>4, <2>7, <3>1, <4>1, LodgesRequeue
    <3> HIDE DEF S1
    <3>3. Lodges(S1, set_need_resched(S1))
      BY <3>2, LodgesResched DEF Lodges
    <3> QED BY <2>2, <2>7, <3>2, <3>3, LodgesTrans
  <2> QED BY <2>6, <2>7
<1> QED BY <1>2, <1>3, <1>4, <1>5

\* The slice a collected child gives back.
LEMMA ReapLodges ==
    ASSUME NEW S, Fit(S), Homed(S), NEW p
    PROVE  Lodges(S, sched_exit(S, p)) /\ sched_exit(S, p).rq = S.rq
<1> DEFINE t == S.task[S.rq.curr]
           sum == (t.time_slice + S.task[p].time_slice) % UINT
           capped == IF sum > MAX_TIMESLICE THEN MAX_TIMESLICE ELSE sum
           u == [t EXCEPT !.time_slice = capped]
<1>1. /\ S.rq.curr \in AllTask /\ IsStruct(t) /\ Classed(t) /\ (~S.rq.misfiled => AtHome(t, S))
  BY DEF Fit, Records, Homed
<1> HIDE DEF capped
<1>2. /\ IsStruct(u) /\ u.p_opptr = t.p_opptr /\ u.array = t.array
      /\ u.justGotForked = t.justGotForked /\ Traits(u) = Traits(t)
  BY <1>1 DEF IsStruct, Traits
<1>3. sched_exit(S, p) = IF ~S.task[p].first_time_slice THEN S ELSE put_task(S, S.rq.curr, u)
  BY DEF sched_exit, capped
<1> HIDE DEF u
<1>4. Classed(u) /\ u.state = t.state /\ (~S.rq.misfiled => AtHome(u, S))
  BY <1>1, <1>2, SameTraits
<1>5. Lodges(S, put_task(S, S.rq.curr, u))
  BY <1>1, <1>2, <1>4, LodgesPut
<1>6. put_task(S, S.rq.curr, u).rq = S.rq
  BY DEF put_task
<1> QED BY <1>3, <1>5, <1>6, LodgesRefl

\* sys_sched_yield() takes its caller to a level that is no better, and to the
\* same one if the caller is real-time.
LEMMA YieldLodges ==
    ASSUME NEW S, Fit(S), Homed(S), KernelType(S), NEW p \in RunnableIn(S)
    PROVE  Lodges(S, yield(S, p)) /\ yield(S, p).rq.misfiled = S.rq.misfiled
<1> DEFINE t == S.task[p]
           bitmap == S.rq.arrays[t.array].bitmap
           k1 == yield_level(bitmap, t.prio)
           u(k) == [t EXCEPT !.prio = k]
           r(k, bits, q) == [S.rq EXCEPT !.arrays = array_relink(Unlinked(S, p), t.array, k, bits, q)]
<1>1. /\ p \in AllTask /\ IsStruct(t) /\ Classed(t) /\ (~S.rq.misfiled => AtHome(t, S))
      /\ IsRunqueue(S.rq)
  BY DEF Fit, Records, Homed, RunnableIn, AllTask
<1>2. k1 \in 0 .. MAX_PRIO /\ k1 >= t.prio
  <2> DEFINE rest == bitmap \ {t.prio}
             i == sched_find_first_bit(rest)
  <2>1. t.array \in ArrayId /\ t.prio \in Prio /\ rest \in SUBSET Prio
    BY Fields DEF RunnableIn, ArraysType, prio_array
  <2>2. k1 = IF i = MAX_PRIO \/ i <= t.prio THEN t.prio ELSE i
    BY DEF yield_level
  <2>3. rest # {} => i \in rest
    BY <2>1, FirstBit
  <2>4. rest = {} => i = MAX_PRIO
    BY <2>1, FirstBit
  <2> HIDE DEF i, k1, rest, bitmap
  <2>5. i \in 0 .. MAX_PRIO /\ t.prio \in 0 .. MAX_PRIO
    <3>1. Prio \subseteq 0 .. MAX_PRIO /\ MAX_PRIO \in 0 .. MAX_PRIO
      BY Levels DEF Prio
    <3>2. rest = {} => i = MAX_PRIO
      BY <2>4
    <3> QED BY <2>1, <2>3, <3>1, <3>2, Zenon
  <2> QED BY <2>2, <2>5, Levels
<1>3. ASSUME NEW k \in 0 .. MAX_PRIO, k = t.prio \/ (~rt_task(t) /\ k >= t.prio),
             NEW bits, NEW q
      PROVE  LET S2 == put_rq(put_task(S, p, u(k)), r(k, bits, q))
             IN  Lodges(S, S2) /\ S2.rq.misfiled = S.rq.misfiled
  <2> DEFINE S1 == put_task(S, p, u(k))
             S2 == put_rq(S1, r(k, bits, q))
  <2>1. /\ IsStruct(u(k)) /\ u(k).p_opptr = t.p_opptr /\ u(k).state = t.state
        /\ u(k).array = t.array /\ u(k).justGotForked = t.justGotForked
        /\ u(k).policy = t.policy /\ u(k).prio = k /\ u(k).iAmOverdue = t.iAmOverdue
        /\ u(k).static_prio = t.static_prio
        /\ u(k).overdue_static_prio = t.overdue_static_prio
    BY <1>1 DEF IsStruct
  <2>2. /\ IsRunqueue(r(k, bits, q)) /\ r(k, bits, q).curr = S.rq.curr
        /\ r(k, bits, q).active = S.rq.active /\ r(k, bits, q).misfiled = S.rq.misfiled
        /\ r(k, bits, q).panic = S.rq.panic
        /\ r(k, bits, q).nr_uninterruptible = S.rq.nr_uninterruptible
    BY <1>1 DEF IsRunqueue
  <2> HIDE DEF u, r
  <2>3. (rt_task(u(k)) <=> rt_task(t))
    BY <1>1, <1>3, <2>1, Levels DEF rt_task, Classed
  <2>4. Classed(u(k))
    BY <1>1, <2>1, <2>3 DEF Classed
  <2>5. ~S.rq.misfiled => AtHome(u(k), S)
    BY <1>1, <2>1, <2>3 DEF AtHome, pointer_to_my_active_prio_array, short_task,
                            overdue_task, other_task
  <2>6. Lodges(S, S1) /\ S1.rq = S.rq
    BY <1>1, <2>1, <2>4, <2>5, LodgesPut DEF put_task
  <2>7. S2.rq = r(k, bits, q) /\ S2.task = S1.task
    BY DEF put_rq
  <2>8. Lodges(S1, S2)
    <3>1. Fit(S1) /\ Homed(S1)
      BY <2>6 DEF Lodges
    <3>2. Rests(S1, put_rq(S1, r(k, bits, q)))
      BY <2>2, <2>6, <3>1, RestsRq DEF Fit
    <3> HIDE DEF S1
    <3>3. SameLoad(S1, S2) /\ FlagsFall(S1, S2)
      BY <2>2, <2>6, <2>7 DEF SameLoad, FlagsFall
    <3> QED BY <2>2, <2>6, <2>7, <3>1, <3>2, <3>3, LodgesRests
  <2>9. S2.rq.misfiled = S.rq.misfiled
    BY <2>2, <2>7
  <2> HIDE DEF S1, S2
  <2>10. Lodges(S, S2)
    BY <2>6, <2>8, LodgesTrans
  <2> QED BY <2>9, <2>10 DEF S1, S2
<1>4. \E k \in 0 .. MAX_PRIO : \E bits, q :
         /\ k = t.prio \/ (~rt_task(t) /\ k >= t.prio)
         /\ yield(S, p) = put_rq(put_task(S, p, u(k)), r(k, bits, q))
  <2>1. t.prio \in 0 .. MAX_PRIO
    BY <1>1 DEF Classed
  <2> DEFINE others(k) == Unlinked(S, p)[t.array].queue[k]
             moved(k, bits, q) == put_rq(put_task(S, p, u(k)), r(k, bits, q))
             alone == list_del(S.rq.arrays[t.array].queue[t.prio], p) = << >>
  <2>2. yield(S, p) =
          IF rt_task(t) THEN moved(t.prio, bitmap, list_add_tail(others(t.prio), p))
          ELSE IF ~alone THEN moved(t.prio, bitmap, list_add_second(others(t.prio), p))
          ELSE moved(k1, (bitmap \ {t.prio}) \cup {k1}, list_add_second(others(k1), p))
    BY DEF yield, yield_to, Unlinked
  <2> HIDE DEF bitmap, others, alone, k1, moved
  <2>3. \E k \in 0 .. MAX_PRIO : \E bits, q :
          (k = t.prio \/ (~rt_task(t) /\ k >= t.prio)) /\ yield(S, p) = moved(k, bits, q)
    BY <1>2, <2>1, <2>2
  <2> QED BY <2>3 DEF moved
<1> QED BY <1>3, <1>4

-----------------------------------------------------------------------------
(* do_fork().                                                              *)

\* The slice is shared out: the parent is flagged and has some of it left, or
\* it has nothing left, takes a tick and is not flagged.
LEMMA SplitHomed ==
    ASSUME NEW S, Fit(S), Homed(S), NEW p, p = S.rq.curr, S.task[p].array # NULL,
           NEW c \in AllTask \ {p}, S.task[c].array = NULL, S.task[p].time_slice # 0,
           S.task[p].policy = "SHORT" /\ "fork_block" \notin Workload
               => S.task[c].policy = "SHORT",
           NEW b \in Bonuses, NEW toExpired \in BOOLEAN
    PROVE  LET S2 == fork_split(S, p, c, b, toExpired)
               v == child_slice(S.task[p], S.task[c])
               w == parent_slice(S.task[p])
           IN  /\ Fit(S2) /\ Homed(S2) /\ SameLoad(S, S2) /\ S2.rq.curr = S.rq.curr
               /\ \A q \in AllTask : S2.task[q].state = S.task[q].state
               /\ S2.rq.misfiled <=> S.rq.misfiled
               /\ \/ /\ S2 = put_task(put_task(S, c, v), p, w) /\ w.time_slice # 0
                     /\ S2.rq = S.rq
                     /\ \A q \in AllTask : S2.task[q] = IF q = p THEN w
                                                        ELSE IF q = c THEN v ELSE S.task[q]
                  \/ ~S2.task[p].justGotForked /\ FlagsFall(S, S2)
<1> DEFINE t == S.task[p]
           u == S.task[c]
           v == child_slice(t, u)
           w == parent_slice(t)
           Sa == put_task(S, c, v)
           S1 == put_task(Sa, p, w)
           lt == [w EXCEPT !.justGotForked = FALSE, !.time_slice = 1]
           Sb == put_task(Sa, p, lt)
           S2 == fork_split(S, p, c, b, toExpired)
<1>1. /\ p \in AllTask /\ IsStruct(t) /\ Classed(t) /\ (~S.rq.misfiled => AtHome(t, S))
      /\ IsStruct(u) /\ Classed(u) /\ t.p_opptr \in AllTask
  BY DEF Fit, Records, Homed
<1>2. /\ IsStruct(v) /\ v.p_opptr = u.p_opptr /\ v.state = u.state /\ v.array = NULL
      /\ v.justGotForked = u.justGotForked /\ v.prio = u.prio
      /\ v.policy = (IF t.policy = "SHORT" THEN "SHORT" ELSE u.policy)
      /\ v.iAmOverdue = u.iAmOverdue /\ v.static_prio = u.static_prio
      /\ v.overdue_static_prio = u.overdue_static_prio
  BY <1>1 DEF child_slice, IsStruct
<1>3. IsStruct(w) /\ Traits(w) = Traits(t) /\ w.p_opptr = t.p_opptr /\ w.array = t.array
  BY <1>1 DEF parent_slice, IsStruct, Traits
<1>4. S2 = IF S1.task[p].time_slice # 0 THEN S1
           ELSE scheduler_tick(put_task(S1, p, [S1.task[p] EXCEPT !.justGotForked = FALSE,
                                                                  !.time_slice = 1]), b, toExpired)
  BY DEF fork_split
<1> HIDE DEF v, w, S2
<1>5. Classed(v)
  BY <1>1, <1>2 DEF Classed, Policy, rt_task
<1>6. /\ Lodges(S, Sa) /\ Sa.rq = S.rq
      /\ \A q \in AllTask : Sa.task[q] = IF q = c THEN v ELSE S.task[q]
  <2>1. Lodges(S, Sa)
    BY <1>2, <1>5, LodgesPut
  <2>2. Sa.task = [S.task EXCEPT ![c] = v] /\ Sa.rq = S.rq
    BY DEF put_task
  <2> QED BY <2>1, <2>2 DEF Fit, Records
<1>7. Fit(Sa) /\ Homed(Sa) /\ Sa.task[p] = t
  BY <1>1, <1>6 DEF Lodges
<1> HIDE DEF Sa
<1>8. /\ Classed(w) /\ w.state = t.state /\ (~S.rq.misfiled => AtHome(w, Sa))
  BY <1>1, <1>3, <1>6, SameTraits
<1>9. /\ Moved(Sa, S1, p, w) /\ SameLoad(Sa, S1) /\ S1.rq = S.rq
      /\ \A q \in AllTask : S1.task[q] = IF q = p THEN w ELSE Sa.task[q]
  BY <1>1, <1>3, <1>6, <1>7, MovedPut
<1>10. Fit(S1) /\ Homed(S1) /\ \A q \in AllTask : S1.task[q].state = S.task[q].state
  <2>1. ~S1.rq.misfiled => AtHome(w, Sa)
    BY <1>8, <1>9
  <2>2. /\ Fit(S1) /\ Homed(S1)
        /\ \A q \in AllTask : S1.task[q].state = IF q = p THEN w.state ELSE Sa.task[q].state
    BY <1>1, <1>7, <1>8, <1>9, <2>1, HomedMoved
  <2> QED BY <1>2, <1>6, <1>8, <2>2
<1>11. CASE w.time_slice # 0
  <2>1. S2 = S1
    BY <1>1, <1>4, <1>9, <1>11
  <2>2. SameLoad(S, S1)
    BY <1>6, <1>9 DEF SameLoad
  <2>3. S1.rq.curr = S.rq.curr /\ S1.rq.misfiled = S.rq.misfiled
    BY <1>9
  <2>4. \A q \in AllTask : S1.task[q] = IF q = p THEN w ELSE IF q = c THEN v ELSE S.task[q]
    BY <1>6, <1>9
  <2>5. S1 = put_task(put_task(S, c, v), p, w)
    BY DEF Sa
  <2> HIDE DEF S1
  <2> QED BY <1>9, <1>10, <1>11, <2>1, <2>2, <2>3, <2>4, <2>5 DEF S2, v, w
<1>12. CASE w.time_slice = 0
  <2>1. S2 = scheduler_tick(Sb, b, toExpired)
    <3>1. S2 = scheduler_tick(put_task(S1, p, lt), b, toExpired)
      BY <1>1, <1>4, <1>9, <1>12
    <3>2. put_task(S1, p, lt) = Sb
      <4>1. [[Sa.task EXCEPT ![p] = w] EXCEPT ![p] = lt] = [Sa.task EXCEPT ![p] = lt]
        OBVIOUS
      <4> QED BY <4>1 DEF put_task
    <3> QED BY <3>1, <3>2
  <2>2. /\ IsStruct(lt) /\ lt.p_opptr = t.p_opptr /\ lt.array = t.array
        /\ ~lt.justGotForked /\ Traits(lt) = Traits(w)
    BY <1>3 DEF IsStruct, Traits
  <2>3. Classed(lt) /\ lt.state = t.state /\ (~S.rq.misfiled => AtHome(lt, Sa))
    BY <1>3, <1>8, <2>2, SameTraits
  <2> HIDE DEF lt
  <2>4. Lodges(Sa, Sb) /\ Sb.rq = S.rq /\ Sb.task[p] = lt
    <3>1. Lodges(Sa, Sb)
      BY <1>1, <1>6, <1>7, <2>2, <2>3, LodgesPut
    <3>2. Sb.task = [Sa.task EXCEPT ![p] = lt] /\ Sb.rq = Sa.rq
      BY DEF put_task
    <3> QED BY <1>1, <1>6, <1>7, <3>1, <3>2 DEF Fit, Records
  <2>5. Fit(Sb) /\ Homed(Sb)
    BY <2>4 DEF Lodges
  <2> HIDE DEF Sb
  <2>6. Lodges(Sb, S2)
    BY <2>1, <2>2, <2>4, <2>5, TickLodges
  <2>7. Unflagged(Sb)
    BY <2>2, <2>4 DEF Unflagged
  <2>8. Lodges(S, S2)
    BY <1>6, <2>4, <2>6, LodgesTrans
  <2>9. S2.rq.misfiled => S.rq.misfiled
    BY <2>4, <2>6, <2>7 DEF Lodges
  <2>10. ~S2.task[p].justGotForked
    BY <1>1, <2>2, <2>4, <2>6 DEF Lodges, FlagsFall
  <2> QED BY <2>8, <2>9, <2>10 DEF S2, Lodges
<1> QED BY <1>11, <1>12

\* The child starts.  A flagged parent that is on the array of the SHORT tasks
\* is put back on the array its child goes to, and loses the flag.
LEMMA ForkWakeHomed ==
    ASSUME NEW S, Fit(S), Homed(S), NEW p, p = S.rq.curr, NEW c \in AllTask \ {p},
           NEW clone_parent \in BOOLEAN, NEW k \in forked_prios(S.task[c])
    PROVE  LET S2 == fork_wake(S, p, c, clone_parent, k)
               mine == ~clone_parent /\ S.task[p].array = "rt_short" /\ short_task(S.task[c])
           IN  /\ Fit(S2) /\ Homed(S2) /\ SameLoad(S, S2) /\ S2.rq.curr = S.rq.curr
               /\ \A q \in AllTask : S2.task[q].state = IF q = c THEN "RUNNING"
                                                        ELSE S.task[q].state
               /\ FlagsFall(S, S2)
               /\ (S.task[p].justGotForked => mine) /\ S2.rq.misfiled => S.rq.misfiled
               /\ mine /\ S.task[p].policy = "SHORT" => ~S2.task[p].justGotForked
<1> DEFINE parent == IF clone_parent THEN S.task[p].p_opptr ELSE p
           t == S.task[c]
           u == [t EXCEPT !.p_opptr = parent, !.state = "RUNNING"]
           S1 == put_task(S, c, u)
           v == [u EXCEPT !.prio = k, !.array = Pointer(S1, c)]
           S2 == activate_task(S1, c, k)
           S3 == IF overdue_task(S2.task[p]) THEN S2 ELSE set_need_resched(S2)
           mine == ~clone_parent /\ S.task[p].array = "rt_short" /\ short_task(t)
<1>1. /\ p \in AllTask /\ parent \in AllTask /\ IsStruct(t) /\ Classed(t)
  BY DEF Fit, Records, Homed
<1>2. /\ IsStruct(u) /\ u.p_opptr = parent /\ u.state = "RUNNING" /\ u.array = t.array
      /\ u.justGotForked = t.justGotForked /\ u.prio = t.prio /\ u.policy = t.policy
      /\ u.iAmOverdue = t.iAmOverdue /\ u.static_prio = t.static_prio
      /\ u.overdue_static_prio = t.overdue_static_prio
  BY <1>1 DEF IsStruct
<1>3. fork_wake(S, p, c, clone_parent, k) = S3
  BY DEF fork_wake
<1> HIDE DEF u, parent
<1>4. /\ Moved(S, S1, c, u) /\ SameLoad(S, S1) /\ S1.rq = S.rq
      /\ \A q \in AllTask : S1.task[q] = IF q = c THEN u ELSE S.task[q]
  BY <1>1, <1>2, MovedPut
<1>5. Fit(S1) /\ S1.task[c] = u /\ FlagsFall(S, S1) /\ S1.task[p] = S.task[p]
  BY <1>1, <1>2, <1>4 DEF Moved, FlagsFall
<1> HIDE DEF S1
<1>6. Classed(u) /\ k \in forked_prios(u)
  BY <1>1, <1>2 DEF Classed, forked_prios, effective_prio, rt_task, short_task, overdue_task
<1>7. Classed(v) /\ AtHome(v, S1)
  BY <1>5, <1>6, ActivateHomed
<1>8. v.state = "RUNNING"
  BY <1>2 DEF IsStruct
<1>9. /\ Moved(S1, S2, c, v) /\ SameLoad(S1, S2) /\ FlagsFall(S1, S2)
      /\ OwnChild(S1, c, Pointer(S1, c)) /\ S2.rq.misfiled => S1.rq.misfiled
      /\ forked_by_short(S1, c) => ~S2.task[S1.task[c].p_opptr].justGotForked
  BY <1>5, MovedActivate
<1> HIDE DEF v, S2
<1>10. Moved(S, S2, c, v)
  BY <1>4, <1>9, MovedTrans
<1>11. AtHome(v, S)
  BY <1>4, <1>7, SameTraits
<1>12. /\ Fit(S2) /\ Homed(S2)
       /\ \A q \in AllTask : S2.task[q].state = IF q = c THEN "RUNNING" ELSE S.task[q].state
  BY <1>7, <1>8, <1>10, <1>11, HomedMoved
<1>13. SameLoad(S, S2) /\ FlagsFall(S, S2) /\ S2.rq.curr = S.rq.curr
  BY <1>4, <1>5, <1>9, <1>10 DEF SameLoad, FlagsFall, Moved
<1>14. S.task[p].justGotForked => (mine => OwnChild(S1, c, Pointer(S1, c)))
  <2>1. mine => Pointer(S1, c) = "rt_short" /\ u.p_opptr = p
    BY <1>2, <1>5 DEF Pointer, pointer_to_my_active_prio_array, short_task, parent
  <2> QED BY <1>4, <1>5, <2>1 DEF OwnChild
<1>15. (S.task[p].justGotForked => mine) /\ S2.rq.misfiled => S.rq.misfiled
  <2>1. ~S.task[p].justGotForked => OwnChild(S1, c, Pointer(S1, c))
    BY <1>4, <1>5 DEF OwnChild
  <2> QED BY <1>4, <1>9, <1>14, <2>1
<1>16. mine /\ S.task[p].policy = "SHORT" => ~S2.task[p].justGotForked
  <2> SUFFICES ASSUME mine, S.task[p].policy = "SHORT", S2.task[p].justGotForked PROVE FALSE
    OBVIOUS
  <2>1. S.task[p].justGotForked /\ u.p_opptr = p /\ ~u.iAmOverdue
    BY <1>1, <1>2, <1>13 DEF FlagsFall, parent, short_task
  <2>2. forked_by_short(S1, c)
    BY <1>4, <1>5, <2>1 DEF forked_by_short
  <2> QED BY <1>5, <1>9, <2>1, <2>2
<1>17. Lodges(S2, S3)
  BY <1>12, LodgesRefl, LodgesResched
<1>18. S3.rq.misfiled <=> S2.rq.misfiled
  BY DEF set_need_resched, put_task
<1> HIDE DEF S3, mine
<1>19. SameLoad(S, S3) /\ FlagsFall(S, S3) /\ S3.rq.curr = S.rq.curr /\ Fit(S3) /\ Homed(S3)
  BY <1>13, <1>17 DEF Lodges, SameLoad, FlagsFall
<1>20. \A q \in AllTask : S3.task[q].state = IF q = c THEN "RUNNING" ELSE S.task[q].state
  BY <1>12, <1>17 DEF Lodges
<1>21. ~S2.task[p].justGotForked => ~S3.task[p].justGotForked
  BY <1>1, <1>17 DEF Lodges, FlagsFall
<1> QED BY <1>3, <1>15, <1>16, <1>18, <1>19, <1>20, <1>21 DEF mine

-----------------------------------------------------------------------------
(* schedule().                                                             *)

\* Whoever waits is running, but for the current task.
Awake(S) == \A q \in Task : q # S.rq.curr /\ S.task[q].array # NULL => S.task[q].state = "RUNNING"

\* The tasks nr_uninterruptible is to count; ch[r] is the task r is building.
Sleepers(S, ch) ==
    {q \in Task : S.task[q].array = NULL /\ S.task[q].state = "UNINTERRUPTIBLE" /\ ~Built(ch, q)}

Load(S, ch) == S.rq.nr_uninterruptible = Cardinality(Sleepers(S, ch))

LEMMA SleepersFinite == \A S, ch : IsFiniteSet(Sleepers(S, ch))
  BY FS_Subset, TaskAssumption DEF Sleepers

\* put_prev() leaves nobody on the runqueue who is not running.
LEMMA PutPrevHomed ==
    ASSUME NEW S, Fit(S), Homed(S), Awake(S), Sound(S), CurrentIn(S),
           NEW ch, Load(S, ch), S.rq.curr \in Task => ~Built(ch, S.rq.curr),
           NEW pending \in BOOLEAN
    PROVE  LET S2 == put_prev(S, pending)
           IN  /\ Fit(S2) /\ Homed(S2) /\ FlagsFall(S, S2) /\ S2.rq.curr = S.rq.curr
               /\ S2.rq.misfiled => S.rq.misfiled
               /\ \A q \in Task : S2.task[q].array # NULL => S2.task[q].state = "RUNNING"
               /\ Load(S2, ch)
<1> DEFINE p == S.rq.curr
           t == S.task[p]
           S2 == put_prev(S, pending)
<1>1. /\ p \in AllTask /\ IsStruct(t) /\ Classed(t) /\ (~S.rq.misfiled => AtHome(t, S))
      /\ DOMAIN S.task = AllTask
  BY DEF Fit, Records, Homed
<1>0. /\ p \in Task => t.array # NULL
      /\ p = Idle => t.state = "RUNNING"
  BY Constants DEF Sound, CurrentIn, RunnableIn
<1>2. CASE t.state = "RUNNING"
  <2>1. S2 = S
    BY <1>2 DEF put_prev
  <2> HIDE DEF S2
  <2> QED BY <1>2, <2>1 DEF Awake, FlagsFall, S2
<1>3. CASE t.state # "RUNNING" /\ t.state = "INTERRUPTIBLE" /\ pending
  <2> DEFINE u == [t EXCEPT !.state = "RUNNING"]
  <2>1. S2 = set_running(S, p) /\ p \in Task
    BY <1>0, <1>1, <1>3 DEF put_prev, AllTask
  <2> HIDE DEF S2
  <2>2. /\ Moved(S, S2, p, u) /\ SameLoad(S, S2) /\ FlagsFall(S, S2) /\ S2.rq = S.rq
    BY <1>1, <2>1, MovedRunning
  <2>3. /\ IsStruct(u) /\ u.state = "RUNNING" /\ u.array = t.array /\ u.policy = t.policy
        /\ u.prio = t.prio /\ u.iAmOverdue = t.iAmOverdue /\ u.static_prio = t.static_prio
        /\ u.overdue_static_prio = t.overdue_static_prio
    BY <1>1 DEF IsStruct
  <2> HIDE DEF u
  <2>4. Classed(u) /\ (~S.rq.misfiled => AtHome(u, S))
    BY <1>1, <2>3 DEF Classed, AtHome, pointer_to_my_active_prio_array, rt_task, short_task,
                      overdue_task, other_task
  <2>5. /\ Fit(S2) /\ Homed(S2)
        /\ \A q \in AllTask : S2.task[q].state = IF q = p THEN "RUNNING" ELSE S.task[q].state
    <3>1. ~S2.rq.misfiled => AtHome(u, S)
      BY <2>2, <2>4 DEF Moved
    <3>2. /\ Fit(S2) /\ Homed(S2)
          /\ \A q \in AllTask : S2.task[q].state = IF q = p THEN u.state ELSE S.task[q].state
      <4>1. Moved(S, S2, p, u) /\ Classed(u) /\ p \in AllTask /\ (~S2.rq.misfiled => AtHome(u, S))
        BY <1>1, <2>2, <2>4, <3>1
      <4> HIDE DEF p, t
      <4> QED BY <4>1, HomedMoved
    <3> QED BY <2>3, <3>2
  <2>6. \A q \in AllTask : S2.task[q].array = S.task[q].array
    <3>1. S2.task = [S.task EXCEPT ![p] = u]
      BY <2>1 DEF set_running, put_task, u
    <3> QED BY <1>1, <2>3, <3>1
  <2>7. Sleepers(S2, ch) = Sleepers(S, ch)
    BY <1>3, <2>1, <2>5, <2>6 DEF Sleepers, AllTask
  <2>8. \A q \in Task : S2.task[q].array # NULL => S2.task[q].state = "RUNNING"
    BY <2>5, <2>6 DEF Awake, AllTask
  <2> QED BY <2>2, <2>5, <2>7, <2>8 DEF S2, Load, SameLoad
<1>4. CASE t.state # "RUNNING" /\ ~(t.state = "INTERRUPTIBLE" /\ pending)
  <2> DEFINE u == Onto(t, NULL)
  <2>1. S2 = deactivate_task(S, p) /\ p \in Task /\ t.array # NULL /\ ~Built(ch, p)
    BY <1>0, <1>1, <1>4 DEF put_prev, AllTask
  <2> HIDE DEF S2
  <2>2. /\ Moved(S, S2, p, u) /\ FlagsFall(S, S2)
        /\ S2.rq.nr_uninterruptible = S.rq.nr_uninterruptible + uninterruptible(t)
        /\ S2.rq.misfiled => S.rq.misfiled
    BY <1>1, <2>1, MovedDeactivate
  <2>3. Classed(u) /\ u.array = NULL /\ u.state = t.state
    BY <1>1, OntoTraits, SameTraits
  <2> HIDE DEF u
  <2>4. /\ Fit(S2) /\ Homed(S2)
        /\ \A q \in AllTask : S2.task[q].state = IF q = p THEN t.state ELSE S.task[q].state
    <3>0. p \in AllTask /\ Homed(S)
      BY <1>1
    <3>1. (~S2.rq.misfiled => AtHome(u, S)) /\ Classed(u) /\ Moved(S, S2, p, u)
      BY <2>2, <2>3 DEF AtHome
    <3>2. /\ Fit(S2) /\ Homed(S2)
          /\ \A q \in AllTask : S2.task[q].state = IF q = p THEN u.state ELSE S.task[q].state
      BY <3>0, <3>1, HomedMoved
    <3> QED BY <2>3, <3>2
  <2>5. \A q \in AllTask : S2.task[q].array = IF q = p THEN NULL ELSE S.task[q].array
    <3>1. p \in RunnableIn(S)
      BY <2>1 DEF RunnableIn
    <3>2. S2.task = [S.task EXCEPT ![p] = u]
      BY <2>1, <3>1, Deactivate DEF Leaves, u, Onto
    <3> QED BY <1>1, <2>3, <3>2
  <2>6. \A q \in Task : S2.task[q].array # NULL => S2.task[q].state = "RUNNING"
    BY <2>4, <2>5 DEF Awake, AllTask
  <2>7. Load(S2, ch)
    <3> DEFINE A == Sleepers(S, ch)
               B == Sleepers(S2, ch)
    <3>1. \A q : q # p => (q \in A <=> q \in B)
      BY <2>4, <2>5 DEF Sleepers, AllTask
    <3>2. p \notin A
      BY <2>1 DEF Sleepers
    <3>3. p \in B <=> t.state = "UNINTERRUPTIBLE"
      BY <1>1, <2>1, <2>4, <2>5 DEF Sleepers
    <3>4. IsFiniteSet(A) /\ Cardinality(A) \in Nat
      BY SleepersFinite, FS_CardinalityType
    <3> HIDE DEF A, B
    <3>5. Cardinality(B) = IF p \in B THEN Cardinality(A) + 1 ELSE Cardinality(A)
      BY <3>1, <3>2, <3>4, OneMore
    <3> QED BY <2>2, <3>3, <3>4, <3>5 DEF Load, uninterruptible, A, B
  <2> QED BY <2>2, <2>4, <2>6, <2>7 DEF S2, Moved
<1> QED BY <1>2, <1>3, <1>4

\* The kernel when schedule() comes to choose the next task.
ToPick(S, pending) ==
    LET S1 == put_prev(S, pending)
    IN  put_task(S1, S.rq.curr, [S1.task[S.rq.curr] EXCEPT !.need_resched = FALSE])

LEMMA ScheduleSplit == \A S, pending : schedule(S, pending) = pick_next(ToPick(S, pending))
  BY DEF schedule, ToPick

LEMMA ToPickHomed ==
    ASSUME NEW S, Fit(S), Homed(S), Awake(S), Sound(S), CurrentIn(S),
           NEW ch, Load(S, ch), S.rq.curr \in Task => ~Built(ch, S.rq.curr),
           NEW pending \in BOOLEAN
    PROVE  LET S2 == ToPick(S, pending)
           IN  /\ Fit(S2) /\ Homed(S2) /\ FlagsFall(S, S2) /\ Sound(S2)
               /\ S2.rq.curr = S.rq.curr
               /\ S2.rq.misfiled => S.rq.misfiled
               /\ \A q \in Task : S2.task[q].array # NULL => S2.task[q].state = "RUNNING"
               /\ Load(S2, ch)
<1> DEFINE p == S.rq.curr
           S1 == put_prev(S, pending)
           t == S1.task[p]
           u == [t EXCEPT !.need_resched = FALSE]
           S2 == put_task(S1, p, u)
<1>1. /\ Fit(S1) /\ Homed(S1) /\ FlagsFall(S, S1) /\ S1.rq.curr = p
      /\ S1.rq.misfiled => S.rq.misfiled
      /\ \A q \in Task : S1.task[q].array # NULL => S1.task[q].state = "RUNNING"
      /\ Load(S1, ch)
  BY PutPrevHomed
<1>2. Sound(S1) /\ KernelType(S1)
  BY PutPrev DEF Settles, Sound, Filed
<1>3. ToPick(S, pending) = S2
  BY DEF ToPick
<1> HIDE DEF S1
<1>4. p \in AllTask /\ IsStruct(t) /\ Classed(t) /\ (~S1.rq.misfiled => AtHome(t, S1))
      /\ t \in task_struct /\ (p \in Task => t.prio \in Prio)
  BY <1>1, <1>2, Fields DEF Fit, Records, Homed
<1>5. /\ IsStruct(u) /\ u.p_opptr = t.p_opptr /\ u.array = t.array
      /\ u.justGotForked = t.justGotForked /\ Traits(u) = Traits(t)
  BY <1>4 DEF IsStruct, Traits
<1>6. /\ Compatible(t, u) /\ u.prio = t.prio /\ u.state = t.state
  BY <1>4 DEF Compatible, Life, task_struct
<1> HIDE DEF u
<1>7. Classed(u) /\ (~S1.rq.misfiled => AtHome(u, S1))
  BY <1>4, <1>5, SameTraits
<1>8. Lodges(S1, S2)
  BY <1>1, <1>4, <1>5, <1>6, <1>7, LodgesPut
<1>9. S2.rq = S1.rq /\ S2.task = [S1.task EXCEPT ![p] = u]
  BY DEF put_task
<1>10. \A q \in AllTask : S2.task[q].array = S1.task[q].array /\ S2.task[q].state = S1.task[q].state
  BY <1>1, <1>5, <1>6, <1>9 DEF Fit, Records
<1>11. Sound(S2)
  <2>1. Reaches(S1, S2, {})
    <3>1. Reaches(S1, S1, {})
      BY <1>2, SoundReaches
    <3> QED BY <1>4, <1>5, <1>6, <3>1, ReachesPut
  <2>2. ~Stopped(S2)
    BY <1>2, <1>9 DEF Stopped, Sound
  <2> QED BY <2>1, <2>2 DEF Reaches
<1> HIDE DEF S2
<1>12. FlagsFall(S, S2)
  BY <1>1, <1>8 DEF Lodges, FlagsFall
<1>13. Sleepers(S2, ch) = Sleepers(S1, ch)
  BY <1>10 DEF Sleepers, AllTask
<1>14. Load(S2, ch)
  BY <1>1, <1>9, <1>13 DEF Load
<1>15. \A q \in Task : S2.task[q].array # NULL => S2.task[q].state = "RUNNING"
  BY <1>1, <1>10 DEF AllTask
<1> QED BY <1>1, <1>3, <1>8, <1>9, <1>11, <1>12, <1>14, <1>15 DEF Lodges

\* Only OTHER tasks belong on the active array, so that nobody has to move when
\* active and expired change places.
LEMMA SwapHome ==
    ASSUME NEW t, Classed(t), NEW S, AtHome(t, S), S.rq.active \in {"array0", "array1"},
           NEW S2, S2.rq.active \in {S.rq.active, expired(S)}
    PROVE  AtHome(t, S2)
<1>1. t.policy \in Policy /\ (t.policy = "OTHER" => ~rt_task(t))
      /\ (t.policy \in {"FIFO", "RR"} => rt_task(t))
  BY DEF Classed
<1>2. S2.rq.active # S.rq.active => S2.rq.active = expired(S) /\ expired(S2) = S.rq.active
  BY DEF expired
<1>3. S2.rq.active = S.rq.active => expired(S2) = expired(S)
  BY DEF expired
<1>4. other_task(t) /\ ~rt_task(t) <=> pointer_to_my_active_prio_array(t, S) = S.rq.active
  BY <1>1 DEF pointer_to_my_active_prio_array, other_task, short_task, overdue_task, Policy
<1>5. pointer_to_my_active_prio_array(t, S2)
         = IF pointer_to_my_active_prio_array(t, S) = S.rq.active THEN S2.rq.active
           ELSE pointer_to_my_active_prio_array(t, S)
  BY DEF pointer_to_my_active_prio_array
<1>6. CASE S2.rq.active = S.rq.active
  BY <1>3, <1>5, <1>6 DEF AtHome
<1>7. CASE S2.rq.active # S.rq.active
  BY <1>2, <1>4, <1>5, <1>7 DEF AtHome
<1> QED BY <1>6, <1>7

LEMMA PickHomed ==
    ASSUME NEW S, Fit(S), Homed(S)
    PROVE  LET S2 == pick_next(S)
           IN  /\ Homed(S2) /\ S2.task = S.task /\ SameLoad(S, S2)
               /\ S2.rq.misfiled = S.rq.misfiled
<1> DEFINE S2 == pick_next(S)
<1>1. /\ IsRunqueue(S.rq) /\ S.rq.active \in {"array0", "array1"}
  BY DEF Fit, Records
<1>2. /\ S2.task = S.task /\ S2.rq.nr_uninterruptible = S.rq.nr_uninterruptible
      /\ S2.rq.misfiled = S.rq.misfiled /\ S2.rq.active \in {S.rq.active, expired(S)}
  BY <1>1 DEF pick_next, put_rq, IsRunqueue
<1> HIDE DEF S2
<1>3. \A q \in AllTask : AtHome(S.task[q], S) => AtHome(S.task[q], S2)
  BY <1>1, <1>2, SwapHome DEF Homed
<1> QED BY <1>2, <1>3 DEF Homed, SameLoad, S2

LEMMA ScheduleHomed ==
    ASSUME NEW S, Fit(S), Homed(S), Awake(S), Sound(S), CurrentIn(S),
           NEW ch, Load(S, ch), S.rq.curr \in Task => ~Built(ch, S.rq.curr),
           NEW pending \in BOOLEAN
    PROVE  LET S2 == schedule(S, pending)
           IN  /\ Homed(S2) /\ Awake(S2) /\ Load(S2, ch) /\ FlagsFall(S, S2)
               /\ S2.rq.misfiled => S.rq.misfiled
<1> DEFINE S1 == ToPick(S, pending)
           S2 == pick_next(S1)
<1>1. /\ Fit(S1) /\ Homed(S1) /\ FlagsFall(S, S1)
      /\ S1.rq.misfiled => S.rq.misfiled
      /\ \A q \in Task : S1.task[q].array # NULL => S1.task[q].state = "RUNNING"
      /\ Load(S1, ch)
  BY ToPickHomed
<1> HIDE DEF S1
<1>2. /\ Homed(S2) /\ S2.task = S1.task /\ SameLoad(S1, S2)
      /\ S2.rq.misfiled = S1.rq.misfiled
  BY <1>1, PickHomed
<1>3. schedule(S, pending) = S2
  BY ScheduleSplit DEF S1
<1> HIDE DEF S2
<1>4. Load(S2, ch)
  <2>1. Sleepers(S2, ch) = Sleepers(S1, ch)
    BY <1>2 DEF Sleepers
  <2> QED BY <1>1, <1>2, <2>1 DEF Load, SameLoad
<1> QED BY <1>1, <1>2, <1>3, <1>4 DEF Awake, FlagsFall

-----------------------------------------------------------------------------
(* The invariant.                                                          *)

NoFlags == \A q \in AllTask : ~task[q].justGotForked

\* What most steps do when no child waits to be put before its parent.
Orderly == NoFlags => NoFlags' /\ (rq'.misfiled => rq.misfiled)

\* Only a task in do_fork() builds a child.
Childless(ch, steps) == \A p \in Task : ~InFork(steps[p]) => ch[p] = NoChild

(***************************************************************************)
(* Everybody waits where he belongs, whoever waits is running, and         *)
(* nr_uninterruptible counts the sleepers.                                 *)
(***************************************************************************)
Placed ==
    rq.panic = "none" =>
        Homed(Kernel) /\ Awake(Kernel) /\ Load(Kernel, child) /\ Childless(child, pc)

\* What an action may assume.
LEMMA BeforePlaced ==
    ASSUME IInv, Placed, rq.panic = "none"
    PROVE  /\ Fit(Kernel) /\ Homed(Kernel) /\ Awake(Kernel) /\ Load(Kernel, child)
           /\ Childless(child, pc) /\ Kernel.rq.nr_uninterruptible \in Int
           /\ Kernel.task = task /\ Kernel.rq = rq
           /\ current \in Task => ~Built(child, current)
           /\ \A q \in Task : /\ q # current /\ task[q].array # NULL => task[q].state = "RUNNING"
                              /\ Built(child, q) => task[q].array = NULL
<1>1. /\ Kernel.task = task /\ Kernel.rq = rq /\ KernelType(Kernel) /\ Sound(Kernel)
      /\ CurrentIn(Kernel) /\ Family(Kernel, child) /\ current \in AllTask
  BY Before DEF Good
<1>2. Homed(Kernel) /\ Awake(Kernel) /\ Load(Kernel, child) /\ Childless(child, pc)
  BY DEF Placed
<1>3. /\ rq \in runqueue /\ task \in Tasks /\ Records(Kernel)
      /\ \A q \in AllTask : task[q].p_opptr \in AllTask
  BY <1>1, KernelRecords, Fields DEF KernelType
<1>4. Fit(Kernel) /\ rq.nr_uninterruptible \in Int
  BY <1>1, <1>3 DEF Fit, runqueue, current
<1>5. \A q \in Task : Built(child, q) => task[q].array = NULL
  BY <1>1 DEF Family, Built
<1>6. current \in Task => ~Built(child, current)
  BY <1>1, <1>5, Constants DEF CurrentIn, RunnableIn, current
<1> QED BY <1>1, <1>2, <1>4, <1>5, <1>6 DEF Awake, current

\* The invariant holds after a step to S2 if it holds of S2.
LEMMA PlacedIf ==
    ASSUME NEW S2, Becomes(S2), Childless(child', pc'),
           S2.rq.panic = "none" => Homed(S2) /\ Awake(S2) /\ Load(S2, child')
    PROVE  Placed'
<1> DEFINE K == [task |-> S2.task, rq |-> S2.rq]
<1>1. Kernel' = K /\ rq' = S2.rq /\ K.task = S2.task /\ K.rq = S2.rq
  BY DEF Kernel, Becomes
<1> HIDE DEF K
<1>2. Homed(S2) => Homed(K)
  BY <1>1, SameTraits DEF Homed
<1>3. Awake(S2) => Awake(K)
  BY <1>1 DEF Awake
<1>4. Load(S2, child') => Load(K, child')
  BY <1>1 DEF Load, Sleepers
<1>5. Placed' <=> (rq'.panic = "none" => /\ Homed(K) /\ Awake(K) /\ Load(K, child')
                                         /\ Childless(child', pc'))
  BY <1>1 DEF Placed
<1> QED BY <1>1, <1>2, <1>3, <1>4, <1>5

LEMMA OrderlyIf ==
    ASSUME IInv, NEW S2, Becomes(S2), FlagsFall(Kernel, S2),
           Unflagged(Kernel) /\ S2.rq.misfiled => rq.misfiled
    PROVE  Orderly
<1>1. /\ task' = S2.task /\ rq' = S2.rq /\ Kernel.task = task /\ Kernel.rq.curr \in AllTask
  BY Base DEF Becomes
<1>2. NoFlags => Unflagged(Kernel)
  BY <1>1 DEF NoFlags, Unflagged
<1>3. NoFlags => \A q \in AllTask : ~task'[q].justGotForked
  BY <1>1 DEF NoFlags, FlagsFall
<1> QED BY <1>1, <1>2, <1>3 DEF Orderly, NoFlags

LEMMA StillAwake ==
    ASSUME NEW S, NEW ch, Awake(S), Load(S, ch), NEW S2, Lodges(S, S2), Reaches(S, S2, {}),
           ~Stopped(S2)
    PROVE  Awake(S2) /\ Load(S2, ch)
<1>1. /\ S2.rq.curr = S.rq.curr /\ SameLoad(S, S2)
      /\ \A q \in AllTask : /\ S2.task[q].state = S.task[q].state
                            /\ S2.task[q].array # NULL <=> S.task[q].array # NULL
  BY DEF Lodges, Reaches
<1>2. Sleepers(S2, ch) = Sleepers(S, ch)
  BY <1>1 DEF Sleepers, AllTask
<1> QED BY <1>1, <1>2 DEF Awake, Load, SameLoad, AllTask

\* Most actions move nobody and wake nobody.
LEMMA LodgesPlaced ==
    ASSUME IInv, Placed, rq.panic = "none", NEW S2, Lodges(Kernel, S2), Reaches(Kernel, S2, {}),
           Becomes(S2), UNCHANGED child, Childless(child, pc')
    PROVE  Placed' /\ Orderly
<1>1. Awake(Kernel) /\ Load(Kernel, child)
  BY BeforePlaced
<1>2. S2.rq.panic = "none" => Homed(S2) /\ Awake(S2) /\ Load(S2, child)
  BY <1>1, StillAwake DEF Stopped, Lodges
<1>3. child' = child
  OBVIOUS
<1>4. Childless(child', pc')
  BY <1>3
<1>5. S2.rq.panic = "none" => Homed(S2) /\ Awake(S2) /\ Load(S2, child')
  BY <1>2, <1>3
<1>6. Orderly
  <2>1. FlagsFall(Kernel, S2) /\ (Unflagged(Kernel) /\ S2.rq.misfiled => rq.misfiled)
    BY BeforePlaced DEF Lodges
  <2> QED BY <2>1, OrderlyIf
<1> QED BY <1>4, <1>5, <1>6, PlacedIf

\* The progress of an action outside do_fork().
LEMMA ChildlessKept ==
    ASSUME IInv, Placed, rq.panic = "none", UNCHANGED pc \/ (InKernel /\ ReturnsToUser)
    PROVE  Childless(child, pc')
<1>1. Childless(child, pc)
  BY BeforePlaced
<1>2. CASE UNCHANGED pc
  BY <1>1, <1>2 DEF Childless
<1>3. CASE InKernel /\ ReturnsToUser
  <2>1. pc \in [AllTask -> KernelStep] /\ Task \subseteq AllTask
    BY Before
  <2>2. \A q \in Task : InFork(pc[q]) => InFork(pc'[q])
    BY <1>3, <2>1 DEF InKernel, ReturnsToUser, InFork
  <2> QED BY <1>1, <2>2 DEF Childless
<1> QED BY <1>2, <1>3

LEMMA SchedulePlaced ==
    ASSUME IInv, Placed, rq.panic = "none", NEW S, Lodges(Kernel, S), Reaches(Kernel, S, {}),
           Sound(S), NEW pending \in BOOLEAN, Becomes(schedule(S, pending)),
           UNCHANGED child, Childless(child, pc')
    PROVE  Placed' /\ Orderly
<1> DEFINE S2 == schedule(S, pending)
<1>1. /\ Awake(Kernel) /\ Load(Kernel, child) /\ Kernel.rq = rq /\ CurrentIn(Kernel)
      /\ current \in AllTask
  BY Before, BeforePlaced
<1>2. ~Stopped(S)
  BY DEF Stopped, Sound
<1>3. Awake(S) /\ Load(S, child)
  BY <1>1, <1>2, StillAwake
<1>4. S.rq.curr = current /\ CurrentIn(S) /\ (current \in Task => ~Built(child, current))
  BY <1>1, <1>2, BeforePlaced DEF Reaches, CurrentIn, RunnableIn, current, AllTask
<1>5. Fit(S) /\ Homed(S)
  BY DEF Lodges
<1>6. /\ Homed(S2) /\ Awake(S2) /\ Load(S2, child)
      /\ FlagsFall(S, S2) /\ (S2.rq.misfiled => S.rq.misfiled)
  BY <1>3, <1>4, <1>5, ScheduleHomed
<1> HIDE DEF S2
<1>7. child' = child
  OBVIOUS
<1>8. Becomes(S2)
  BY DEF S2
<1>9. Orderly
  <2>1. FlagsFall(Kernel, S2) /\ (Unflagged(Kernel) /\ S2.rq.misfiled => rq.misfiled)
    BY <1>1, <1>6 DEF Lodges, FlagsFall
  <2> QED BY <1>8, <2>1, OrderlyIf
<1> QED BY <1>6, <1>7, <1>8, <1>9, PlacedIf

LEMMA PlacedTick == IInv /\ Placed /\ Tick => Placed' /\ Orderly
<1> SUFFICES ASSUME IInv, Placed, Tick PROVE Placed' /\ Orderly
  OBVIOUS
<1>1. PICK b \in Bonuses, toExpired \in BOOLEAN : Becomes(scheduler_tick(Kernel, b, toExpired))
  BY DEF Tick
<1>2. rq.panic = "none" /\ UNCHANGED child /\ UNCHANGED pc
  BY DEF Tick, InterruptsOpen
<1>3. Sound(Kernel) /\ (Kernel.rq.curr # Idle => Kernel.rq.curr \in RunnableIn(Kernel))
  BY <1>2, Before DEF CurrentIn
<1>4. Kernel.rq.curr # Idle => Kernel.task[Kernel.rq.curr].array # NULL
  BY <1>3 DEF RunnableIn
<1>5. Reaches(Kernel, scheduler_tick(Kernel, b, toExpired), {})
  BY <1>3, TickReaches
<1>6. Fit(Kernel) /\ Homed(Kernel) /\ Childless(child, pc')
  BY <1>2, BeforePlaced, ChildlessKept
<1>7. Lodges(Kernel, scheduler_tick(Kernel, b, toExpired))
  BY <1>4, <1>6, TickLodges
<1> QED BY <1>1, <1>2, <1>5, <1>6, <1>7, LodgesPlaced

LEMMA PlacedRenewShort ==
    ASSUME NEW p \in Task, NEW ms \in ReqTimes PROVE IInv /\ Placed /\ RenewShort(p, ms) => Placed' /\ Orderly
<1> SUFFICES ASSUME IInv, Placed, RenewShort(p, ms) PROVE Placed' /\ Orderly
  OBVIOUS
<1>1. /\ rq.panic = "none" /\ UNCHANGED child /\ InKernel /\ ReturnsToUser
      /\ Becomes(renew_short(Kernel, p, ms)) /\ ms \in Int
  BY Constants DEF RenewShort, InKernel
<1>2. Reaches(Kernel, renew_short(Kernel, p, ms), {}) /\ p \in AllTask
  BY <1>1, Before, RenewReaches
<1>3. Fit(Kernel) /\ Homed(Kernel) /\ Childless(child, pc')
  BY <1>1, BeforePlaced, ChildlessKept
<1>4. Lodges(Kernel, renew_short(Kernel, p, ms))
  BY <1>2, <1>3, RenewLodges
<1> QED BY <1>1, <1>2, <1>3, <1>4, LodgesPlaced

\* A task on the runqueue is not asleep while another task, or itself, is in a
\* system call.
LEMMA NotAsleep ==
    ASSUME IInv, Placed, InKernel, NEW p \in Task
    PROVE  Kernel.task[p].array # NULL => Kernel.task[p].state # "UNINTERRUPTIBLE"
  BY BeforePlaced DEF InKernel

LEMMA PlacedMakeShort ==
    ASSUME NEW p \in Task, NEW ms \in ReqTimes PROVE IInv /\ Placed /\ MakeShort(p, ms) => Placed' /\ Orderly
<1> SUFFICES ASSUME IInv, Placed, MakeShort(p, ms) PROVE Placed' /\ Orderly
  OBVIOUS
<1>1. rq.panic = "none" /\ UNCHANGED child /\ InKernel /\ ReturnsToUser /\ ms \in Int
  BY Constants DEF MakeShort, InKernel
<1>2. Kernel.task = task /\ Sound(Kernel) /\ p \in AllTask
  BY <1>1, Before
<1>3. PICK k \in activate_prios(as_short(Kernel.task[p], ms)) : Becomes(make_short(Kernel, p, ms, k))
  BY <1>2 DEF MakeShort
<1>4. Reaches(Kernel, make_short(Kernel, p, ms, k), {})
  BY <1>1, <1>2, MakeShortReaches
<1>5. /\ Fit(Kernel) /\ Homed(Kernel) /\ Childless(child, pc')
      /\ Kernel.rq.nr_uninterruptible \in Int
  BY <1>1, BeforePlaced, ChildlessKept
<1>6. Kernel.task[p].array # NULL => Kernel.task[p].state # "UNINTERRUPTIBLE"
  BY <1>1, NotAsleep
<1>7. Kernel.task[p].policy = "OTHER"
  BY <1>2 DEF MakeShort
<1>8. Lodges(Kernel, make_short(Kernel, p, ms, k))
  BY <1>2, <1>5, <1>6, <1>7, MakeShortLodges
<1> QED BY <1>1, <1>3, <1>4, <1>5, <1>8, LodgesPlaced

LEMMA PlacedSetNormal ==
    ASSUME NEW p \in Task, NEW policy, NEW prio \in Prio,
           policy = "OTHER" \/ (policy \in {"FIFO", "RR"} /\ prio \in 0 .. MAX_RT_PRIO - 2)
    PROVE  IInv /\ Placed /\ SetNormal(p, policy, prio) => Placed' /\ Orderly
<1> SUFFICES ASSUME IInv, Placed, SetNormal(p, policy, prio) PROVE Placed' /\ Orderly
  OBVIOUS
<1>1. rq.panic = "none" /\ UNCHANGED child /\ InKernel /\ ReturnsToUser /\ policy \in Policy
  BY DEF SetNormal, InKernel, Policy
<1>2. Kernel.task = task /\ Sound(Kernel) /\ p \in AllTask
  BY <1>1, Before
<1> DEFINE t == as_normal(Kernel.task[p], policy, prio)
<1>3. PICK k \in activate_prios(t) : Becomes(reactivate(Kernel, p, t, k))
  BY <1>2 DEF SetNormal
<1>4. Reaches(Kernel, reactivate(Kernel, p, t, k), {})
  BY <1>1, <1>2, NormalReaches
<1>5. /\ Fit(Kernel) /\ Homed(Kernel) /\ Childless(child, pc')
      /\ Kernel.rq.nr_uninterruptible \in Int
  BY <1>1, BeforePlaced, ChildlessKept
<1>6. Kernel.task[p].array # NULL => Kernel.task[p].state # "UNINTERRUPTIBLE"
  BY <1>1, NotAsleep
<1>7. Kernel.task[p].policy # "SHORT"
  BY <1>2 DEF SetNormal
<1>8. Lodges(Kernel, reactivate(Kernel, p, t, k))
  BY <1>2, <1>5, <1>6, <1>7, NormalLodges
<1> QED BY <1>1, <1>3, <1>4, <1>5, <1>8, LodgesPlaced

LEMMA PlacedSetNice ==
    ASSUME NEW p \in Task, NEW k \in UserPrio PROVE IInv /\ Placed /\ SetNice(p, k) => Placed' /\ Orderly
<1> SUFFICES ASSUME IInv, Placed, SetNice(p, k) PROVE Placed' /\ Orderly
  OBVIOUS
<1>1. /\ rq.panic = "none" /\ UNCHANGED child /\ InKernel /\ ReturnsToUser /\ k \in Prio
      /\ Becomes(set_user_nice(Kernel, p, k))
  BY Constants DEF SetNice, InKernel
<1>2. Reaches(Kernel, set_user_nice(Kernel, p, k), {}) /\ p \in AllTask
  BY <1>1, Before, NiceReaches
<1>3. Fit(Kernel) /\ Homed(Kernel) /\ Childless(child, pc')
  BY <1>1, BeforePlaced, ChildlessKept
<1>4. Lodges(Kernel, set_user_nice(Kernel, p, k))
  BY <1>2, <1>3, NiceLodges
<1> QED BY <1>1, <1>2, <1>3, <1>4, LodgesPlaced

LEMMA PlacedReschedule == IInv /\ Placed /\ Reschedule => Placed' /\ Orderly
<1> SUFFICES ASSUME IInv, Placed, Reschedule PROVE Placed' /\ Orderly
  OBVIOUS
<1>1. rq.panic = "none" /\ UNCHANGED child /\ UNCHANGED pc
  BY DEF Reschedule
<1>2. PICK pending \in BOOLEAN : Becomes(schedule(Kernel, pending))
  BY DEF Reschedule
<1>3. Sound(Kernel) /\ Reaches(Kernel, Kernel, {})
  BY <1>1, Before, SoundReaches
<1>4. Lodges(Kernel, Kernel) /\ Childless(child, pc')
  BY <1>1, BeforePlaced, LodgesRefl, ChildlessKept
<1> QED BY <1>1, <1>2, <1>3, <1>4, SchedulePlaced

\* sys_sched_yield() before it calls schedule().
LEMMA YieldSound ==
    ASSUME IInv, Placed, InKernel
    PROVE  LET S == yield(Kernel, current)
           IN  Lodges(Kernel, S) /\ Reaches(Kernel, S, {}) /\ Sound(S) /\ CurrentIn(S)
<1> DEFINE S == yield(Kernel, current)
<1>1. rq.panic = "none" /\ pc[current] # "user"
  BY DEF InKernel
<1>2. /\ Sound(Kernel) /\ current \in RunnableIn(Kernel) /\ Kernel.rq = rq /\ KernelType(Kernel)
      /\ CurrentIn(Kernel)
  BY <1>1, Before
<1>3. Reaches(Kernel, S, {})
  BY <1>2, YieldReaches
<1>4. S.rq.panic = Kernel.rq.panic
  <2> HIDE DEF S
  <2>1. \A x : [Kernel.rq EXCEPT !.arrays = x].panic = Kernel.rq.panic
    BY <1>1, Before DEF KernelType, runqueue
  <2>2. ASSUME NEW k, NEW bits, NEW q, S = yield_to(Kernel, current, k, bits, q)
        PROVE  S.rq.panic = Kernel.rq.panic
    <3> DEFINE array == Kernel.task[current].array
               arrays1 == unlink(Kernel.rq.arrays, array, Kernel.task[current].prio, current)
               x == array_relink(arrays1, array, k, bits, q)
    <3>1. S.rq = [Kernel.rq EXCEPT !.arrays = x]
      BY <2>2 DEF yield_to, put_rq, put_task
    <3> HIDE DEF x
    <3> QED BY <2>1, <3>1
  <2>3. \E k, bits, q : S = yield_to(Kernel, current, k, bits, q)
    BY DEF yield, S
  <2> QED BY <2>2, <2>3
<1>5. Sound(S)
  BY <1>1, <1>2, <1>3, <1>4 DEF Reaches, Stopped
<1>6. Lodges(Kernel, S)
  BY <1>1, <1>2, BeforePlaced, YieldLodges
<1> HIDE DEF S
<1>7. CurrentIn(S)
  BY <1>2, <1>3, <1>5 DEF Reaches, Stopped, Sound, CurrentIn, RunnableIn, AllTask
<1> QED BY <1>3, <1>5, <1>6, <1>7 DEF S

LEMMA PlacedYield == IInv /\ Placed /\ Yield => Placed' /\ Orderly
<1> SUFFICES ASSUME IInv, Placed, Yield PROVE Placed' /\ Orderly
  OBVIOUS
<1> DEFINE S == yield(Kernel, current)
<1>1. /\ rq.panic = "none" /\ UNCHANGED child /\ InKernel /\ ReturnsToUser
      /\ Becomes(schedule(S, FALSE))
  BY DEF Yield, InKernel
<1>2. Lodges(Kernel, S) /\ Reaches(Kernel, S, {}) /\ Sound(S)
  BY <1>1, YieldSound
<1>3. Childless(child, pc')
  BY <1>1, ChildlessKept
<1> HIDE DEF S
<1> QED BY <1>1, <1>2, <1>3, SchedulePlaced

\* The woken task goes to the array of its class and is a sleeper no longer.
LEMMA PlacedWake == ASSUME NEW p \in Task PROVE IInv /\ Placed /\ Wake(p) => Placed' /\ Orderly
<1> SUFFICES ASSUME IInv, Placed, Wake(p) PROVE Placed' /\ Orderly
  OBVIOUS
<1>1. /\ rq.panic = "none" /\ UNCHANGED child /\ UNCHANGED pc /\ ~Built(child, p)
      /\ task[p].state \in {"INTERRUPTIBLE", "UNINTERRUPTIBLE"}
  BY HashedBuilt DEF Wake, InterruptsOpen
<1>2. PICK k \in activate_prios(task[p]) : Becomes(try_to_wake_up(Kernel, p, k))
  BY DEF Wake
<1> DEFINE S == Kernel
           t == S.task[p]
           awake == [t EXCEPT !.state = "RUNNING"]
           u == [t EXCEPT !.prio = k, !.array = Pointer(S, p)]
           v == [awake EXCEPT !.prio = k, !.array = Pointer(S, p)]
           S2 == try_to_wake_up(Kernel, p, k)
<1>3. /\ Sound(S) /\ Life(t) = "alive" /\ S.task = task /\ p \in AllTask
      /\ t \in task_struct /\ t.prio \in Prio
  BY <1>1, Before, Fields DEF Life
<1>4. k \in Prio /\ k \in activate_prios(t)
  BY <1>3, PrioTypes
<1>5. Reaches(S, S2, {p})
  BY <1>3, <1>4, WakeUp
<1>6. Fit(S) /\ Homed(S) /\ Awake(S) /\ Load(S, child) /\ Childless(child, pc')
  BY <1>1, BeforePlaced, ChildlessKept
<1>7. /\ FlagsFall(S, S2) /\ (Unflagged(S) /\ S2.rq.misfiled => S.rq.misfiled)
      /\ t.array # NULL => Moved(S, S2, p, awake) /\ SameLoad(S, S2)
      /\ t.array = NULL =>
           /\ Moved(S, S2, p, v)
           /\ S2.rq.nr_uninterruptible = S.rq.nr_uninterruptible - uninterruptible(t)
  BY <1>3, <1>6, MovedWakeUp DEF OwnChild, Unflagged
<1> HIDE DEF S2
<1>8. /\ awake.state = "RUNNING" /\ awake.array = t.array /\ awake.policy = t.policy
      /\ awake.prio = t.prio /\ awake.iAmOverdue = t.iAmOverdue
      /\ awake.static_prio = t.static_prio
      /\ awake.overdue_static_prio = t.overdue_static_prio
  BY <1>3 DEF task_struct
<1>9. /\ v.state = "RUNNING" /\ v.array = u.array /\ v.policy = u.policy
      /\ v.prio = u.prio /\ v.iAmOverdue = u.iAmOverdue
      /\ v.static_prio = u.static_prio
      /\ v.overdue_static_prio = u.overdue_static_prio
  BY <1>3 DEF task_struct
<1>10. Classed(t) /\ (~S.rq.misfiled => AtHome(t, S))
  BY <1>3, <1>6 DEF Homed
<1>11. Classed(u) /\ AtHome(u, S)
  BY <1>3, <1>4, <1>6, <1>10, ActivateHomed
<1> HIDE DEF awake, u, v
<1>12. Classed(awake) /\ (~S.rq.misfiled => AtHome(awake, S))
  BY <1>8, <1>10 DEF Classed, AtHome, pointer_to_my_active_prio_array, rt_task, short_task,
                     overdue_task, other_task
<1>13. Classed(v) /\ AtHome(v, S)
  BY <1>9, <1>11 DEF Classed, AtHome, pointer_to_my_active_prio_array, rt_task, short_task,
                     overdue_task, other_task
<1>14. /\ Homed(S2) /\ S2.rq.curr = S.rq.curr
       /\ \A q \in AllTask : S2.task[q].state = IF q = p THEN "RUNNING" ELSE S.task[q].state
  <2>1. ASSUME NEW w, Moved(S, S2, p, w), Classed(w), ~S.rq.misfiled => AtHome(w, S),
               w.state = "RUNNING"
        PROVE  /\ Homed(S2)
               /\ \A q \in AllTask : S2.task[q].state = IF q = p THEN "RUNNING"
                                                        ELSE S.task[q].state
    <3>1. ~S2.rq.misfiled => AtHome(w, S)
      BY <2>1 DEF Moved
    <3>2. /\ Homed(S2)
          /\ \A q \in AllTask : S2.task[q].state = IF q = p THEN w.state ELSE S.task[q].state
      <4> HIDE DEF S
      <4> QED BY <1>3, <1>6, <2>1, <3>1, HomedMoved
    <3> QED BY <2>1, <3>2
  <2>2. S2.rq.curr = S.rq.curr
    BY <1>5 DEF Reaches
  <2> QED BY <1>7, <1>8, <1>9, <1>12, <1>13, <2>1, <2>2
<1> HIDE DEF S
<1>15. S2.rq.panic = "none" => Awake(S2) /\ Load(S2, child)
  <2> SUFFICES ASSUME S2.rq.panic = "none" PROVE Awake(S2) /\ Load(S2, child)
    OBVIOUS
  <2>1. \A q \in AllTask : S2.task[q].array # NULL <=> S.task[q].array # NULL \/ q = p
    BY <1>5 DEF Reaches, Stopped
  <2>2. Awake(S2)
    BY <1>6, <1>14, <2>1 DEF Awake, AllTask
  <2> DEFINE A == Sleepers(S2, child)
             B == Sleepers(S, child)
  <2>3. \A q : q # p => (q \in A <=> q \in B)
    BY <1>14, <2>1 DEF Sleepers, AllTask
  <2>4. p \notin A
    BY <1>3, <2>1 DEF Sleepers
  <2>5. p \in B <=> t.array = NULL /\ t.state = "UNINTERRUPTIBLE"
    BY <1>1 DEF Sleepers
  <2>6. IsFiniteSet(A) /\ Cardinality(A) \in Nat
    BY SleepersFinite, FS_CardinalityType
  <2> HIDE DEF A, B
  <2>7. Cardinality(B) = IF p \in B THEN Cardinality(A) + 1 ELSE Cardinality(A)
    BY <2>3, <2>4, <2>6, OneMore
  <2>8. S.rq.nr_uninterruptible = Cardinality(B)
    BY <1>6 DEF Load, B
  <2>9. S2.rq.nr_uninterruptible = Cardinality(A)
    BY <1>7, <2>5, <2>6, <2>7, <2>8 DEF uninterruptible, SameLoad
  <2> QED BY <2>2, <2>9 DEF Load, A
<1>16. child' = child
  BY <1>1
<1>17. Becomes(S2)
  BY <1>2 DEF S2
<1>18. Orderly
  BY <1>7, <1>17, Base, OrderlyIf DEF S
<1> QED BY <1>6, <1>14, <1>15, <1>16, <1>17, <1>18, PlacedIf

LEMMA PlacedSysEnter == IInv /\ Placed /\ SysEnter => Placed' /\ Orderly
<1> SUFFICES ASSUME IInv, Placed, SysEnter PROVE Placed' /\ Orderly
  OBVIOUS
<1>1. /\ rq.panic = "none" /\ task' = task /\ rq' = rq /\ child' = child
      /\ pc[current] = "user" /\ pc' = [pc EXCEPT ![current] = "kernel"]
  BY DEF SysEnter
<1>2. pc \in [AllTask -> KernelStep] /\ Task \subseteq AllTask
  BY <1>1, Before
<1>3. \A q \in Task : InFork(pc[q]) => InFork(pc'[q])
  BY <1>1, <1>2 DEF InFork
<1>4. Fit(Kernel) /\ Homed(Kernel) /\ Childless(child, pc) /\ Sound(Kernel)
  BY <1>1, BeforePlaced, Before
<1>5. Childless(child, pc')
  BY <1>3, <1>4 DEF Childless
<1>6. Becomes(Kernel) /\ Lodges(Kernel, Kernel) /\ Reaches(Kernel, Kernel, {})
  BY <1>1, <1>4, LodgesRefl, SoundReaches DEF Becomes, Kernel
<1> QED BY <1>1, <1>5, <1>6, LodgesPlaced

LEMMA PlacedSysReturn == IInv /\ Placed /\ SysReturn => Placed' /\ Orderly
<1> SUFFICES ASSUME IInv, Placed, SysReturn PROVE Placed' /\ Orderly
  OBVIOUS
<1>1. /\ rq.panic = "none" /\ InKernel /\ ReturnsToUser /\ UNCHANGED child
      /\ task' = task /\ rq' = rq
  BY DEF SysReturn, InKernel
<1>2. Fit(Kernel) /\ Homed(Kernel) /\ Sound(Kernel) /\ Childless(child, pc')
  BY <1>1, BeforePlaced, Before, ChildlessKept
<1>3. Becomes(Kernel) /\ Lodges(Kernel, Kernel) /\ Reaches(Kernel, Kernel, {})
  BY <1>1, <1>2, LodgesRefl, SoundReaches DEF Becomes, Kernel
<1> QED BY <1>1, <1>2, <1>3, LodgesPlaced

-----------------------------------------------------------------------------
(* Steps that write task_structs and leave the arrays alone.               *)

\* S2 differs from S in the task p, which has become t.
LEMMA PutHomed ==
    ASSUME NEW S, Homed(S), NEW S2, S2.rq.misfiled = S.rq.misfiled, S2.rq.active = S.rq.active,
           NEW p \in AllTask, NEW t, Classed(t), S.rq.misfiled \/ AtHome(t, S),
           \A q \in AllTask : S2.task[q] = IF q = p THEN t ELSE S.task[q]
    PROVE  Homed(S2)
<1>1. \A q \in AllTask : Classed(S2.task[q])
  BY DEF Homed
<1>2. \A u : AtHome(u, S) => AtHome(u, S2)
  BY SameTraits
<1>3. ~S.rq.misfiled => \A q \in AllTask : AtHome(S2.task[q], S2)
  BY <1>2 DEF Homed
<1> QED BY <1>1, <1>3 DEF Homed

\* S2 has the sleepers of S.
LEMMA SameSleepers ==
    ASSUME NEW S, NEW ch, Load(S, ch), NEW S2, SameLoad(S, S2), NEW ch2,
           \A q \in Task : q \in Sleepers(S2, ch2) <=> q \in Sleepers(S, ch)
    PROVE  Load(S2, ch2)
<1>1. Sleepers(S2, ch2) \subseteq Task /\ Sleepers(S, ch) \subseteq Task
  BY DEF Sleepers
<1>2. Sleepers(S2, ch2) = Sleepers(S, ch)
  BY <1>1
<1> QED BY <1>2 DEF Load, SameLoad

LEMMA PlacedSetState == ASSUME NEW state \in State \ {"ZOMBIE", "UNUSED"}
                        PROVE  IInv /\ Placed /\ SetState(state) => Placed' /\ Orderly
<1> SUFFICES ASSUME IInv, Placed, SetState(state) PROVE Placed' /\ Orderly
  OBVIOUS
<1> DEFINE t == task[current]
           u == [t EXCEPT !.state = state]
           S2 == [task |-> task', rq |-> rq]
<1>1. /\ rq.panic = "none" /\ UNCHANGED child /\ UNCHANGED pc /\ rq' = rq /\ pc[current] # "user"
      /\ task' = [task EXCEPT ![current] = u]
  BY DEF SetState
<1>2. /\ Homed(Kernel) /\ Awake(Kernel) /\ Load(Kernel, child) /\ Childless(child, pc')
      /\ Kernel.task = task /\ Kernel.rq = rq
  BY <1>1, BeforePlaced, ChildlessKept
<1>3. /\ current \in Task /\ current \in AllTask /\ Task \subseteq AllTask /\ task[current].array # NULL
      /\ t \in task_struct /\ DOMAIN task = AllTask
  BY <1>1, InCall, Before, Base DEF Records
<1>4. /\ u.array = t.array /\ u.policy = t.policy /\ u.prio = t.prio
      /\ u.iAmOverdue = t.iAmOverdue /\ u.static_prio = t.static_prio
      /\ u.overdue_static_prio = t.overdue_static_prio /\ u.justGotForked = t.justGotForked
  BY <1>3 DEF task_struct
<1>5. S2.task = task' /\ S2.rq = rq
  OBVIOUS
<1> HIDE DEF u, S2
<1>6. \A q \in AllTask : S2.task[q] = IF q = current THEN u ELSE Kernel.task[q]
  BY <1>1, <1>2, <1>3, <1>5
<1>7. Classed(u) /\ (rq.misfiled \/ AtHome(u, Kernel))
  <2>1. Classed(t) /\ (rq.misfiled \/ AtHome(t, Kernel))
    BY <1>2, <1>3 DEF Homed
  <2> HIDE DEF t
  <2> QED BY <1>4, <2>1 DEF Classed, AtHome, pointer_to_my_active_prio_array, rt_task,
                            short_task, overdue_task, other_task
<1>8. Homed(S2)
  <2>1. /\ S2.rq.misfiled = Kernel.rq.misfiled /\ S2.rq.active = Kernel.rq.active
        /\ Kernel.rq.misfiled \/ AtHome(u, Kernel)
    BY <1>2, <1>5, <1>7
  <2> QED BY <1>2, <1>3, <1>6, <1>7, <2>1, PutHomed
<1>9. Awake(S2)
  BY <1>2, <1>3, <1>5, <1>6 DEF Awake, current
<1>10. Load(S2, child)
  <2>1. \A q \in Task : q \in Sleepers(S2, child) <=> q \in Sleepers(Kernel, child)
    BY <1>2, <1>3, <1>4, <1>6 DEF Sleepers
  <2>2. SameLoad(Kernel, S2)
    BY <1>2, <1>5 DEF SameLoad
  <2> QED BY <1>2, <2>1, <2>2, SameSleepers
<1>11. child' = child /\ Becomes(S2)
  BY <1>1, <1>5 DEF Becomes
<1>12. Orderly
  <2>1. FlagsFall(Kernel, S2) /\ (Unflagged(Kernel) /\ S2.rq.misfiled => rq.misfiled)
    BY <1>2, <1>4, <1>5, <1>6 DEF FlagsFall
  <2> QED BY <1>11, <2>1, OrderlyIf
<1> QED BY <1>2, <1>8, <1>9, <1>10, <1>11, <1>12, PlacedIf

\* The task under construction is not counted among the sleepers.
LEMMA PlacedForkCopy == ASSUME NEW c \in Task PROVE IInv /\ Placed /\ ForkCopy(c) => Placed' /\ Orderly
<1> SUFFICES ASSUME IInv, Placed, ForkCopy(c) PROVE Placed' /\ Orderly
  OBVIOUS
<1> DEFINE p == current
           t == task[p]
           u == fork_copy(t)
           S2 == [task |-> task', rq |-> rq]
<1>1. /\ rq.panic = "none" /\ pc[p] = "kernel" /\ task[c].state = "UNUSED" /\ rq' = rq
      /\ task' = [task EXCEPT ![c] = u] /\ child' = [child EXCEPT ![p] = c]
      /\ pc' = [pc EXCEPT ![p] = "fork_copied", ![c] = "user"]
  BY DEF ForkCopy, InKernel
<1>2. /\ Homed(Kernel) /\ Awake(Kernel) /\ Load(Kernel, child) /\ Childless(child, pc)
      /\ Kernel.task = task /\ Kernel.rq = rq
  BY <1>1, BeforePlaced
<1>3. /\ p \in Task /\ Task \subseteq AllTask /\ p \in AllTask /\ t.array # NULL
      /\ t \in task_struct /\ DOMAIN task = AllTask
      /\ Family(Kernel, child) /\ Steps(Kernel, child, pc)
      /\ pc \in [AllTask -> KernelStep] /\ child \in [Task -> Task \cup {NoChild}]
  BY <1>1, InCall, Before, Base DEF Records
<1>4. /\ u.array = NULL /\ u.policy = t.policy /\ u.prio = t.prio
      /\ u.iAmOverdue = t.iAmOverdue /\ u.static_prio = t.static_prio
      /\ u.overdue_static_prio = t.overdue_static_prio /\ u.justGotForked = t.justGotForked
  BY <1>3 DEF fork_copy, task_struct
<1>5. S2.task = task' /\ S2.rq = rq
  OBVIOUS
<1> HIDE DEF u, S2
<1>6. /\ \A q \in AllTask : S2.task[q] = IF q = c THEN u ELSE Kernel.task[q]
      /\ \A q \in Task : child'[q] = IF q = p THEN c ELSE child[q]
      /\ \A q \in Task : pc'[q] = IF q = c THEN "user" ELSE IF q = p THEN "fork_copied" ELSE pc[q]
  BY <1>1, <1>2, <1>3, <1>5
<1>7. Classed(u) /\ AtHome(u, Kernel)
  <2>1. Classed(t)
    BY <1>2, <1>3 DEF Homed
  <2> HIDE DEF t
  <2> QED BY <1>4, <2>1 DEF Classed, AtHome, rt_task
<1>8. Homed(S2)
  <2>1. /\ S2.rq.misfiled = Kernel.rq.misfiled /\ S2.rq.active = Kernel.rq.active
        /\ c \in AllTask
    BY <1>2, <1>3, <1>5
  <2> QED BY <1>2, <1>6, <1>7, <2>1, PutHomed
<1>9. Awake(S2)
  BY <1>2, <1>3, <1>4, <1>5, <1>6 DEF Awake
\* c was not in do_fork() before it was forked, and p has built nobody yet.
<1>10. child[p] = NoChild /\ child[c] = NoChild /\ c # p
  <2>1. ~InFork(pc[p]) /\ ~InFork(pc[c])
    BY <1>1, <1>2, <1>3 DEF InFork, Steps, Alive, Life
  <2>2. c # p
    BY <1>1, <1>2, <1>3 DEF Family
  <2> QED BY <1>2, <1>3, <2>1, <2>2 DEF Childless
<1>11. \A q \in Task : Built(child', q) <=> Built(child, q) \/ q = c
  BY <1>3, <1>6, <1>10, Constants DEF Built
<1>12. Load(S2, child')
  <2>1. \A q \in Task : q \in Sleepers(S2, child') <=> q \in Sleepers(Kernel, child)
    BY <1>1, <1>2, <1>3, <1>6, <1>11 DEF Sleepers
  <2>2. SameLoad(Kernel, S2)
    BY <1>2, <1>5 DEF SameLoad
  <2> DEFINE ch2 == child'
  <2> HIDE DEF ch2
  <2>3. Load(S2, ch2)
    BY <1>2, <2>1, <2>2, SameSleepers DEF ch2
  <2> QED BY <2>3 DEF ch2
<1>13. Childless(child', pc')
  BY <1>2, <1>6, <1>10 DEF Childless, InFork
<1>14. Becomes(S2)
  BY <1>1, <1>5 DEF Becomes
<1>15. Orderly
  <2>1. NoFlags => \A q \in AllTask : ~task'[q].justGotForked
    BY <1>2, <1>3, <1>4, <1>5, <1>6 DEF NoFlags
  <2> QED BY <1>1, <2>1 DEF Orderly, NoFlags
<1> QED BY <1>8, <1>9, <1>12, <1>13, <1>14, <1>15, PlacedIf

\* A task_struct nobody uses suits every place.
LEMMA UnusedClassed ==
    /\ Classed(UnusedTask) /\ UnusedTask.array = NULL /\ UnusedTask.state = "UNUSED"
    /\ ~UnusedTask.justGotForked
<1>1. /\ UnusedTask.policy = "OTHER" /\ UnusedTask.static_prio = DefaultPrio
      /\ UnusedTask.prio = DefaultPrio /\ ~UnusedTask.iAmOverdue
      /\ UnusedTask.array = NULL /\ UnusedTask.state = "UNUSED"
      /\ ~UnusedTask.justGotForked
  BY DEF UnusedTask
<1> QED BY <1>1, Levels DEF Classed, rt_task, Policy

LEMMA PlacedForkFail == IInv /\ Placed /\ ForkFail => Placed' /\ Orderly
<1> SUFFICES ASSUME IInv, Placed, ForkFail PROVE Placed' /\ Orderly
  OBVIOUS
<1> DEFINE c == child[current]
           ch2 == [child EXCEPT ![current] = NoChild]
           S2 == [task |-> task', rq |-> rq]
<1>1. /\ rq.panic = "none" /\ InFork(pc[current]) /\ rq' = rq
      /\ task' = [task EXCEPT ![c] = UnusedTask] /\ child' = ch2 /\ ReturnsToUser
  BY DEF ForkFail, InFork
<1>2. /\ Homed(Kernel) /\ Awake(Kernel) /\ Load(Kernel, child) /\ Childless(child, pc)
      /\ Kernel.task = task /\ Kernel.rq = rq
  BY <1>1, BeforePlaced
<1>3. /\ c \in Task /\ Task \subseteq AllTask /\ task[c].array = NULL /\ DOMAIN task = AllTask
      /\ ~Built(ch2, c) /\ current \in Task /\ Kernel.rq.curr # c
      /\ pc \in [AllTask -> KernelStep] /\ child \in [Task -> Task \cup {NoChild}]
  BY <1>1, InForkCall, Before, InCall, Base DEF Records
<1>4. S2.task = task' /\ S2.rq = rq
  OBVIOUS
<1> HIDE DEF S2
<1>5. /\ \A q \in AllTask : S2.task[q] = IF q = c THEN UnusedTask ELSE Kernel.task[q]
      /\ \A q \in Task : ch2[q] = IF q = current THEN NoChild ELSE child[q]
      /\ \A q \in Task : pc'[q] = IF q = current THEN "user" ELSE pc[q]
  BY <1>1, <1>2, <1>3, <1>4 DEF ReturnsToUser
<1>6. Homed(S2)
  <2>1. Classed(UnusedTask) /\ (Kernel.rq.misfiled \/ AtHome(UnusedTask, Kernel))
    BY UnusedClassed DEF AtHome
  <2>2. /\ S2.rq.misfiled = Kernel.rq.misfiled /\ S2.rq.active = Kernel.rq.active
        /\ c \in AllTask
    BY <1>2, <1>3, <1>4
  <2> HIDE DEF c
  <2> QED BY <1>2, <1>5, <2>1, <2>2, PutHomed
<1>7. Awake(S2)
  BY <1>2, <1>3, <1>4, <1>5, UnusedClassed DEF Awake
<1>8. \A q \in Task : Built(ch2, q) <=> Built(child, q) /\ q # c
  BY <1>3, <1>5, Constants DEF Built
<1>9. Load(S2, ch2)
  <2>1. Built(child, c)
    BY <1>3 DEF Built
  <2> HIDE DEF ch2, c
  <2>2. \A q \in Task : q \in Sleepers(S2, ch2) <=> q \in Sleepers(Kernel, child)
    BY <1>2, <1>3, <1>5, <1>8, <2>1, UnusedClassed DEF Sleepers
  <2>3. SameLoad(Kernel, S2)
    BY <1>2, <1>4 DEF SameLoad
  <2> QED BY <1>2, <2>2, <2>3, SameSleepers
<1>10. Childless(ch2, pc')
  BY <1>2, <1>5 DEF Childless
<1>11. Becomes(S2)
  BY <1>1, <1>4 DEF Becomes
<1>12. Childless(child', pc') /\ Load(S2, child')
  BY <1>1, <1>9, <1>10
<1>13. Orderly
  <2>1. FlagsFall(Kernel, S2) /\ (Unflagged(Kernel) /\ S2.rq.misfiled => rq.misfiled)
    BY <1>4, <1>5, UnusedClassed DEF FlagsFall
  <2> QED BY <1>11, <2>1, OrderlyIf
<1> QED BY <1>6, <1>7, <1>11, <1>12, <1>13, PlacedIf

LEMMA PlacedReap == ASSUME NEW p \in Task PROVE IInv /\ Placed /\ Reap(p) => Placed' /\ Orderly
<1> SUFFICES ASSUME IInv, Placed, Reap(p) PROVE Placed' /\ Orderly
  OBVIOUS
<1> DEFINE S1 == sched_exit(Kernel, p)
           S2 == put_task(S1, p, UnusedTask)
<1>1. /\ rq.panic = "none" /\ UNCHANGED child /\ InKernel /\ ReturnsToUser /\ pc[current] # "user"
      /\ task[p].state = "ZOMBIE" /\ task[current].state = "RUNNING" /\ Becomes(S2)
  BY DEF Reap, InKernel
<1>2. /\ Kernel.task = task /\ Kernel.rq = rq /\ Sound(Kernel) /\ Task \subseteq AllTask
      /\ current \in Task /\ Kernel.rq.curr # Idle /\ Kernel.rq.curr = current
      /\ Fit(Kernel) /\ Homed(Kernel) /\ Awake(Kernel) /\ Load(Kernel, child)
      /\ Childless(child, pc')
  BY <1>1, Before, InCall, BeforePlaced, ChildlessKept
<1>3. Reaches(Kernel, S1, {})
  BY <1>2, ExitReaches
<1>4. Lodges(Kernel, S1) /\ S1.rq = rq
  BY <1>2, ReapLodges
<1>5. S2.rq = S1.rq /\ S2.task = [S1.task EXCEPT ![p] = UnusedTask]
  BY DEF put_task
<1> HIDE DEF S1, S2
<1>6. Awake(S1) /\ Load(S1, child) /\ Homed(S1) /\ DOMAIN S1.task = AllTask
  <2>1. ~Stopped(S1)
    BY <1>1, <1>4 DEF Stopped
  <2> QED BY <1>2, <1>3, <1>4, <2>1, StillAwake DEF Lodges, Fit, Records
<1>7. \A q \in AllTask : S2.task[q] = IF q = p THEN UnusedTask ELSE S1.task[q]
  BY <1>5, <1>6
<1>8. Homed(S2)
  <2>1. Classed(UnusedTask) /\ (S1.rq.misfiled \/ AtHome(UnusedTask, S1))
    BY UnusedClassed DEF AtHome
  <2>2. S2.rq.misfiled = S1.rq.misfiled /\ S2.rq.active = S1.rq.active /\ p \in AllTask
    BY <1>2, <1>5
  <2> QED BY <1>6, <1>7, <2>1, <2>2, PutHomed
<1>9. Awake(S2)
  BY <1>2, <1>5, <1>6, <1>7, UnusedClassed DEF Awake
<1>10. Load(S2, child)
  <2>1. S1.task[p].state = "ZOMBIE"
    BY <1>1, <1>2, <1>4 DEF Lodges
  <2>2. \A q \in Task : q \in Sleepers(S2, child) <=> q \in Sleepers(S1, child)
    BY <1>2, <1>7, <2>1, UnusedClassed DEF Sleepers
  <2>3. SameLoad(S1, S2)
    BY <1>5 DEF SameLoad
  <2> QED BY <1>6, <2>2, <2>3, SameSleepers
<1>11. child' = child
  BY <1>1
<1>12. Orderly
  <2>1. FlagsFall(Kernel, S2) /\ (Unflagged(Kernel) /\ S2.rq.misfiled => rq.misfiled)
    BY <1>4, <1>5, <1>7, UnusedClassed DEF FlagsFall, Lodges
  <2> QED BY <1>1, <2>1, OrderlyIf
<1> QED BY <1>1, <1>2, <1>8, <1>9, <1>10, <1>11, <1>12, PlacedIf

\* Class and home do not depend on the rest of a task_struct.
LEMMA SameClass ==
    ASSUME NEW t, NEW u, u.array = t.array, u.policy = t.policy, u.prio = t.prio,
           u.iAmOverdue = t.iAmOverdue, u.static_prio = t.static_prio,
           u.overdue_static_prio = t.overdue_static_prio
    PROVE  (Classed(u) <=> Classed(t)) /\ \A S : AtHome(u, S) <=> AtHome(t, S)
<1>1. (rt_task(u) <=> rt_task(t)) /\ (short_task(u) <=> short_task(t))
      /\ (overdue_task(u) <=> overdue_task(t)) /\ (other_task(u) <=> other_task(t))
  BY DEF rt_task, short_task, overdue_task, other_task
<1>2. Classed(u) <=> Classed(t)
  BY <1>1 DEF Classed
<1>3. \A S : AtHome(u, S) <=> AtHome(t, S)
  BY <1>1 DEF AtHome, pointer_to_my_active_prio_array
<1> QED BY <1>2, <1>3

LEMMA PlacedExit == IInv /\ Placed /\ Exit => Placed' /\ Orderly
<1> SUFFICES ASSUME IInv, Placed, Exit PROVE Placed' /\ Orderly
  OBVIOUS
<1> DEFINE p == current
           dead(q) == [task[q] EXCEPT !.state = "ZOMBIE"]
           orphan(q) == [task[q] EXCEPT !.p_opptr = Reaper]
           adopted(q) == q # Idle /\ task[q].state # "UNUSED" /\ task[q].p_opptr = p
           S2 == [task |-> task', rq |-> rq]
<1>1. /\ rq.panic = "none" /\ pc[p] # "user" /\ UNCHANGED <<rq, pc, child>>
      /\ task' = [q \in AllTask |-> IF q = p THEN dead(q) ELSE IF adopted(q) THEN orphan(q)
                                    ELSE task[q]]
  BY DEF Exit, InKernel
<1>2. /\ Kernel.task = task /\ Kernel.rq = rq /\ Task \subseteq AllTask
      /\ p \in Task /\ Kernel.rq.curr = p /\ task[p].array # NULL
      /\ Homed(Kernel) /\ Awake(Kernel) /\ Load(Kernel, child) /\ Childless(child, pc')
      /\ \A q \in AllTask : task[q] \in task_struct
  BY <1>1, Before, InCall, BeforePlaced, ChildlessKept, Base
<1>3. /\ \A q \in AllTask :
           /\ dead(q).array = task[q].array /\ dead(q).policy = task[q].policy
           /\ dead(q).prio = task[q].prio /\ dead(q).iAmOverdue = task[q].iAmOverdue
           /\ dead(q).static_prio = task[q].static_prio
           /\ dead(q).overdue_static_prio = task[q].overdue_static_prio
           /\ dead(q).justGotForked = task[q].justGotForked
      /\ \A q \in AllTask :
           /\ orphan(q).array = task[q].array /\ orphan(q).policy = task[q].policy
           /\ orphan(q).prio = task[q].prio /\ orphan(q).iAmOverdue = task[q].iAmOverdue
           /\ orphan(q).static_prio = task[q].static_prio /\ orphan(q).state = task[q].state
           /\ orphan(q).overdue_static_prio = task[q].overdue_static_prio
           /\ orphan(q).justGotForked = task[q].justGotForked
  BY <1>2 DEF task_struct
<1>4. S2.task = task' /\ S2.rq = rq
  OBVIOUS
<1> HIDE DEF dead, orphan, adopted, S2
<1>5. \A q \in AllTask : /\ S2.task[q].array = task[q].array
                         /\ Classed(S2.task[q]) <=> Classed(task[q])
                         /\ AtHome(S2.task[q], Kernel) <=> AtHome(task[q], Kernel)
                         /\ q # p => S2.task[q].state = task[q].state
  BY <1>1, <1>3, <1>4, SameClass
<1>6. \A u : AtHome(u, S2) <=> AtHome(u, Kernel)
  BY <1>2, <1>4, SameTraits
<1>7. Homed(S2)
  BY <1>2, <1>4, <1>5, <1>6 DEF Homed
<1>8. Awake(S2)
  BY <1>2, <1>4, <1>5 DEF Awake
<1>9. Load(S2, child)
  <2>1. \A q \in Task : q \in Sleepers(S2, child) <=> q \in Sleepers(Kernel, child)
    BY <1>2, <1>5 DEF Sleepers
  <2>2. SameLoad(Kernel, S2)
    BY <1>2, <1>4 DEF SameLoad
  <2> QED BY <1>2, <2>1, <2>2, SameSleepers
<1>10. child' = child /\ Becomes(S2)
  BY <1>1, <1>4 DEF Becomes
<1>11. Orderly
  <2>1. FlagsFall(Kernel, S2) /\ (Unflagged(Kernel) /\ S2.rq.misfiled => rq.misfiled)
    BY <1>1, <1>2, <1>3, <1>4 DEF FlagsFall
  <2> QED BY <1>10, <2>1, OrderlyIf
<1> QED BY <1>2, <1>7, <1>8, <1>9, <1>10, <1>11, PlacedIf

-----------------------------------------------------------------------------
(* The rest of do_fork().                                                  *)

\* The child has the policy of its parent, if do_fork() does not sleep.
Copied == "fork_block" \notin Workload => Policies

\* What do_fork() finds when it shares out the slice.
LEMMA SplitCall ==
    ASSUME IInv, Placed, Copied, rq.panic = "none", pc[current] = "fork_copied"
    PROVE  LET c == child[current]
           IN  /\ Fit(Kernel) /\ Homed(Kernel) /\ current = Kernel.rq.curr
               /\ Kernel.task[current].array # NULL /\ c \in AllTask \ {current} /\ c \in Task
               /\ Kernel.task[c].array = NULL /\ current \in Task /\ current \in AllTask
               /\ Sound(Kernel) /\ current \in RunnableIn(Kernel)
               /\ Kernel.task[current].policy = "SHORT" /\ "fork_block" \notin Workload
                    => Kernel.task[c].policy = "SHORT"
<1> DEFINE c == child[current]
<1>1. InFork(pc[current]) /\ pc[current] # "user"
  BY DEF InFork
<1>2. /\ Kernel.task = task /\ current \in Task /\ Task \subseteq AllTask /\ Sound(Kernel)
      /\ Kernel.task[current].array # NULL /\ Kernel.rq.curr = current
      /\ c \in Task \ {current} /\ task[c].array = NULL /\ current \in RunnableIn(Kernel)
  BY <1>1, InForkCall, InCall, Before
<1>3. "fork_block" \notin Workload /\ task[current].policy = "SHORT" => task[c].policy = "SHORT"
  BY <1>2 DEF Copied, Policies, CopyFollows
<1> QED BY <1>2, <1>3, BeforePlaced

LEMMA PlacedForkSplit == IInv /\ Placed /\ Copied /\ ForkSplit => Placed'
<1> SUFFICES ASSUME IInv, Placed, Copied, ForkSplit PROVE Placed'
  OBVIOUS
<1> DEFINE c == child[current]
<1>1. /\ rq.panic = "none" /\ pc[current] = "fork_copied" /\ UNCHANGED child
      /\ pc' = [pc EXCEPT ![current] = "fork_split"]
  BY DEF ForkSplit
<1>2. PICK b \in Bonuses, toExpired \in BOOLEAN :
         Becomes(fork_split(Kernel, current, child[current], b, toExpired))
  BY DEF ForkSplit
<1> DEFINE S2 == fork_split(Kernel, current, c, b, toExpired)
<1>3. /\ Fit(Kernel) /\ Homed(Kernel) /\ current = Kernel.rq.curr
      /\ Kernel.task[current].array # NULL /\ c \in AllTask \ {current} /\ c \in Task
      /\ Kernel.task[c].array = NULL /\ current \in Task /\ current \in AllTask
      /\ Sound(Kernel) /\ current \in RunnableIn(Kernel)
      /\ Kernel.task[current].policy = "SHORT" /\ "fork_block" \notin Workload
            => Kernel.task[c].policy = "SHORT"
  BY <1>1, SplitCall
<1>4. Awake(Kernel) /\ Load(Kernel, child) /\ Childless(child, pc)
      /\ pc \in [AllTask -> KernelStep] /\ Task \subseteq AllTask
  BY <1>1, BeforePlaced, Before
<1>5. Childless(child, pc')
  BY <1>1, <1>3, <1>4 DEF Childless, InFork
<1>6. Reaches(Kernel, S2, {})
  <2>1. c \in Task \ {current}
    BY <1>3
  <2> HIDE DEF c
  <2> QED BY <1>3, <2>1, SplitReaches
<1>7. child' = child /\ Becomes(S2)
  BY <1>1, <1>2
<1>8. CASE Kernel.task[current].time_slice = 0
  <2>1. S2 = put_rq(Kernel, [Kernel.rq EXCEPT !.panic = "BUG"])
    BY <1>8 DEF fork_split
  <2>2. IsRunqueue(Kernel.rq)
    BY <1>3 DEF Fit, Records
  <2>3. S2.rq.panic = "BUG"
    BY <2>1, <2>2 DEF put_rq, IsRunqueue
  <2> QED BY <1>5, <1>7, <2>3, PlacedIf
<1>9. CASE Kernel.task[current].time_slice # 0
  <2>1. /\ Fit(S2) /\ Homed(S2) /\ SameLoad(Kernel, S2) /\ S2.rq.curr = Kernel.rq.curr
        /\ \A q \in AllTask : S2.task[q].state = Kernel.task[q].state
    <3> DEFINE p == current
    <3>1. /\ p = Kernel.rq.curr /\ Kernel.task[p].array # NULL /\ c \in AllTask \ {p}
          /\ Kernel.task[p].time_slice # 0
          /\ Kernel.task[p].policy = "SHORT" /\ "fork_block" \notin Workload
               => Kernel.task[c].policy = "SHORT"
      BY <1>3, <1>9
    <3> HIDE DEF p, c
    <3>2. /\ Fit(fork_split(Kernel, p, c, b, toExpired)) /\ Homed(fork_split(Kernel, p, c, b, toExpired))
          /\ SameLoad(Kernel, fork_split(Kernel, p, c, b, toExpired))
          /\ fork_split(Kernel, p, c, b, toExpired).rq.curr = Kernel.rq.curr
          /\ \A q \in AllTask : fork_split(Kernel, p, c, b, toExpired).task[q].state
                                  = Kernel.task[q].state
      BY <1>3, <3>1, SplitHomed
    <3> QED BY <3>2 DEF p
  <2>2. S2.rq.panic = "none" => \A q \in AllTask : S2.task[q].array # NULL <=> Kernel.task[q].array # NULL
    BY <1>6 DEF Reaches, Stopped
  <2> HIDE DEF S2
  <2>3. S2.rq.panic = "none" => Awake(S2)
    BY <1>4, <2>1, <2>2 DEF Awake
  <2>4. S2.rq.panic = "none" => Load(S2, child)
    <3> SUFFICES ASSUME S2.rq.panic = "none" PROVE Load(S2, child)
      OBVIOUS
    <3>1. \A q \in Task : q \in Sleepers(S2, child) <=> q \in Sleepers(Kernel, child)
      BY <1>4, <2>1, <2>2 DEF Sleepers
    <3> QED BY <1>4, <2>1, <3>1, SameSleepers
  <2> QED BY <1>5, <1>7, <2>1, <2>3, <2>4, PlacedIf
<1> QED BY <1>8, <1>9

\* The child becomes runnable, and nobody else does.
LEMMA WakeCall ==
    ASSUME IInv, rq.panic = "none", pc[current] = "fork_split", NEW clone_parent \in BOOLEAN,
           NEW k \in forked_prios(task[child[current]])
    PROVE  LET c == child[current]
               ch2 == [child EXCEPT ![current] = NoChild]
               S2 == fork_wake(Kernel, current, c, clone_parent, k)
           IN  /\ c \in Task \ {current} /\ current \in Task
               /\ \A q \in Task : ch2[q] = IF q = current THEN NoChild ELSE child[q]
               /\ \A q \in Task : Built(ch2, q) <=> Built(child, q) /\ q # c
               /\ Built(child, c)
               /\ S2.rq.panic = "none" =>
                    \A q \in Task : S2.task[q].array # NULL <=> task[q].array # NULL \/ q = c
<1> DEFINE c == child[current]
           ch2 == [child EXCEPT ![current] = NoChild]
           S2 == fork_wake(Kernel, current, c, clone_parent, k)
           parent == parent_of(Kernel, current, clone_parent)
           u == linked(Kernel, c, parent)
           S0 == put_task(Kernel, c, u)
<1>1. InFork(pc[current])
  BY DEF InFork
<1>2. /\ Kernel.task = task /\ Good(Kernel, child, pc) /\ Sound(Kernel) /\ Family(Kernel, child)
      /\ Steps(Kernel, child, pc) /\ child \in [Task -> Task \cup {NoChild}]
      /\ Task \subseteq AllTask /\ KernelType(Kernel)
  BY Before DEF Good
<1>3. /\ c \in Task \ {current} /\ task[c].array = NULL /\ Life(task[c]) = "alive"
      /\ \A q \in Task : task[q].p_opptr # c
      /\ ~Built(ch2, c) /\ ~Built(child, current) /\ Alive(Kernel, current) /\ pc[current] # "user"
  BY <1>1, InForkCall
<1>4. current \in Task /\ current \in AllTask
  BY <1>3, Before
<1>5. parent \in AllTask /\ parent # c /\ (parent \in Task => task[parent].p_opptr # c)
  <2>1. task[current].p_opptr \in AllTask
    BY <1>2, <1>4, Fields
  <2>2. parent = IF clone_parent THEN task[current].p_opptr ELSE current
    BY <1>2 DEF parent_of
  <2> HIDE DEF parent
  <2> QED BY <1>3, <1>4, <2>1, <2>2
<1>6. /\ Reaches(S0, S2, {c})
      /\ u.array = NULL
      /\ \A q \in AllTask : S0.task[q] = IF q = c THEN u ELSE task[q]
  <2> DEFINE p == current
  <2>1. /\ Sound(Kernel) /\ k \in forked_prios(Kernel.task[c]) /\ Kernel.task[c].array = NULL
        /\ Life(Kernel.task[c]) = "alive" /\ p \in Task /\ c \in Task \ {p}
        /\ parent \in AllTask /\ parent # c
        /\ parent \in Task => Kernel.task[parent].p_opptr # c
        /\ \A q \in Task : Kernel.task[q].p_opptr # c
        /\ parent = parent_of(Kernel, p, clone_parent)
    BY <1>2, <1>3, <1>4, <1>5
  <2> HIDE DEF p, c, parent, u, S0, S2
  <2>2. /\ linked(Kernel, c, parent).array = NULL
        /\ Reaches(put_task(Kernel, c, linked(Kernel, c, parent)),
                   fork_wake(Kernel, p, c, clone_parent, k), {c})
    BY <2>1, ForkWakes
  <2>3. \A q \in AllTask : put_task(Kernel, c, linked(Kernel, c, parent)).task[q]
                              = IF q = c THEN linked(Kernel, c, parent) ELSE Kernel.task[q]
    BY <1>2, <2>1 DEF put_task, KernelType, Tasks
  <2> QED BY <1>2, <2>2, <2>3 DEF u, S0, S2, p
<1> HIDE DEF u, S0, S2
<1>7. S2.rq.panic = "none" =>
         \A q \in Task : S2.task[q].array # NULL <=> task[q].array # NULL \/ q = c
  BY <1>2, <1>6 DEF Reaches, Stopped
<1>8. \A q \in Task : ch2[q] = IF q = current THEN NoChild ELSE child[q]
  BY <1>2
<1>9. Built(child, c)
  BY <1>4 DEF Built
<1> HIDE DEF ch2
<1>10. \A q \in Task : Built(ch2, q) <=> Built(child, q) /\ q # c
  BY <1>3, <1>4, <1>8, Constants DEF Built
<1> QED BY <1>3, <1>4, <1>7, <1>8, <1>9, <1>10 DEF S2, ch2

LEMMA PlacedForkWake ==
    ASSUME NEW clone_parent \in BOOLEAN PROVE IInv /\ Placed /\ ForkWake(clone_parent) => Placed'
<1> SUFFICES ASSUME IInv, Placed, ForkWake(clone_parent) PROVE Placed'
  OBVIOUS
<1> DEFINE p == current
           c == child[p]
           ch2 == [child EXCEPT ![p] = NoChild]
<1>1. /\ rq.panic = "none" /\ pc[p] = "fork_split" /\ child' = ch2 /\ ReturnsToUser
  BY DEF ForkWake
<1>2. PICK k \in forked_prios(task[c]) : Becomes(fork_wake(Kernel, p, c, clone_parent, k))
  BY DEF ForkWake
<1> DEFINE S2 == fork_wake(Kernel, p, c, clone_parent, k)
<1>3. /\ Fit(Kernel) /\ Homed(Kernel) /\ Awake(Kernel) /\ Load(Kernel, child)
      /\ Childless(child, pc) /\ Kernel.task = task /\ Kernel.rq.curr = p
      /\ Task \subseteq AllTask /\ pc \in [AllTask -> KernelStep]
  BY <1>1, BeforePlaced, Before DEF current
<1>4. /\ c \in Task \ {p} /\ p \in Task
      /\ \A q \in Task : ch2[q] = IF q = p THEN NoChild ELSE child[q]
      /\ \A q \in Task : Built(ch2, q) <=> Built(child, q) /\ q # c
      /\ Built(child, c)
      /\ S2.rq.panic = "none" =>
           \A q \in Task : S2.task[q].array # NULL <=> task[q].array # NULL \/ q = c
  BY <1>1, WakeCall
<1>5. /\ Homed(S2) /\ SameLoad(Kernel, S2) /\ S2.rq.curr = Kernel.rq.curr
      /\ \A q \in AllTask : S2.task[q].state = IF q = c THEN "RUNNING" ELSE Kernel.task[q].state
  <2>1. p = Kernel.rq.curr /\ c \in AllTask \ {p} /\ k \in forked_prios(Kernel.task[c])
    BY <1>3, <1>4
  <2> HIDE DEF p, c
  <2> QED BY <1>3, <2>1, ForkWakeHomed
<1> HIDE DEF S2, ch2
<1>6. S2.rq.panic = "none" => Awake(S2)
  BY <1>3, <1>4, <1>5 DEF Awake
<1>7. S2.rq.panic = "none" => Load(S2, ch2)
  <2> SUFFICES ASSUME S2.rq.panic = "none" PROVE Load(S2, ch2)
    OBVIOUS
  <2>1. \A q \in Task : q \in Sleepers(S2, ch2) <=> q \in Sleepers(Kernel, child)
    BY <1>3, <1>4, <1>5 DEF Sleepers
  <2> QED BY <1>3, <1>5, <2>1, SameSleepers
<1>8. Childless(ch2, pc')
  <2>1. \A q \in Task : pc'[q] = IF q = p THEN "user" ELSE pc[q]
    BY <1>1, <1>3 DEF ReturnsToUser
  <2> QED BY <1>3, <1>4, <2>1 DEF Childless
<1>9. Becomes(S2) /\ Childless(child', pc') /\ (S2.rq.panic = "none" => Load(S2, child'))
  BY <1>1, <1>2, <1>7, <1>8 DEF S2
<1> QED BY <1>5, <1>6, <1>9, PlacedIf

-----------------------------------------------------------------------------
(* The specification.                                                      *)

LEMMA InitPlaced == Init => Placed
<1> SUFFICES ASSUME Init PROVE Placed
  OBVIOUS
<1>1. /\ task = [p \in AllTask |-> IF p = Idle THEN IdleTask
                                   ELSE IF p \in InitTasks THEN BootTask(p) ELSE UnusedTask]
      /\ child = [p \in Task |-> NoChild]
      /\ rq.curr = Idle /\ rq.nr_uninterruptible = 0 /\ rq.active = "array0"
  BY DEF Init
<1>2. Kernel.task = task /\ Kernel.rq = rq
  BY DEF Kernel
<1>3. /\ UnusedTask.policy = "OTHER" /\ UnusedTask.static_prio = DefaultPrio
      /\ UnusedTask.prio = DefaultPrio /\ UnusedTask.iAmOverdue = FALSE
      /\ UnusedTask.array = NULL /\ UnusedTask.state = "UNUSED"
  BY DEF UnusedTask
<1>4. /\ IdleTask.policy = "OTHER" /\ IdleTask.static_prio = DefaultPrio
      /\ IdleTask.prio = MAX_PRIO /\ IdleTask.iAmOverdue = FALSE
      /\ IdleTask.array = NULL /\ IdleTask.state = "RUNNING"
  BY DEF IdleTask, UnusedTask
<1>5. \A p \in Task : /\ BootTask(p).policy = "OTHER" /\ BootTask(p).static_prio = DefaultPrio
                      /\ BootTask(p).prio = DefaultPrio /\ BootTask(p).iAmOverdue = FALSE
                      /\ BootTask(p).array = "array0" /\ BootTask(p).state = "RUNNING"
  BY DEF BootTask, UnusedTask
<1>6. ASSUME NEW q \in AllTask
      PROVE  /\ Classed(task[q]) /\ AtHome(task[q], Kernel)
             /\ task[q].array # NULL => task[q].state = "RUNNING"
             /\ task[q].state # "UNINTERRUPTIBLE"
  <2>1. /\ task[q].policy = "OTHER" /\ task[q].static_prio = DefaultPrio
        /\ task[q].prio \in {DefaultPrio, MAX_PRIO} /\ task[q].iAmOverdue = FALSE
        /\ task[q].array \in {NULL, "array0"}
        /\ task[q].array # NULL => task[q].state = "RUNNING"
        /\ task[q].state \in {"RUNNING", "UNUSED"}
    BY <1>1, <1>3, <1>4, <1>5 DEF AllTask
  <2>2. ~rt_task(task[q]) /\ other_task(task[q]) /\ ~short_task(task[q]) /\ ~overdue_task(task[q])
    BY <2>1, Levels DEF rt_task, other_task, short_task, overdue_task
  <2>3. Classed(task[q])
    BY <2>1, <2>2, Levels DEF Classed, Policy
  <2>4. AtHome(task[q], Kernel)
    BY <1>1, <1>2, <2>1, <2>2 DEF AtHome, pointer_to_my_active_prio_array
  <2> QED BY <2>1, <2>3, <2>4
<1>7. Homed(Kernel)
  BY <1>2, <1>6 DEF Homed
<1>8. Awake(Kernel)
  BY <1>2, <1>6 DEF Awake, AllTask
<1>9. Load(Kernel, child)
  <2>1. Sleepers(Kernel, child) = {}
    BY <1>2, <1>6 DEF Sleepers, AllTask
  <2> QED BY <1>1, <1>2, <2>1, FS_EmptySet DEF Load
<1>10. Childless(child, pc)
  BY <1>1 DEF Childless
<1> QED BY <1>7, <1>8, <1>9, <1>10 DEF Placed

LEMMA NextPlaced == IInv /\ Placed /\ Copied /\ Next => Placed'
<1> SUFFICES ASSUME IInv, Placed, Copied, Next PROVE Placed'
  OBVIOUS
<1>1. CASE Tick
  BY <1>1, PlacedTick
<1>2. CASE Reschedule
  BY <1>2, PlacedReschedule
<1>3. CASE SysEnter
  BY <1>3, PlacedSysEnter
<1>4. CASE SysReturn
  BY <1>4, PlacedSysReturn
<1>5. CASE Yield
  BY <1>5, PlacedYield
<1>6. CASE \E s \in {"RUNNING", "INTERRUPTIBLE", "UNINTERRUPTIBLE"} : SetState(s)
  <2>1. {"RUNNING", "INTERRUPTIBLE", "UNINTERRUPTIBLE"} = State \ {"ZOMBIE", "UNUSED"}
    BY DEF State
  <2> QED BY <1>6, <2>1, PlacedSetState
<1>7. ASSUME NEW p \in Task,
             \/ Wake(p) \/ Reap(p) \/ ForkCopy(p)
             \/ \E ms \in ReqTimes : RenewShort(p, ms) \/ MakeShort(p, ms)
             \/ \E k \in UserPrio : SetNice(p, k)
             \/ SetNormal(p, "OTHER", DefaultPrio)
             \/ \E policy \in {"FIFO", "RR"}, k \in 0 .. MAX_RT_PRIO - 2 : SetNormal(p, policy, k)
      PROVE  Placed'
  <2>1. CASE Wake(p)
    BY <2>1, PlacedWake
  <2>2. CASE Reap(p)
    BY <2>2, PlacedReap
  <2>3. CASE ForkCopy(p)
    BY <2>3, PlacedForkCopy
  <2>4. CASE \E ms \in ReqTimes : RenewShort(p, ms) \/ MakeShort(p, ms)
    BY <2>4, PlacedRenewShort, PlacedMakeShort
  <2>5. CASE \E k \in UserPrio : SetNice(p, k)
    BY <2>5, PlacedSetNice
  <2>6. CASE SetNormal(p, "OTHER", DefaultPrio)
    BY <2>6, PlacedSetNormal, Constants
  <2>7. ASSUME NEW policy \in {"FIFO", "RR"}, NEW k \in 0 .. MAX_RT_PRIO - 2,
               SetNormal(p, policy, k)
        PROVE  Placed'
    <3>1. k \in Prio
      BY Constants DEF Prio
    <3> QED BY <2>7, <3>1, PlacedSetNormal
  <2> QED BY <1>7, <2>1, <2>2, <2>3, <2>4, <2>5, <2>6, <2>7
<1>8. CASE ForkFail
  BY <1>8, PlacedForkFail
<1>9. CASE ForkSplit
  BY <1>9, PlacedForkSplit
<1>10. CASE \E cp \in BOOLEAN : ForkWake(cp)
  BY <1>10, PlacedForkWake
<1>11. CASE Exit
  BY <1>11, PlacedExit
<1> QED BY <1>1, <1>2, <1>3, <1>4, <1>5, <1>6, <1>7, <1>8, <1>9, <1>10, <1>11 DEF Next

LEMMA StutterPlaced == Placed /\ UNCHANGED vars => Placed'
<1> SUFFICES ASSUME Placed, UNCHANGED vars PROVE Placed'
  OBVIOUS
<1>1. task' = task /\ rq' = rq /\ pc' = pc /\ child' = child
  BY DEF vars
<1>2. Kernel' = Kernel
  BY <1>1 DEF Kernel
<1>3. (Homed(Kernel) /\ Awake(Kernel) /\ Load(Kernel, child) /\ Childless(child, pc))'
         <=> (Homed(Kernel) /\ Awake(Kernel) /\ Load(Kernel, child) /\ Childless(child, pc))
  BY <1>1, <1>2
<1> QED BY <1>1, <1>3 DEF Placed

LEMMA CopiedKept == IInv /\ IInv' /\ Copied /\ [Next]_vars => Copied'
  BY NextRefines, StutterRefines DEF Refines, Copied

\* Placed is an invariant of the specification.
LEMMA PlacedInductive == Spec => []Placed
<1>1. Init => IInv /\ Copied /\ Placed
  BY InitIInv, InitRefines, InitPlaced DEF Copied
<1>2. IInv /\ [Next]_vars => IInv'
  BY StepNext, StepStutter
<1>3. IInv /\ IInv' /\ Copied /\ [Next]_vars => Copied'
  BY CopiedKept
<1>4. IInv /\ Placed /\ Copied /\ [Next]_vars => Placed'
  BY NextPlaced, StutterPlaced
<1> QED BY <1>1, <1>2, <1>3, <1>4, PTL DEF Spec

(***************************************************************************)
(* A runnable task waits on the array pointer_to_my_active_prio_array()    *)
(* gives for it, or as an OTHER task on the expired array: after any       *)
(* change of class, priority or nice value, and after any switch of active *)
(* and expired.  So a dequeue_task() through that function finds its task. *)
(***************************************************************************)
THEOREM HomeCorrect == Spec => []HomeMatchesClass
<1>1. Placed => HomeMatchesClass
  BY DEF Placed, Homed, AtHome, HomeMatchesClass, Runnable, Kernel, AllTask
<1> QED BY <1>1, PlacedInductive, PTL

(***************************************************************************)
(* nr_uninterruptible is the number of the tasks asleep in                 *)
(* TASK_UNINTERRUPTIBLE: no wakeup before schedule(), no fork, no change   *)
(* of policy and no exit leaves it off by one for the load average.        *)
(***************************************************************************)
THEOREM LoadCorrect == Spec => []UninterruptibleExact
<1>1. Placed => UninterruptibleExact
  <2> SUFFICES ASSUME Placed, rq.panic = "none"
               PROVE  rq.nr_uninterruptible = Cardinality({p \in Task \ Runnable :
                                    task[p].state = "UNINTERRUPTIBLE" /\ Hashed(p)})
    BY DEF UninterruptibleExact
  <2>1. Kernel.task = task /\ Kernel.rq = rq
    BY DEF Kernel
  <2>2. Load(Kernel, child)
    BY DEF Placed
  <2>3. Sleepers(Kernel, child)
           = {p \in Task \ Runnable : task[p].state = "UNINTERRUPTIBLE" /\ Hashed(p)}
    BY <2>1 DEF Sleepers, Runnable, Hashed, Built
  <2> QED BY <2>1, <2>2, <2>3 DEF Load
<1> QED BY <1>1, PlacedInductive, PTL

-----------------------------------------------------------------------------
(***************************************************************************)
(* No dequeue_task() names a wrong array.  Three features of do_fork() can *)
(* make one do so: a tick or wakeup after the slice was split, CLONE_PARENT *)
(* and a wait in the copies.  Without them a task is flagged only from the *)
(* split of its slice to the wakeup of the child, both are SHORT, and the  *)
(* parent is on the CPU.                                                   *)
(***************************************************************************)
Calm == Workload \cap {"clone_parent", "irq_in_split", "fork_block"} = {}

\* A flagged task and the child it is about to wake are SHORT.
FlaggedBetween ==
    \A q \in AllTask : task[q].justGotForked =>
        q \in Task /\ pc[q] = "fork_split" /\ short_task(task[q]) /\ short_task(task[child[q]])

\* A SHORT task has not copied itself when it was overdue.
CopyNotOverdue ==
    \A q \in Task : pc[q] = "fork_copied" /\ short_task(task[q]) => ~task[child[q]].iAmOverdue

Tidy ==
    /\ ~rq.misfiled
    /\ rq.panic = "none" => FlaggedBetween /\ CopyNotOverdue

\* Only the task on the CPU can be flagged.
LEMMA NobodyFlagged ==
    ASSUME IInv, Policies, Tidy, rq.panic = "none", pc[current] # "fork_split"
    PROVE  NoFlags
  BY DEF NoFlags, Tidy, FlaggedBetween, Policies, ForkAlone, InFork

LEMMA TidyIf ==
    ASSUME Tidy, NoFlags, Orderly, CopyNotOverdue'
    PROVE  Tidy'
<1>1. NoFlags' => FlaggedBetween'
  BY DEF NoFlags, FlaggedBetween
<1> QED BY <1>1 DEF Tidy, Orderly

\* A step outside do_fork(), and one that leaves it.
LEMMA TidyOutside ==
    ASSUME IInv, Policies, Tidy, rq.panic = "none", pc[current] # "fork_split", Orderly,
           \/ ReturnsToUser
           \/ ~InFork(pc[current]) /\ (UNCHANGED pc \/ pc' = [pc EXCEPT ![current] = "kernel"])
    PROVE  Tidy'
<1>1. pc \in [AllTask -> KernelStep] /\ Task \subseteq AllTask /\ current \in AllTask
  BY Before, Base
<1>2. \A q \in Task : pc'[q] # "fork_copied"
  BY <1>1 DEF ReturnsToUser, InFork, Policies, ForkAlone
<1>3. CopyNotOverdue'
  BY <1>2 DEF CopyNotOverdue
<1> QED BY <1>3, NobodyFlagged, TidyIf

\* An interrupt while do_fork() copies.
LEMMA TidyInCopy ==
    ASSUME IInv, Policies, Tidy, rq.panic = "none", pc[current] = "fork_copied", Orderly,
           UNCHANGED pc, UNCHANGED child,
           short_task(task'[current]) => short_task(task[current]),
           task'[child[current]].iAmOverdue = task[child[current]].iAmOverdue
    PROVE  Tidy'
<1>1. pc' = pc /\ child' = child
  OBVIOUS
<1>2. \A q \in Task : pc[q] = "fork_copied" => q = current
  BY DEF Policies, ForkAlone, InFork
<1>3. CopyNotOverdue
  BY DEF Tidy
<1>4. \A q \in Task : pc[q] = "fork_copied" /\ short_task(task'[q]) => ~task'[child[q]].iAmOverdue
  BY <1>2, <1>3 DEF CopyNotOverdue
<1>5. CopyNotOverdue'
  BY <1>1, <1>4 DEF CopyNotOverdue, short_task
<1> QED BY <1>5, NobodyFlagged, TidyIf

LEMMA TidyTick ==
    ASSUME Calm, IInv, Policies, Placed, Tidy, Tick
    PROVE  Tidy'
<1>1. /\ rq.panic = "none" /\ UNCHANGED pc /\ UNCHANGED child /\ pc[current] # "fork_split"
      /\ pc[current] \in {"user", "kernel", "fork_copied"}
  BY DEF Tick, InterruptsOpen, Calm
<1>2. Orderly
  BY PlacedTick
<1>3. CASE pc[current] # "fork_copied"
  BY <1>1, <1>2, <1>3, TidyOutside DEF InFork
<1>4. CASE pc[current] = "fork_copied"
  <2> DEFINE c == child[current]
  <2>1. PICK b \in Bonuses, toExpired \in BOOLEAN : Becomes(scheduler_tick(Kernel, b, toExpired))
    BY DEF Tick
  <2>2. /\ Records(Kernel) /\ Kernel.rq.curr = current /\ Kernel.task = task /\ current \in AllTask
        /\ IsStruct(task[current]) /\ task[current].iAmOverdue \in BOOLEAN
        /\ Marked(task[current])
    BY Base DEF Policies, AllMarked
  <2>3. c \in Task \ {current} /\ c \in AllTask /\ current \in Task
    <3>1. InFork(pc[current]) /\ pc[current] # "user"
      BY <1>4 DEF InFork
    <3> QED BY <1>1, <3>1, InForkCall, InCall, Base
  <2> DEFINE S2 == scheduler_tick(Kernel, b, toExpired)
  <2>4. PICK u : Ticked(task[current], u, b) /\ Changes(Kernel, S2, current, u)
    BY <2>2, TickChanges
  <2> HIDE DEF S2, c
  <2>5. task' = S2.task
    BY <2>1 DEF Becomes, S2
  <2>6. Account(task'[current]) = Account(u) /\ Account(task'[c]) = Account(task[c])
    BY <2>2, <2>3, <2>4, <2>5 DEF Changes
  <2>7. Lapses(task[current], u)
    BY <2>2, <2>4, TickedLapses
  <2>8. Class(task[current]) # "none"
    BY <1>1, <2>3, CurrentExists DEF Class
  <2>9. short_task(task'[current]) => short_task(u)
    BY <2>6 DEF Account, short_task
  <2>10. short_task(u) => short_task(task[current])
    BY <2>7, <2>8 DEF Lapses, Class
  <2>11. task'[c].iAmOverdue = task[c].iAmOverdue
    BY <2>6 DEF Account
  <2> QED BY <1>1, <1>2, <1>4, <2>9, <2>10, <2>11, TidyInCopy DEF c
<1> QED BY <1>3, <1>4

LEMMA TidyWake ==
    ASSUME Calm, IInv, Policies, Placed, Tidy, NEW p \in Task, Wake(p)
    PROVE  Tidy'
<1>1. /\ rq.panic = "none" /\ UNCHANGED pc /\ UNCHANGED child /\ pc[current] # "fork_split"
      /\ pc[current] \in {"user", "kernel", "fork_copied"} /\ task[p].state # "UNUSED"
  BY DEF Wake, InterruptsOpen, Calm
<1>2. Orderly
  BY PlacedWake
<1>3. CASE pc[current] # "fork_copied"
  BY <1>1, <1>2, <1>3, TidyOutside DEF InFork
<1>4. CASE pc[current] = "fork_copied"
  <2> DEFINE c == child[current]
  <2>1. PICK k : Becomes(try_to_wake_up(Kernel, p, k))
    BY DEF Wake
  <2>2. Records(Kernel) /\ Kernel.task = task /\ current \in AllTask /\ p \in AllTask
    BY Base
  <2>3. c \in AllTask
    <3>1. InFork(pc[current])
      BY <1>4 DEF InFork
    <3> QED BY <1>1, <3>1, InForkCall, Base
  <2> DEFINE S2 == try_to_wake_up(Kernel, p, k)
  <2>4. Still(Kernel, S2)
    BY <1>1, <2>2, StillWakeUp
  <2> HIDE DEF S2, c
  <2>5. task' = S2.task
    BY <2>1 DEF Becomes, S2
  <2>6. /\ Account(task'[current]) = Account(task[current])
        /\ Account(task'[c]) = Account(task[c])
    BY <2>2, <2>3, <2>4, <2>5 DEF Still, Keeps
  <2>7. short_task(task'[current]) => short_task(task[current])
    BY <2>6 DEF Account, short_task
  <2>8. task'[c].iAmOverdue = task[c].iAmOverdue
    BY <2>6 DEF Account
  <2> QED BY <1>1, <1>2, <1>4, <2>7, <2>8, TidyInCopy DEF c
<1> QED BY <1>3, <1>4

\* The system calls, and schedule().
LEMMA TidyCall ==
    ASSUME Calm, IInv, Policies, Placed, Tidy, Orderly,
           \/ InKernel /\ (ReturnsToUser \/ UNCHANGED pc)
           \/ Reschedule \/ SysEnter \/ ForkFail \/ \E state : SetState(state)
    PROVE  Tidy'
<1>1. CASE InKernel /\ (ReturnsToUser \/ UNCHANGED pc)
  BY <1>1, TidyOutside DEF InKernel, InFork
<1>2. CASE Reschedule
  BY <1>2, TidyOutside DEF Reschedule, InFork, Calm
<1>3. CASE SysEnter
  BY <1>3, TidyOutside DEF SysEnter, InFork
<1>4. CASE ForkFail
  BY <1>4, TidyOutside DEF ForkFail
<1>5. CASE \E state : SetState(state)
  BY <1>5, TidyOutside DEF SetState, InFork, Calm
<1> QED BY <1>1, <1>2, <1>3, <1>4, <1>5

\* A task that is not overdue copies itself.
LEMMA TidyForkCopy ==
    ASSUME IInv, Policies, Placed, Tidy, NEW c \in Task, ForkCopy(c)
    PROVE  Tidy'
<1>1. /\ rq.panic = "none" /\ pc[current] = "kernel" /\ task[c].state = "UNUSED"
      /\ task' = [task EXCEPT ![c] = fork_copy(task[current])]
      /\ child' = [child EXCEPT ![current] = c]
      /\ pc' = [pc EXCEPT ![current] = "fork_copied", ![c] = "user"]
  BY DEF ForkCopy, InKernel
<1>2. /\ Orderly /\ current \in Task /\ task[current].state # "UNUSED"
      /\ pc \in [AllTask -> KernelStep] /\ child \in [Task -> Task \cup {NoChild}]
      /\ Task \subseteq AllTask /\ DOMAIN task = AllTask /\ IsStruct(task[current])
  <2>1. pc[current] # "user"
    BY <1>1
  <2>2. current \in Task /\ task[current].state # "UNUSED"
    BY <1>1, <2>1, InCall
  <2> QED BY <1>1, <2>2, Before, Base, PlacedForkCopy DEF Records
<1>3. /\ fork_copy(task[current]).iAmOverdue = task[current].iAmOverdue /\ c # current
  BY <1>1, <1>2 DEF fork_copy, IsStruct
<1>4. \A q \in Task : pc'[q] = "fork_copied" => q = current
  BY <1>1, <1>2 DEF Policies, ForkAlone, InFork
<1>5. /\ child'[current] = c /\ task'[c].iAmOverdue = task[current].iAmOverdue
      /\ task'[current] = task[current]
  BY <1>1, <1>2, <1>3
<1>6. \A q \in Task : pc'[q] = "fork_copied" /\ short_task(task'[q]) => ~task'[child'[q]].iAmOverdue
  BY <1>4, <1>5 DEF short_task
<1>7. CopyNotOverdue'
  BY <1>6 DEF CopyNotOverdue, short_task
<1>8. pc[current] # "fork_split"
  BY <1>1
<1> QED BY <1>1, <1>2, <1>7, <1>8, NobodyFlagged, TidyIf

\* What do_fork() keeps for the parent and gives the child.
LEMMA SplitShares ==
    ASSUME NEW t, IsStruct(t), NEW u, IsStruct(u), ~t.justGotForked
    PROVE  /\ parent_slice(t).justGotForked => short_task(t)
           /\ short_task(parent_slice(t)) <=> short_task(t)
           /\ child_slice(t, u).justGotForked = u.justGotForked
           /\ short_task(t) /\ ~u.iAmOverdue => short_task(child_slice(t, u))
<1>1. overdue_task(t) => ~short_task(t) /\ t.policy = "SHORT"
  BY DEF overdue_task, short_task
<1>2. /\ parent_slice(t).justGotForked => short_task(t)
      /\ parent_slice(t).policy = t.policy /\ parent_slice(t).iAmOverdue = t.iAmOverdue
  BY DEF parent_slice, IsStruct
<1>3. /\ child_slice(t, u).justGotForked = u.justGotForked
      /\ child_slice(t, u).iAmOverdue = u.iAmOverdue
      /\ short_task(t) => child_slice(t, u).policy = "SHORT"
  BY DEF child_slice, IsStruct, short_task
<1> QED BY <1>2, <1>3 DEF short_task

LEMMA TidyForkSplit ==
    ASSUME Calm, IInv, Policies, Placed, Tidy, ForkSplit
    PROVE  Tidy'
<1> DEFINE p == current
           c == child[p]
           t == task[p]
           u == task[c]
           w == parent_slice(t)
           v == child_slice(t, u)
<1>1. /\ rq.panic = "none" /\ pc[p] = "fork_copied" /\ child' = child /\ ~rq.misfiled
      /\ pc' = [pc EXCEPT ![p] = "fork_split"] /\ pc[p] # "fork_split"
  BY DEF ForkSplit, Tidy
<1>2. PICK b \in Bonuses, toExpired \in BOOLEAN : Becomes(fork_split(Kernel, p, c, b, toExpired))
  BY DEF ForkSplit
<1>3. /\ Fit(Kernel) /\ Homed(Kernel) /\ p = Kernel.rq.curr
      /\ Kernel.task[p].array # NULL /\ c \in AllTask \ {p} /\ c \in Task
      /\ Kernel.task[c].array = NULL /\ p \in Task /\ p \in AllTask
      /\ Kernel.task[p].policy = "SHORT" /\ "fork_block" \notin Workload
            => Kernel.task[c].policy = "SHORT"
  BY <1>1, SplitCall DEF Copied
<1>4. /\ NoFlags /\ Kernel.task = task /\ Kernel.rq = rq /\ Records(Kernel)
      /\ pc \in [AllTask -> KernelStep] /\ DOMAIN task = AllTask
      /\ IsStruct(t) /\ IsStruct(u) /\ IsRunqueue(rq)
  BY <1>1, <1>3, NobodyFlagged, Base, Before DEF Records
<1>5. ~t.justGotForked /\ ~u.justGotForked
  BY <1>3, <1>4 DEF NoFlags
<1>6. \A q \in AllTask : pc'[q] = IF q = p THEN "fork_split" ELSE pc[q]
  BY <1>1, <1>4
<1>7. CopyNotOverdue'
  <2>1. \A q \in Task : pc'[q] # "fork_copied"
    BY <1>3, <1>6 DEF Policies, ForkAlone, InFork, AllTask
  <2> QED BY <2>1 DEF CopyNotOverdue
<1> DEFINE S2 == fork_split(Kernel, p, c, b, toExpired)
<1>8. task' = S2.task /\ rq' = S2.rq
  BY <1>2 DEF Becomes
<1>9. CASE t.time_slice = 0
  <2>1. S2 = put_rq(Kernel, [Kernel.rq EXCEPT !.panic = "BUG"])
    BY <1>4, <1>9 DEF fork_split
  <2>2. rq' = [rq EXCEPT !.panic = "BUG"]
    BY <1>4, <1>8, <2>1 DEF put_rq
  <2>3. rq'.panic = "BUG" /\ rq'.misfiled = rq.misfiled
    BY <1>4, <2>2 DEF IsRunqueue
  <2> QED BY <1>1, <2>3 DEF Tidy
<1>10. CASE t.time_slice # 0
  <2>1. /\ S2.rq.misfiled <=> rq.misfiled
        /\ \/ \A q \in AllTask : S2.task[q] = IF q = p THEN w ELSE IF q = c THEN v ELSE task[q]
           \/ ~S2.task[p].justGotForked /\ FlagsFall(Kernel, S2)
    <3>1. p = Kernel.rq.curr /\ c \in AllTask \ {p} /\ Kernel.task[p].time_slice # 0
      BY <1>3, <1>4, <1>10
    <3> HIDE DEF p, c
    <3> QED BY <1>3, <1>4, <3>1, SplitHomed
  <2> HIDE DEF S2
  <2>2. /\ w.justGotForked => short_task(t)
        /\ short_task(w) <=> short_task(t)
        /\ v.justGotForked = u.justGotForked
        /\ short_task(t) /\ ~u.iAmOverdue => short_task(v)
    BY <1>4, <1>5, SplitShares
  <2>3. short_task(t) => ~u.iAmOverdue
    BY <1>1, <1>3 DEF Tidy, CopyNotOverdue
  <2> HIDE DEF t, u, v, w
  <2>4. ASSUME NEW q \in AllTask, task'[q].justGotForked
        PROVE  q \in Task /\ pc'[q] = "fork_split" /\ short_task(task'[q])
               /\ short_task(task'[child[q]])
    <3>1. CASE \A r \in AllTask : S2.task[r] = IF r = p THEN w ELSE IF r = c THEN v ELSE task[r]
      <4>1. q = p
        BY <1>4, <1>5, <1>8, <2>2, <2>4, <3>1 DEF NoFlags
      <4>2. task'[p] = w /\ task'[c] = v
        BY <1>3, <1>8, <3>1
      <4> QED BY <1>3, <1>6, <2>2, <2>3, <2>4, <4>1, <4>2
    <3>2. CASE ~S2.task[p].justGotForked /\ FlagsFall(Kernel, S2)
      BY <1>4, <1>8, <2>4, <3>2 DEF FlagsFall, NoFlags
    <3> QED BY <2>1, <3>1, <3>2
  <2>5. FlaggedBetween'
    BY <1>1, <2>4 DEF FlaggedBetween, short_task
  <2> QED BY <1>1, <1>7, <1>8, <2>1, <2>5 DEF Tidy
<1> QED BY <1>9, <1>10

\* The flagged parent is where the child goes, so the nested dequeue_task()
\* finds it, and it is flagged no longer.
LEMMA TidyForkWake ==
    ASSUME Calm, IInv, Policies, Placed, Tidy, NEW clone_parent \in BOOLEAN,
           ForkWake(clone_parent)
    PROVE  Tidy'
<1> DEFINE p == current
           c == child[p]
<1>1. /\ rq.panic = "none" /\ pc[p] = "fork_split" /\ ReturnsToUser /\ ~rq.misfiled
      /\ ~clone_parent /\ InFork(pc[p]) /\ pc[p] # "user"
  BY DEF ForkWake, Calm, Tidy, InFork
<1>2. PICK k \in forked_prios(task[c]) : Becomes(fork_wake(Kernel, p, c, clone_parent, k))
  BY DEF ForkWake
<1> DEFINE S2 == fork_wake(Kernel, p, c, clone_parent, k)
           mine == ~clone_parent /\ task[p].array = "rt_short" /\ short_task(task[c])
<1>3. /\ Fit(Kernel) /\ Homed(Kernel) /\ Kernel.task = task /\ Kernel.rq = rq /\ Kernel.rq.curr = p
      /\ Task \subseteq AllTask /\ pc \in [AllTask -> KernelStep]
      /\ p \in Task /\ c \in Task \ {p} /\ task[p].array # NULL
  BY <1>1, BeforePlaced, Before, InCall, InForkCall
<1>4. /\ FlagsFall(Kernel, S2)
      /\ (task[p].justGotForked => mine) /\ S2.rq.misfiled => rq.misfiled
      /\ mine /\ task[p].policy = "SHORT" => ~S2.task[p].justGotForked
  <2>1. p = Kernel.rq.curr /\ c \in AllTask \ {p} /\ k \in forked_prios(Kernel.task[c])
    BY <1>3
  <2> HIDE DEF p, c
  <2> QED BY <1>3, <2>1, ForkWakeHomed
<1>5. task' = S2.task /\ rq' = S2.rq
  BY <1>2 DEF Becomes
<1> HIDE DEF S2
<1>6. task[p].justGotForked => mine /\ task[p].policy = "SHORT"
  <2> SUFFICES ASSUME task[p].justGotForked PROVE mine /\ task[p].policy = "SHORT"
    OBVIOUS
  <2>1. short_task(task[p]) /\ short_task(task[c])
    BY <1>1, <1>3 DEF Tidy, FlaggedBetween
  <2>2. AtHome(task[p], Kernel)
    BY <1>1, <1>3 DEF Homed
  <2>3. task[p].array = "rt_short"
    BY <1>3, <2>1, <2>2 DEF AtHome, pointer_to_my_active_prio_array, short_task, other_task
  <2> QED BY <1>1, <2>1, <2>3 DEF short_task
<1> HIDE DEF mine
<1>7. \A q \in AllTask : ~task'[q].justGotForked
  <2>1. \A q \in AllTask : task[q].justGotForked => q = p
    BY <1>1 DEF Tidy, FlaggedBetween, Policies, ForkAlone, InFork
  <2> QED BY <1>3, <1>4, <1>5, <1>6, <2>1 DEF FlagsFall
<1>8. FlaggedBetween'
  BY <1>7 DEF FlaggedBetween
<1>9. CopyNotOverdue'
  <2>1. \A q \in Task : pc'[q] # "fork_copied"
    BY <1>1, <1>3 DEF ReturnsToUser, Policies, ForkAlone, InFork
  <2> QED BY <2>1 DEF CopyNotOverdue
<1>10. ~rq'.misfiled
  BY <1>1, <1>4, <1>5, <1>6
<1> QED BY <1>8, <1>9, <1>10 DEF Tidy

LEMMA NextTidy == ASSUME Calm, IInv, Policies, Placed, Tidy, Next PROVE Tidy'
<1>1. CASE Tick
  BY <1>1, TidyTick
<1>2. CASE Reschedule
  BY <1>2, PlacedReschedule, TidyCall
<1>3. CASE SysEnter
  BY <1>3, PlacedSysEnter, TidyCall
<1>4. CASE SysReturn
  BY <1>4, PlacedSysReturn, TidyCall DEF SysReturn
<1>5. CASE Yield
  BY <1>5, PlacedYield, TidyCall DEF Yield
<1>6. CASE \E s \in {"RUNNING", "INTERRUPTIBLE", "UNINTERRUPTIBLE"} : SetState(s)
  <2>1. {"RUNNING", "INTERRUPTIBLE", "UNINTERRUPTIBLE"} = State \ {"ZOMBIE", "UNUSED"}
    BY DEF State
  <2> QED BY <1>6, <2>1, PlacedSetState, TidyCall
<1>7. ASSUME NEW p \in Task,
             \/ Wake(p) \/ Reap(p) \/ ForkCopy(p)
             \/ \E ms \in ReqTimes : RenewShort(p, ms) \/ MakeShort(p, ms)
             \/ \E k \in UserPrio : SetNice(p, k)
             \/ SetNormal(p, "OTHER", DefaultPrio)
             \/ \E policy \in {"FIFO", "RR"}, k \in 0 .. MAX_RT_PRIO - 2 : SetNormal(p, policy, k)
      PROVE  Tidy'
  <2>1. CASE Wake(p)
    BY <2>1, TidyWake
  <2>2. CASE Reap(p)
    BY <2>2, PlacedReap, TidyCall DEF Reap
  <2>3. CASE ForkCopy(p)
    BY <2>3, TidyForkCopy
  <2>4. ASSUME NEW ms \in ReqTimes, RenewShort(p, ms) PROVE Tidy'
    BY <2>4, PlacedRenewShort, TidyCall DEF RenewShort
  <2>5. ASSUME NEW ms \in ReqTimes, MakeShort(p, ms) PROVE Tidy'
    BY <2>5, PlacedMakeShort, TidyCall DEF MakeShort
  <2>6. ASSUME NEW k \in UserPrio, SetNice(p, k) PROVE Tidy'
    BY <2>6, PlacedSetNice, TidyCall DEF SetNice
  <2>7. CASE SetNormal(p, "OTHER", DefaultPrio)
    BY <2>7, PlacedSetNormal, Constants, TidyCall DEF SetNormal
  <2>8. ASSUME NEW policy \in {"FIFO", "RR"}, NEW k \in 0 .. MAX_RT_PRIO - 2,
               SetNormal(p, policy, k)
        PROVE  Tidy'
    <3>1. k \in Prio
      BY Constants DEF Prio
    <3>2. Orderly
      BY <2>8, <3>1, PlacedSetNormal
    <3> QED BY <2>8, <3>2, TidyCall DEF SetNormal
  <2> QED BY <1>7, <2>1, <2>2, <2>3, <2>4, <2>5, <2>6, <2>7, <2>8
<1>8. CASE ForkFail
  BY <1>8, PlacedForkFail, TidyCall
<1>9. CASE ForkSplit
  BY <1>9, TidyForkSplit
<1>10. CASE \E cp \in BOOLEAN : ForkWake(cp)
  BY <1>10, TidyForkWake
<1>11. CASE Exit
  BY <1>11, PlacedExit, TidyCall DEF Exit
<1> QED BY <1>1, <1>2, <1>3, <1>4, <1>5, <1>6, <1>7, <1>8, <1>9, <1>10, <1>11 DEF Next

LEMMA InitTidy == ASSUME Init PROVE Tidy
<1>1. /\ task = [p \in AllTask |-> IF p = Idle THEN IdleTask
                                   ELSE IF p \in InitTasks THEN BootTask(p) ELSE UnusedTask]
      /\ pc = [p \in AllTask |-> "user"] /\ ~rq.misfiled
  BY DEF Init
<1>2. /\ ~UnusedTask.justGotForked /\ ~IdleTask.justGotForked
      /\ \A p : ~BootTask(p).justGotForked
  BY DEF UnusedTask, IdleTask, BootTask
<1>3. \A q \in AllTask : ~task[q].justGotForked
  BY <1>1, <1>2
<1>4. \A q \in Task : pc[q] = "user"
  BY <1>1 DEF AllTask
<1> QED BY <1>1, <1>3, <1>4 DEF Tidy, FlaggedBetween, CopyNotOverdue

LEMMA StutterTidy == ASSUME Tidy, UNCHANGED vars PROVE Tidy'
<1>1. task' = task /\ rq' = rq /\ pc' = pc /\ child' = child
  BY DEF vars
<1> QED BY <1>1 DEF Tidy, FlaggedBetween, CopyNotOverdue, short_task

\* Tidy is an invariant of the specification.
LEMMA TidyInductive ==
    ASSUME Calm
    PROVE  Spec => []Tidy
<1>1. Init => IInv /\ Policies /\ Placed /\ Tidy
  BY InitIInv, InitRefines, InitPlaced, InitTidy
<1>2. IInv /\ [Next]_vars => IInv'
  BY StepNext, StepStutter
<1>3. IInv /\ IInv' /\ Policies /\ [Next]_vars => Policies'
  <2>1. "fork_block" \notin Workload
    BY DEF Calm
  <2> QED BY <2>1, NextRefines, StutterRefines DEF Refines
<1>4. IInv /\ Placed /\ Policies /\ [Next]_vars => Placed'
  BY NextPlaced, StutterPlaced DEF Copied
<1>5. IInv /\ Policies /\ Placed /\ Tidy /\ [Next]_vars => Tidy'
  BY NextTidy, StutterTidy
<1> QED BY <1>1, <1>2, <1>3, <1>4, <1>5, PTL DEF Spec

(***************************************************************************)
(* Every dequeue_task() names the array its task is on, so no counter or   *)
(* bitmap ever goes wrong: scheduler_tick() after any change of class, and *)
(* enqueue_task() when it moves the parent of a new child.  Assumed: no    *)
(* CLONE_PARENT, no interrupt after do_fork() split the slice, and no wait *)
(* in its copies.  Run V_overdue_array shows what happens without.         *)
(***************************************************************************)
THEOREM DequeueCorrect ==
    ASSUME Calm
    PROVE  Spec => []NeverMisfiled
<1>1. Tidy => NeverMisfiled
  BY DEF Tidy, NeverMisfiled
<1> QED BY <1>1, TidyInductive, PTL

-----------------------------------------------------------------------------
(* schedule() gives the CPU to the best task.                              *)

\* The bit found is the lowest one.
LEMMA LowestBit ==
    ASSUME NEW bitmap \in SUBSET Prio, NEW k \in bitmap
    PROVE  sched_find_first_bit(bitmap) \in bitmap /\ sched_find_first_bit(bitmap) <= k
<1>1. bitmap \subseteq Nat /\ bitmap # {}
  BY MaxPrioAssumption DEF Prio
<1>2. PICK x \in bitmap : \A y \in bitmap : x <= y
  BY <1>1, Least
<1>3. Min(bitmap) \in bitmap /\ \A y \in bitmap : Min(bitmap) <= y
  BY <1>2 DEF Min
<1> QED BY <1>1, <1>3 DEF sched_find_first_bit

\* A runnable task at home has the rank of the array it waits on.
LEMMA RankHome ==
    ASSUME NEW t, NEW S, AtHome(t, S), t.array # NULL, S.rq.active \in {"array0", "array1"}
    PROVE  \/ t.array = "rt_short" /\ Rank(t, S) = 0
           \/ t.array = S.rq.active /\ Rank(t, S) = 1
           \/ t.array = expired(S) /\ Rank(t, S) = 2
           \/ t.array = "overdue" /\ Rank(t, S) = 3
<1>1. /\ expired(S) \in {"array0", "array1"} /\ expired(S) # S.rq.active
      /\ expired(S) # "rt_short" /\ expired(S) # "overdue"
      /\ S.rq.active # "rt_short" /\ S.rq.active # "overdue"
  BY DEF expired
<1>2. other_task(t) => ~short_task(t) /\ ~overdue_task(t)
  BY DEF other_task, short_task, overdue_task
<1>3. CASE short_task(t) \/ rt_task(t)
  <2>1. t.array = "rt_short"
    BY <1>2, <1>3 DEF AtHome, pointer_to_my_active_prio_array
  <2> QED BY <1>3, <2>1 DEF Rank
<1>4. CASE ~(short_task(t) \/ rt_task(t)) /\ overdue_task(t)
  <2>1. t.array = "overdue"
    BY <1>2, <1>4 DEF AtHome, pointer_to_my_active_prio_array
  <2> QED BY <1>4, <2>1 DEF Rank
<1>5. CASE ~(short_task(t) \/ rt_task(t)) /\ ~overdue_task(t)
  <2>1. t.array \in {S.rq.active, expired(S)}
    BY <1>5 DEF AtHome, pointer_to_my_active_prio_array
  <2> QED BY <1>1, <1>5, <2>1 DEF Rank
<1> QED BY <1>3, <1>4, <1>5

\* The first task of the list chosen is on the array chosen, at its lowest
\* level in use, and the arrays passed over are empty.
LEMMA PickFirst ==
    ASSUME NEW S, Sound(S), ~S.rq.misfiled, NEW p \in Task, S.task[p].array # NULL
    PROVE  LET h == Head(pick_list(S))
           IN  /\ S.rq.nr_running # 0 /\ pick_list(S) # << >>
               /\ h \in Task /\ S.task[h].array = pick_array(S)
               /\ \A q \in Task : S.task[q].array = pick_array(S)
                                    => S.task[h].prio <= S.task[q].prio
               /\ \A b \in ArrayId : S.rq.arrays[b].nr_active = 0
                                       => \A q \in Task : S.task[q].array # b
<1> DEFINE a == pick_array(S)
           bitmap == S.rq.arrays[a].bitmap
           idx == sched_find_first_bit(bitmap)
           list == S.rq.arrays[a].queue[idx]
           h == Head(pick_list(S))
           on == OnBut(S, {})
           at == At(S)
<1>1. /\ KernelType(S) /\ ListsExact(on, at, S.rq.arrays) /\ ArraysType(S.rq.arrays)
      /\ BitmapsExact(S.rq.arrays) /\ CountersExact(on, S.rq.arrays)
  BY Fields DEF Sound, Filed
<1>2. a \in ArrayId
  BY <1>1, ArrayChoice, Nulls DEF pick_array, KernelType, runqueue
<1>3. \A q \in Task : on[q] = S.task[q].array /\ at[q] = S.task[q].prio /\ at[q] \in Prio
  BY <1>1, Fields DEF OnBut, At
<1>4. S.rq.nr_running # 0
  <2>1. IsFiniteSet(RunnableIn(S)) /\ RunnableIn(S) # {}
    BY TaskAssumption, FS_Subset DEF RunnableIn
  <2>2. S.rq.nr_running = Cardinality(RunnableIn(S))
    BY DEF Sound
  <2> QED BY <2>1, <2>2, FS_EmptySet
<1>5. pick_list(S) # << >>
  BY <1>4, PickList
<1>6. pick_list(S) = IF idx \in Prio THEN list ELSE << >>
  BY DEF pick_list
<1> HIDE DEF a, on, at
<1>7. bitmap \in SUBSET Prio
  BY <1>1, <1>2 DEF ArraysType, prio_array
<1> HIDE DEF bitmap, idx
<1>8. idx \in Prio /\ pick_list(S) = list
  BY <1>5, <1>6
<1>9. list \in Seq(Task) /\ list # << >>
  <2>1. S.rq.arrays[a].queue[idx] \in Seq(Task)
    BY <1>1, <1>2, <1>8, Fields
  <2> QED BY <1>5, <1>8, <2>1
<1>10. h \in Task /\ InList(list, h)
  <2>1. list[1] \in Task /\ Head(list) = list[1] /\ 1 \in 1 .. Len(list)
    BY <1>9, LenProperties, EmptySeq, HeadTailProperties
  <2> QED BY <1>8, <2>1 DEF InList
<1> HIDE DEF h
<1>11. on[h] = a /\ at[h] = idx
  BY <1>1, <1>2, <1>8, <1>10 DEF ListsExact
<1>12. ASSUME NEW q \in Task, on[q] = a
       PROVE  idx <= at[q]
  <2>1. InList(S.rq.arrays[a].queue[at[q]], q)
    BY <1>1, <1>2, <1>3, <1>12 DEF ListsExact
  <2>2. S.rq.arrays[a].queue[at[q]] # << >>
    BY <2>1, EmptySeq DEF InList
  <2>3. at[q] \in bitmap
    BY <1>1, <1>2, <1>3, <2>2 DEF BitmapsExact, bitmap
  <2> QED BY <1>7, <2>3, LowestBit DEF idx
<1>13. ASSUME NEW b \in ArrayId, S.rq.arrays[b].nr_active = 0, NEW q \in Task
       PROVE  on[q] # b
  <2>1. IsFiniteSet(OnArray(on, b))
    BY TaskAssumption, FS_Subset DEF OnArray
  <2>2. Cardinality(OnArray(on, b)) = 0
    BY <1>1, <1>13 DEF CountersExact
  <2>3. OnArray(on, b) = {}
    BY <2>1, <2>2, FS_EmptySet
  <2> QED BY <2>3 DEF OnArray
<1> QED BY <1>3, <1>4, <1>5, <1>10, <1>11, <1>12, <1>13 DEF a, h

\* No runnable task is better than the one picked, which is not the idle task.
LEMMA PickBest ==
    ASSUME NEW S, Sound(S), Fit(S), Homed(S), ~S.rq.misfiled, NEW p \in Task,
           S.task[p].array # NULL
    PROVE  LET S2 == pick_next(S)
           IN  /\ S2.task = S.task
               /\ S2.rq.curr \in Task /\ ~Better(S.task[p], S.task[S2.rq.curr], S2)
<1> DEFINE a == pick_array(S)
           h == Head(pick_list(S))
           S2 == pick_next(S)
           active == IF a = expired(S) THEN expired(S) ELSE S.rq.active
<1>1. /\ S.rq.nr_running # 0 /\ pick_list(S) # << >>
      /\ h \in Task /\ S.task[h].array = a
      /\ \A q \in Task : S.task[q].array = a => S.task[h].prio <= S.task[q].prio
      /\ \A b \in ArrayId : S.rq.arrays[b].nr_active = 0 => \A q \in Task : S.task[q].array # b
  BY PickFirst
<1>2. /\ IsRunqueue(S.rq) /\ S.rq.active \in {"array0", "array1"}
      /\ expired(S) \in {"array0", "array1"} /\ expired(S) # S.rq.active
  BY DEF Fit, Records, expired
<1>3. S2.task = S.task /\ S2.rq.curr = h /\ S2.rq.active = active
  BY <1>1, <1>2 DEF pick_next, put_rq, IsRunqueue
<1>4. a \in ArrayId /\ KernelType(S)
  BY ArrayChoice, Nulls DEF pick_array, KernelType, runqueue, Sound, Filed
<1>5. \/ a = "rt_short"
      \/ a = S.rq.active /\ S.rq.arrays["rt_short"].nr_active = 0
      \/ /\ a = expired(S) /\ S.rq.arrays["rt_short"].nr_active = 0
         /\ S.rq.arrays[S.rq.active].nr_active = 0
      \/ /\ a = "overdue" /\ S.rq.arrays["rt_short"].nr_active = 0
         /\ S.rq.arrays[S.rq.active].nr_active = 0
         /\ S.rq.arrays[expired(S)].nr_active = 0
  BY DEF pick_array
<1> HIDE DEF a, h, S2
<1>6. Task \subseteq AllTask /\ S.task[h].prio \in Int /\ S.task[p].prio \in Int
  BY <1>1, <1>4, Fields, MaxPrioAssumption DEF Prio, AllTask
<1>7. active \in {S.rq.active, expired(S)} /\ active \in {"array0", "array1"}
  BY <1>2
<1>8. AtHome(S.task[p], S2) /\ AtHome(S.task[h], S2)
  <2>1. \A q \in Task : Classed(S.task[q]) /\ AtHome(S.task[q], S)
    BY <1>6 DEF Homed
  <2> QED BY <1>1, <1>2, <1>3, <1>7, <2>1, SwapHome
<1>9. expired(S2) = IF active = "array0" THEN "array1" ELSE "array0"
  BY <1>3 DEF expired
<1>10. S.task[h].array # NULL
  BY <1>1, <1>4, Nulls
<1>11. \A q \in {p, h} : LET t == S.task[q]
                         IN  \/ t.array = "rt_short" /\ Rank(t, S2) = 0
                             \/ t.array = S2.rq.active /\ Rank(t, S2) = 1
                             \/ t.array = expired(S2) /\ Rank(t, S2) = 2
                             \/ t.array = "overdue" /\ Rank(t, S2) = 3
  BY <1>3, <1>7, <1>8, <1>10, RankHome
<1>12. S.task[p].array = a => S.task[h].prio <= S.task[p].prio
  BY <1>1
<1>13. /\ a = "rt_short" => Rank(S.task[h], S2) = 0
       /\ a = S.rq.active => Rank(S.task[h], S2) = 1 /\ S2.rq.active = a
       /\ a = expired(S) => Rank(S.task[h], S2) = 1 /\ S2.rq.active = a
       /\ a = "overdue" => Rank(S.task[h], S2) = 3
  BY <1>1, <1>2, <1>3, <1>9, <1>11
<1>14. /\ Rank(S.task[p], S2) >= Rank(S.task[h], S2)
       /\ Rank(S.task[p], S2) = Rank(S.task[h], S2) => S.task[p].array = a
       /\ Rank(S.task[p], S2) \in Int /\ Rank(S.task[h], S2) \in Int
  <2>0. \A b \in ArrayId : S.rq.arrays[b].nr_active = 0 => S.task[p].array # b
    BY <1>1
  <2>1. {"rt_short", "overdue", S.rq.active, expired(S)} \subseteq ArrayId
    BY <1>2, Nulls
  <2>2. CASE a = "rt_short"
    BY <1>11, <1>13, <2>2
  <2>3. CASE a = S.rq.active /\ S.rq.arrays["rt_short"].nr_active = 0
    BY <1>11, <1>13, <2>0, <2>1, <2>3
  <2>4. CASE /\ a = expired(S) /\ S.rq.arrays["rt_short"].nr_active = 0
             /\ S.rq.arrays[S.rq.active].nr_active = 0
    BY <1>11, <1>13, <2>0, <2>1, <2>4
  <2>5. CASE /\ a = "overdue" /\ S.rq.arrays["rt_short"].nr_active = 0
             /\ S.rq.arrays[S.rq.active].nr_active = 0
             /\ S.rq.arrays[expired(S)].nr_active = 0
    <3>1. {S2.rq.active, expired(S2)} = {S.rq.active, expired(S)}
      BY <1>2, <1>3, <1>9, <2>5
    <3> QED BY <1>11, <1>13, <2>0, <2>1, <2>5, <3>1
  <2> QED BY <1>5, <2>2, <2>3, <2>4, <2>5
<1>15. ~Better(S.task[p], S.task[h], S2)
  BY <1>6, <1>12, <1>14 DEF Better
<1> QED BY <1>1, <1>3, <1>15 DEF S2

\* Only a context switch changes who has the CPU.
LEMMA CurrentKept ==
    ASSUME IInv, Next, rq'.curr # rq.curr
    PROVE  Reschedule \/ Yield
<1>0. \A S2, p, u : Changes(Kernel, S2, p, u) /\ Becomes(S2) => rq'.curr = rq.curr
  BY Base DEF Changes, Becomes
<1>1. ~Tick
  <2> SUFFICES ASSUME Tick PROVE FALSE
    OBVIOUS
  <2>1. PICK b, toExpired : Becomes(scheduler_tick(Kernel, b, toExpired))
    BY DEF Tick
  <2>2. \E u : Changes(Kernel, scheduler_tick(Kernel, b, toExpired), current, u)
    BY Base, TickChanges
  <2> QED BY <1>0, <2>1, <2>2
<1>2. ASSUME NEW p \in Task, Wake(p) PROVE FALSE
  <2>1. PICK k : Becomes(try_to_wake_up(Kernel, p, k))
    BY <1>2 DEF Wake
  <2>2. task[p].state # "UNUSED"
    BY <1>2 DEF Wake
  <2>3. Still(Kernel, try_to_wake_up(Kernel, p, k))
    BY <2>2, Base, StillWakeUp
  <2> QED BY <2>1, <2>3, Base DEF Still, Becomes
<1>3. ASSUME NEW p \in Task, Reap(p) PROVE FALSE
  <2> DEFINE S1 == sched_exit(Kernel, p)
  <2>1. Becomes(put_task(S1, p, UnusedTask))
    BY <1>3 DEF Reap
  <2>2. rq' = S1.rq
    BY <2>1 DEF Becomes, put_task
  <2> HIDE DEF S1
  <2>3. S1.rq.curr = Kernel.rq.curr
    BY Base, ExitChanges DEF Changes, S1
  <2> QED BY <2>2, <2>3, Base
<1>4. ASSUME NEW p \in Task, NEW ms, RenewShort(p, ms) PROVE FALSE
  <2>1. Becomes(renew_short(Kernel, p, ms))
    BY <1>4 DEF RenewShort
  <2>2. \E u : Changes(Kernel, renew_short(Kernel, p, ms), p, u)
    BY Base, RenewChanges
  <2> QED BY <1>0, <2>1, <2>2
<1>5. ASSUME NEW p \in Task, NEW ms, MakeShort(p, ms) PROVE FALSE
  <2>1. PICK k : Becomes(make_short(Kernel, p, ms, k))
    BY <1>5 DEF MakeShort
  <2>2. \E u : Changes(Kernel, make_short(Kernel, p, ms, k), p, u)
    BY Base, MakeShortChanges
  <2> QED BY <1>0, <2>1, <2>2
<1>6. ASSUME NEW p \in Task, NEW k, SetNice(p, k) PROVE FALSE
  <2>1. Becomes(set_user_nice(Kernel, p, k))
    BY <1>6 DEF SetNice
  <2>2. \E u : Changes(Kernel, set_user_nice(Kernel, p, k), p, u)
    BY Base, NiceChanges
  <2> QED BY <1>0, <2>1, <2>2
<1>7. ASSUME NEW p \in Task, NEW policy, NEW prio, SetNormal(p, policy, prio) PROVE FALSE
  <2> DEFINE t == as_normal(task[p], policy, prio)
  <2>1. PICK k : Becomes(reactivate(Kernel, p, t, k))
    BY <1>7 DEF SetNormal
  <2>2. IsStruct(t)
    BY Base DEF as_normal, IsStruct
  <2> HIDE DEF t
  <2>3. \E u : Changes(Kernel, reactivate(Kernel, p, t, k), p, u)
    BY <2>2, Base, ReactivateChanges
  <2> QED BY <1>0, <2>1, <2>3
<1>8. ~ForkSplit
  <2> SUFFICES ASSUME ForkSplit PROVE FALSE
    OBVIOUS
  <2> DEFINE c == child[current]
  <2>1. rq.panic = "none" /\ InFork(pc[current])
    BY DEF ForkSplit, InFork
  <2>2. PICK b, toExpired : Becomes(fork_split(Kernel, current, c, b, toExpired))
    BY DEF ForkSplit
  <2> DEFINE S2 == fork_split(Kernel, current, c, b, toExpired)
  <2>3. c \in AllTask \ {current}
    BY <2>1, InForkCall, Base
  <2> HIDE DEF c
  <2>4. \/ S2 = put_rq(Kernel, [Kernel.rq EXCEPT !.panic = "BUG"])
        \/ \E u, v : Splits2(Kernel, S2, current, c, u, v)
    BY <2>3, Base, SplitChanges
  <2>5. rq' = S2.rq /\ IsRunqueue(rq)
    BY <2>2, Base DEF Becomes, Records
  <2> HIDE DEF S2
  <2> QED BY <2>4, <2>5, Base DEF Splits2, put_rq, IsRunqueue
<1>9. ASSUME NEW cp \in BOOLEAN, ForkWake(cp) PROVE FALSE
  <2>1. rq.panic = "none" /\ InFork(pc[current])
    BY <1>9 DEF ForkWake, InFork
  <2>2. PICK k : Becomes(fork_wake(Kernel, current, child[current], cp, k))
    BY <1>9 DEF ForkWake
  <2>3. child[current] \in AllTask /\ task[child[current]].state # "UNUSED"
    BY <2>1, InForkCall, Base DEF Life
  <2>4. Still(Kernel, fork_wake(Kernel, current, child[current], cp, k))
    BY <2>3, Base, StillForkWake
  <2> QED BY <2>2, <2>4, Base DEF Still, Becomes
<1>10. ~(SysEnter \/ SysReturn \/ (\E s : SetState(s)) \/ (\E p \in Task : ForkCopy(p))
           \/ ForkFail \/ Exit)
  BY DEF SysEnter, SysReturn, SetState, ForkCopy, ForkFail, Exit
<1> QED BY <1>1, <1>2, <1>3, <1>4, <1>5, <1>6, <1>7, <1>8, <1>9, <1>10 DEF Next

\* sys_sched_yield() moves the caller within its array.
LEMMA YieldFiles ==
    ASSUME IInv
    PROVE  yield(Kernel, current).rq.misfiled = rq.misfiled
<1> DEFINE S == yield(Kernel, current)
<1>1. \A x : [Kernel.rq EXCEPT !.arrays = x].misfiled = rq.misfiled
  BY Base DEF Records, IsRunqueue
<1>2. ASSUME NEW k, NEW bits, NEW q, S = yield_to(Kernel, current, k, bits, q)
      PROVE  S.rq.misfiled = rq.misfiled
  <2> DEFINE array == Kernel.task[current].array
             arrays1 == unlink(Kernel.rq.arrays, array, Kernel.task[current].prio, current)
             x == array_relink(arrays1, array, k, bits, q)
  <2>1. S.rq = [Kernel.rq EXCEPT !.arrays = x]
    BY <1>2 DEF yield_to, put_rq, put_task
  <2> HIDE DEF x, S
  <2> QED BY <1>1, <2>1
<1>3. \E k, bits, q : S = yield_to(Kernel, current, k, bits, q)
  BY DEF yield, S
<1> HIDE DEF S
<1> QED BY <1>2, <1>3 DEF S

\* What schedule() does to a kernel state in order.
LEMMA ScheduleBest ==
    ASSUME NEW S, Fit(S), Homed(S), Awake(S), Sound(S), CurrentIn(S), ~S.rq.misfiled,
           NEW ch, Load(S, ch), S.rq.curr \in Task => ~Built(ch, S.rq.curr),
           NEW pending \in BOOLEAN, NEW p \in Task, schedule(S, pending).task[p].array # NULL
    PROVE  LET S2 == schedule(S, pending)
           IN  S2.rq.curr \in Task /\ ~Better(S2.task[p], S2.task[S2.rq.curr], S2)
<1> DEFINE S1 == ToPick(S, pending)
           S2 == pick_next(S1)
<1>1. Fit(S1) /\ Homed(S1) /\ Sound(S1) /\ ~S1.rq.misfiled
  BY ToPickHomed
<1>2. schedule(S, pending) = S2
  BY ScheduleSplit
<1> HIDE DEF S1
<1>3. S2.task = S1.task
  BY <1>1, PickHomed
<1>4. S1.task[p].array # NULL
  BY <1>2, <1>3
<1> HIDE DEF S2
<1>5. S2.rq.curr \in Task /\ ~Better(S1.task[p], S1.task[S2.rq.curr], S2)
  BY <1>1, <1>4, PickBest DEF S2
<1> QED BY <1>2, <1>3, <1>5

\* A state the kernel reaches without moving anybody is in order as well.
LEMMA LodgesBest ==
    ASSUME IInv, Placed, rq.panic = "none", ~rq.misfiled, NEW S, Lodges(Kernel, S),
           Reaches(Kernel, S, {}), Sound(S), ~S.rq.misfiled, NEW pending \in BOOLEAN,
           Becomes(schedule(S, pending)), NEW p \in Task, task'[p].array # NULL
    PROVE  rq'.curr # Idle /\ ~Better(task'[p], task'[rq'.curr], Kernel')
<1> DEFINE S2 == schedule(S, pending)
           K == [task |-> S2.task, rq |-> S2.rq]
<1>1. /\ Awake(Kernel) /\ Load(Kernel, child) /\ CurrentIn(Kernel) /\ current \in AllTask
  BY Before, BeforePlaced
<1>2. ~Stopped(S)
  BY DEF Stopped, Sound
<1>3. Awake(S) /\ Load(S, child)
  BY <1>1, <1>2, StillAwake
<1>4. S.rq.curr = current /\ CurrentIn(S) /\ (current \in Task => ~Built(child, current))
  BY <1>1, <1>2, BeforePlaced DEF Reaches, CurrentIn, RunnableIn, current, AllTask
<1>5. Fit(S) /\ Homed(S)
  BY DEF Lodges
<1>6. task' = S2.task /\ rq' = S2.rq
  BY DEF Becomes
<1>7. S2.rq.curr \in Task /\ ~Better(S2.task[p], S2.task[S2.rq.curr], S2)
  BY <1>3, <1>4, <1>5, <1>6, ScheduleBest
<1>8. Kernel' = K /\ K.rq = S2.rq
  BY <1>6 DEF Kernel
<1> HIDE DEF S2, K
<1>9. ~Better(S2.task[p], S2.task[S2.rq.curr], K)
  BY <1>7, <1>8 DEF Better, Rank, expired
<1>10. Idle \notin Task
  BY Constants
<1> QED BY <1>6, <1>7, <1>8, <1>9, <1>10

LEMMA SwitchBest ==
    ASSUME IInv, Placed, Next, rq'.curr # rq.curr, ~rq.misfiled, NEW p \in Task,
           task'[p].array # NULL
    PROVE  rq'.curr # Idle /\ ~Better(task'[p], task'[rq'.curr], Kernel')
<1>1. CASE Reschedule
  <2>1. rq.panic = "none" /\ Kernel.rq = rq
    BY <1>1, Base DEF Reschedule
  <2>2. PICK pending \in BOOLEAN : Becomes(schedule(Kernel, pending))
    BY <1>1 DEF Reschedule
  <2>3. Sound(Kernel) /\ Reaches(Kernel, Kernel, {}) /\ Lodges(Kernel, Kernel)
    BY <2>1, Before, BeforePlaced, SoundReaches, LodgesRefl
  <2> QED BY <2>1, <2>2, <2>3, LodgesBest
<1>2. CASE Yield
  <2> DEFINE S == yield(Kernel, current)
  <2>1. rq.panic = "none" /\ InKernel /\ Becomes(schedule(S, FALSE))
    BY <1>2 DEF Yield, InKernel
  <2>2. Lodges(Kernel, S) /\ Reaches(Kernel, S, {}) /\ Sound(S) /\ ~S.rq.misfiled
    BY <2>1, YieldSound, YieldFiles
  <2> HIDE DEF S
  <2> QED BY <2>1, <2>2, LodgesBest
<1> QED BY <1>1, <1>2, CurrentKept

(***************************************************************************)
(* A context switch, by schedule() or sys_sched_yield(), leaves nobody     *)
(* waiting who is better than the task it gives the CPU to, and the CPU is *)
(* idle only if nobody waits: the order in which the arrays are tried is   *)
(* the order of the classes because everybody waits where he belongs, and  *)
(* the bitmaps and counters schedule() trusts are those of the lists.      *)
(***************************************************************************)
THEOREM SwitchCorrect == Spec => BestTaskRuns
<1>1. IInv /\ Placed /\ [Next]_vars =>
        [ rq'.curr # rq.curr /\ ~rq.misfiled =>
            \A p \in Task : task'[p].array # NULL =>
               /\ rq'.curr # Idle
               /\ ~Better(task'[p], task'[rq'.curr], Kernel') ]_vars
  BY SwitchBest
<1> QED BY <1>1, Inductive, PlacedInductive, PTL DEF Spec, BestTaskRuns

-----------------------------------------------------------------------------
(* What do_fork() hands to the child.                                      *)

\* Only do_fork() itself takes a task to its interrupt-free section, and out of it.
LEMMA ForkSteps ==
    ASSUME IInv, Next, NEW p \in Task
    PROVE  /\ pc[p] # "fork_split" /\ pc'[p] = "fork_split" => ForkSplit /\ p = current
           /\ pc[p] = "fork_split" /\ pc'[p] = "user"
                => p = current /\ \E cp \in BOOLEAN : ForkWake(cp)
<1>1. pc \in [AllTask -> KernelStep] /\ Task \subseteq AllTask /\ p \in AllTask
  BY Base DEF IInv, TypeOK
<1>2. CASE pc' = pc
  BY <1>2
<1>3. CASE SysEnter
  BY <1>1, <1>3 DEF SysEnter
<1>4. CASE pc[current] \in {"kernel", "fork_copied"} /\ ReturnsToUser
  BY <1>1, <1>4 DEF ReturnsToUser
<1>5. ASSUME NEW c \in Task, ForkCopy(c)
      PROVE  /\ pc'[p] # "fork_split" \/ pc[p] = "fork_split"
             /\ pc[p] # "fork_split" \/ pc'[p] # "user"
  <2>1. /\ InKernel /\ rq.panic = "none" /\ task[c].state = "UNUSED"
        /\ pc' = [pc EXCEPT ![current] = "fork_copied", ![c] = "user"]
    BY <1>5 DEF ForkCopy, InKernel
  <2>2. Steps(Kernel, child, pc) /\ Kernel.task = task
    BY <2>1, Before DEF Good
  <2>3. pc[c] # "fork_split"
    BY <2>1, <2>2 DEF Steps, Alive, Life, InFork
  <2>4. pc[current] = "kernel"
    BY <2>1 DEF InKernel
  <2> QED BY <1>1, <2>1, <2>3, <2>4
<1>6. CASE ForkSplit
  BY <1>1, <1>6 DEF ForkSplit
<1>7. ASSUME NEW cp \in BOOLEAN, ForkWake(cp)
      PROVE  /\ pc'[p] # "fork_split" \/ pc[p] = "fork_split"
             /\ pc[p] = "fork_split" /\ pc'[p] = "user" => p = current
  BY <1>1, <1>7 DEF ForkWake, ReturnsToUser
<1>8. \/ pc' = pc \/ SysEnter \/ ForkSplit
      \/ pc[current] \in {"kernel", "fork_copied"} /\ ReturnsToUser
      \/ \E c \in Task : ForkCopy(c)
      \/ \E cp \in BOOLEAN : ForkWake(cp)
  BY DEF Next, Tick, Reschedule, SysReturn, Yield, SetState, Wake, Reap, RenewShort, MakeShort,
         SetNice, SetNormal, ForkFail, Exit, InKernel
<1> QED BY <1>2, <1>3, <1>4, <1>5, <1>6, <1>7, <1>8

LEMMA SliceShared ==
    ASSUME IInv, ForkSplit, task[current].time_slice \in 2 .. UINT - 2,
           ~overdue_task(task[current])
    PROVE  SharesSlice(current)
<1> DEFINE p == current
           c == child[p]
           t == task[p]
           u == task[c]
           w == parent_slice(t)
           v == child_slice(t, u)
<1>1. rq.panic = "none" /\ InFork(pc[p]) /\ pc[p] # "user"
  BY DEF ForkSplit, InFork
<1>2. /\ p \in Task /\ c \in Task \ {p} /\ Task \subseteq AllTask /\ Kernel.task = task
      /\ task \in [AllTask -> task_struct] /\ IsStruct(t) /\ IsStruct(u)
  BY <1>1, InCall, InForkCall, Base DEF IInv, TypeOK
<1>3. t.time_slice \in Nat /\ t.time_slice >= 2 /\ t.time_slice + 1 \in 0 .. UINT - 1
  BY SliceMaxFacts
<1>4. PICK b, toExpired : task' = fork_split(Kernel, p, c, b, toExpired).task
  BY DEF ForkSplit, Becomes
<1> DEFINE S1 == put_task(put_task(Kernel, c, v), p, w)
<1>5. w.time_slice = t.time_slice \div 2 /\ w.time_slice # 0
  BY <1>2, <1>3 DEF parent_slice, IsStruct
<1>6. \A q \in AllTask : S1.task[q] = IF q = p THEN w ELSE IF q = c THEN v ELSE task[q]
  BY <1>2 DEF put_task
<1>7. fork_split(Kernel, p, c, b, toExpired) = S1
  <2>1. S1.task[p].time_slice # 0
    BY <1>2, <1>5, <1>6
  <2> QED BY <1>2, <1>3, <2>1 DEF fork_split
<1>8. task'[p] = w /\ task'[c] = v
  BY <1>2, <1>4, <1>6, <1>7
<1>9. v.time_slice \in {(t.time_slice + 1) \div 2, (t.time_slice \div 2) + (t.time_slice % 2)}
  <2>1. (t.time_slice + 1) % UINT = t.time_slice + 1
    BY <1>3, Fits
  <2>2. t.policy = "SHORT" => short_task(t)
    BY DEF overdue_task, short_task
  <2> QED BY <1>2, <2>1, <2>2 DEF child_slice, IsStruct
<1> HIDE DEF p, c, t, u, w, v, S1
<1>10. w.time_slice + v.time_slice = t.time_slice
  BY <1>3, <1>5, <1>9
<1> QED BY <1>8, <1>10 DEF SharesSlice, p, c, t

(***************************************************************************)
(* A fork neither creates nor destroys time: the two halves of the slice,  *)
(* rounded down for the parent and up for the child, are the whole, for    *)
(* every class that shares and every slice from two ticks to UINT - 2,     *)
(* however the task came by it (do_fork()).                                *)
(***************************************************************************)
THEOREM SharesCorrect == Spec => ForkSharesSlice
<1>1. IInv /\ [Next]_vars =>
        [ \A p \in Task : Splits(p) /\ task[p].time_slice \in 2 .. UINT - 2
                            /\ ~overdue_task(task[p]) => SharesSlice(p) ]_vars
  BY ForkSteps, SliceShared DEF Splits
<1> QED BY <1>1, Inductive, PTL DEF Spec, ForkSharesSlice

-----------------------------------------------------------------------------
(* The child of a SHORT task is put before its parent.                     *)

\* A SHORT task whose last tick is taken is SHORT no longer.
LEMMA LastTick ==
    ASSUME NEW S, Records(S), NEW p \in Task, p = S.rq.curr, p \in AllTask,
           short_task(S.task[p]), ~rt_task(S.task[p]), S.task[p].time_slice = 1,
           S.task[p].array # expired(S), NEW b, NEW toExpired
    PROVE  ~short_task(scheduler_tick(S, b, toExpired).task[p])
<1> DEFINE t == S.task[p]
           spent == tick_spent(t)
           u == refill(spent, b)
           S1 == spend_tick(S, p)
           S2 == expire(S1, p, b, toExpired)
<1>1. IsStruct(t) /\ p # Idle
  BY Constants DEF Records
<1>2. /\ IsStruct(spent) /\ spent.policy = t.policy /\ spent.iAmOverdue = t.iAmOverdue
      /\ spent.time_slice = 0
  BY <1>1, Constants DEF tick_spent, IsStruct
<1>3. S1.task[p] = spent /\ Records(S1)
  <2>1. S1 = put_task(S, p, spent)
    BY DEF spend_tick, tick_spent
  <2> HIDE DEF S1, spent
  <2>2. Changes(S, S1, p, spent) /\ S1.task[p] = spent
    BY <1>2, <2>1, ChangesPut
  <2> QED BY <2>2 DEF Changes
<1>4. scheduler_tick(S, b, toExpired) = S2
  BY <1>1, <1>2, <1>3 DEF scheduler_tick
<1>5. u.policy = "SHORT" /\ u.iAmOverdue
  <2>1. short_task(spent) /\ ~overdue_task(spent)
    BY <1>2 DEF short_task, overdue_task
  <2>2. /\ lapse(spent).policy = "SHORT" /\ lapse(spent).iAmOverdue
        /\ IsStruct(lapse(spent))
    BY <1>2, <2>1 DEF lapse, IsStruct, short_task
  <2> QED BY <2>2 DEF refill, IsStruct
<1> HIDE DEF S1, spent
<1>6. Changes(S1, S2, p, refill(S1.task[p], b))
  BY <1>3, ExpireChanges
<1> HIDE DEF S2
<1>7. Account(S2.task[p]) = Account(u)
  BY <1>3, <1>6 DEF Changes
<1>8. S2.task[p].policy = u.policy /\ S2.task[p].iAmOverdue = u.iAmOverdue
  BY <1>7 DEF Account
<1> QED BY <1>4, <1>5, <1>8 DEF short_task

\* A tick leaves a task of another policy with that policy.
LEMMA TickedPolicy ==
    ASSUME NEW t, IsStruct(t), t.policy # "SHORT", NEW u, NEW b, Ticked(t, u, b)
    PROVE  u.policy = t.policy
<1>1. /\ IsStruct(tick_spent(t)) /\ tick_spent(t).policy = t.policy
  BY DEF tick_spent, IsStruct
<1>2. lapse(tick_spent(t)) = tick_spent(t)
  BY <1>1 DEF lapse, short_task, overdue_task
<1>3. refill(tick_spent(t), b).policy = t.policy
  BY <1>1, <1>2 DEF refill, IsStruct
<1> QED BY <1>1, <1>3 DEF Ticked, IsStruct

\* A task that is still SHORT after it shared its slice is flagged.
Flagged ==
    rq.panic = "none" =>
        \A q \in Task : pc[q] = "fork_split" /\ short_task(task[q]) => task[q].justGotForked

LEMMA SplitFlags ==
    ASSUME Calm, IInv, Policies, Placed, Tidy, ForkSplit, rq'.panic = "none",
           short_task(task'[current])
    PROVE  task'[current].justGotForked
<1> DEFINE p == current
           c == child[p]
           t == task[p]
           u == task[c]
           w == parent_slice(t)
           v == child_slice(t, u)
           lt == last_tick(t)
<1>1. /\ rq.panic = "none" /\ pc[p] = "fork_copied" /\ ~rq.misfiled
      /\ InFork(pc[p]) /\ pc[p] # "user"
  BY DEF ForkSplit, Tidy, InFork
<1>2. PICK b, toExpired : Becomes(fork_split(Kernel, p, c, b, toExpired))
  BY DEF ForkSplit
<1>3. /\ p \in Task /\ p \in AllTask /\ c \in Task \ {p} /\ c \in AllTask
      /\ Kernel.task = task /\ Kernel.rq = rq /\ p = Kernel.rq.curr /\ t.array # NULL
      /\ DOMAIN task = AllTask /\ IsStruct(t) /\ IsStruct(u) /\ Records(Kernel)
      /\ Homed(Kernel)
  BY <1>1, InCall, InForkCall, Base, BeforePlaced DEF Records
<1> DEFINE S0 == put_task(Kernel, c, v)
           S1 == put_task(S0, p, w)
           S2 == fork_split(Kernel, p, c, b, toExpired)
<1>4. task' = S2.task /\ rq' = S2.rq
  BY <1>2 DEF Becomes
<1>5. IsStruct(v) /\ IsStruct(w) /\ IsStruct(lt)
  BY <1>3 DEF child_slice, parent_slice, last_tick, IsStruct
<1>6. /\ Records(S0) /\ S0.rq = rq
      /\ \A q \in AllTask : S0.task[q] = IF q = c THEN v ELSE task[q]
  <2>1. /\ Changes(Kernel, S0, c, v)
    BY <1>3, <1>5, ChangesPut
  <2>2. S0.rq = rq /\ S0.task = [task EXCEPT ![c] = v]
    BY <1>3 DEF put_task
  <2> QED BY <1>3, <2>1, <2>2 DEF Changes
<1> HIDE DEF S0
<1>7. S1.task[p] = w /\ S1.rq = rq /\ S1.task = [S0.task EXCEPT ![p] = w]
  BY <1>3, <1>6 DEF put_task, Records
<1>8. t.time_slice # 0
  <2>1. CASE t.time_slice = 0
    <3>1. S2 = put_rq(Kernel, [rq EXCEPT !.panic = "BUG"])
      BY <1>3, <2>1 DEF fork_split
    <3>2. S2.rq.panic = "BUG"
      BY <1>3, <3>1 DEF put_rq, Records, IsRunqueue
    <3> QED BY <1>4, <3>2
  <2> QED BY <2>1
<1>9. CASE w.time_slice # 0
  <2>1. S2 = S1
    BY <1>3, <1>7, <1>8, <1>9 DEF fork_split, S0
  <2>2. task'[p] = w
    BY <1>4, <1>7, <2>1
  <2>3. short_task(t)
    BY <1>3, <2>2 DEF parent_slice, IsStruct, short_task
  <2> QED BY <1>3, <2>2, <2>3 DEF parent_slice, IsStruct, short_task, overdue_task
<1>10. CASE w.time_slice = 0
  <2> DEFINE Sb == put_task(S0, p, lt)
  <2>1. S2 = scheduler_tick(Sb, b, toExpired)
    <3>1. S2 = scheduler_tick(put_task(S1, p, lt), b, toExpired)
      BY <1>3, <1>7, <1>8, <1>10 DEF fork_split, S0, last_tick
    <3>2. put_task(S1, p, lt) = Sb
      <4>1. [[S0.task EXCEPT ![p] = w] EXCEPT ![p] = lt] = [S0.task EXCEPT ![p] = lt]
        OBVIOUS
      <4> QED BY <1>6, <1>7, <4>1 DEF put_task
    <3> QED BY <3>1, <3>2
  <2>2. ~overdue_task(t)
    BY <1>8, <1>10 DEF parent_slice
  <2>3. /\ lt.policy = t.policy /\ lt.iAmOverdue = t.iAmOverdue /\ lt.prio = t.prio
        /\ lt.array = t.array /\ lt.time_slice = 1
    BY <1>3 DEF parent_slice, last_tick, IsStruct
  <2>4. Records(Sb) /\ Sb.task[p] = lt /\ Sb.rq = rq
    <3> HIDE DEF p, lt
    <3>1. Changes(S0, Sb, p, lt) /\ Sb.task[p] = lt /\ Sb.rq = S0.rq
      BY <1>3, <1>5, <1>6, ChangesPut
    <3> QED BY <1>6, <3>1 DEF Changes
  <2> HIDE DEF Sb, lt, S2
  <2>5. CASE short_task(t)
    <3>1. AtHome(t, Kernel) /\ Classed(t)
      BY <1>1, <1>3 DEF Homed
    <3>2. t.array = "rt_short" /\ ~rt_task(t)
      BY <1>3, <2>5, <3>1 DEF AtHome, pointer_to_my_active_prio_array, short_task, other_task,
                              Classed, Calm
    <3>3. /\ short_task(Sb.task[p]) /\ ~rt_task(Sb.task[p]) /\ Sb.task[p].time_slice = 1
          /\ Sb.task[p].array # expired(Sb) /\ p = Sb.rq.curr
      BY <1>3, <2>3, <2>4, <2>5, <3>2 DEF short_task, rt_task, expired
    <3> HIDE DEF p
    <3>4. ~short_task(S2.task[p])
      BY <1>3, <2>1, <2>4, <3>3, LastTick
    <3> QED BY <1>4, <3>4 DEF p
  <2>6. CASE ~short_task(t)
    <3>1. lt.policy # "SHORT" /\ IsStruct(lt)
      BY <1>5, <2>2, <2>3, <2>6 DEF short_task, overdue_task, lt
    <3>2. p = Sb.rq.curr
      BY <1>3, <2>4
    <3> HIDE DEF p
    <3>3. PICK x : Ticked(lt, x, b) /\ Changes(Sb, S2, p, x)
      BY <1>3, <2>1, <2>4, <3>2, TickChanges
    <3>4. x.policy = lt.policy
      BY <3>1, <3>3, TickedPolicy
    <3>5. Account(S2.task[p]) = Account(x)
      BY <1>3, <3>3 DEF Changes
    <3>6. S2.task[p].policy = x.policy
      BY <3>5 DEF Account
    <3> QED BY <1>4, <3>1, <3>4, <3>6 DEF short_task, p
  <2> QED BY <2>5, <2>6
<1> QED BY <1>9, <1>10

\* Without interrupts a task leaves do_fork() right after it shared its slice.
LEMMA WakesNext ==
    ASSUME Calm, Next, pc[current] = "fork_split"
    PROVE  \E cp \in BOOLEAN : ForkWake(cp)
<1>1. "irq_in_split" \notin Workload /\ "fork_block" \notin Workload
  BY DEF Calm
<1> QED BY <1>1 DEF Next, InterruptsOpen, Tick, Reschedule, SysEnter, SysReturn, Yield, SetState,
                    Wake, Reap, RenewShort, MakeShort, SetNice, SetNormal, ForkCopy, ForkFail,
                    ForkSplit, Exit, InKernel

LEMMA NextFlagged == ASSUME Calm, IInv, Policies, Placed, Tidy, Next PROVE Flagged'
<1> SUFFICES ASSUME rq'.panic = "none", NEW q \in Task, pc'[q] = "fork_split", short_task(task'[q])
             PROVE  task'[q].justGotForked
  BY DEF Flagged, short_task
<1>1. CASE pc[q] = "fork_split"
  <2>1. q = current
    BY <1>1 DEF Policies, ForkAlone, InFork
  <2>2. ReturnsToUser
    BY <1>1, <2>1, WakesNext DEF ForkWake
  <2> QED BY <2>1, <2>2, Base DEF ReturnsToUser, IInv, TypeOK
<1>2. CASE pc[q] # "fork_split"
  BY <1>2, ForkSteps, SplitFlags
<1> QED BY <1>1, <1>2

LEMMA FlaggedInductive ==
    ASSUME Calm
    PROVE  Spec => [](IInv /\ Policies /\ Placed /\ Tidy /\ Flagged)
<1>1. Init => IInv /\ Policies /\ Placed /\ Tidy /\ Flagged
  <2>1. Init => Flagged
    BY DEF Init, Flagged, AllTask
  <2> QED BY <2>1, InitIInv, InitRefines, InitPlaced, InitTidy
<1>2. IInv /\ [Next]_vars => IInv'
  BY StepNext, StepStutter
<1>3. IInv /\ IInv' /\ Policies /\ [Next]_vars => Policies'
  <2>1. "fork_block" \notin Workload
    BY DEF Calm
  <2> QED BY <2>1, NextRefines, StutterRefines DEF Refines
<1>4. IInv /\ Placed /\ Policies /\ [Next]_vars => Placed'
  BY NextPlaced, StutterPlaced DEF Copied
<1>5. IInv /\ Policies /\ Placed /\ Tidy /\ [Next]_vars => Tidy'
  BY NextTidy, StutterTidy
<1>6. IInv /\ Policies /\ Placed /\ Tidy /\ Flagged /\ [Next]_vars => Flagged'
  <2>1. Flagged /\ UNCHANGED vars => Flagged'
    BY DEF Flagged, vars, short_task
  <2> QED BY <2>1, NextFlagged
<1> QED BY <1>1, <1>2, <1>3, <1>4, <1>5, <1>6, PTL DEF Spec

\* enqueue_task() of the child of a flagged SHORT task puts it first on its list.
FirstOn(S, p, array) ==
    /\ S.task[p].array = array /\ S.task[p].prio \in Prio
    /\ S.rq.arrays[array].queue[S.task[p].prio][1] = p

LEMMA HeadIsFirst ==
    ASSUME NEW S, KernelType(S), NEW p \in Task, NEW array \in ArrayId
    PROVE  FirstOn(enqueue_head(S, p, array), p, array)
<1> DEFINE k == S.task[p].prio
           q == S.rq.arrays[array].queue[k]
           t == [S.task[p] EXCEPT !.array = array]
           arrays2 == array_enqueue(S.rq.arrays, array, k, list_add(q, p))
           r == [S.rq EXCEPT !.arrays = arrays2]
           S2 == enqueue_head(S, p, array)
<1>1. /\ p \in AllTask /\ k \in Prio /\ q \in Seq(Task) /\ S.task[p] \in task_struct
      /\ ArraysType(S.rq.arrays) /\ S.rq \in runqueue /\ S.task \in Tasks
  BY Fields DEF KernelType
<1>2. list_add(q, p)[1] = p
  <2> HIDE DEF q
  <2>1. Len(q) \in Nat
    BY <1>1, LenProperties
  <2>2. 1 \in 1 .. Len(q) + 1
    BY <2>1
  <2> QED BY <1>1, <2>2, InsertedEntries DEF list_add
<1> HIDE DEF q, k
<1>3. arrays2[array].queue[k] = list_add(q, p)
  BY <1>1 DEF array_enqueue, ArraysType, prio_array
<1>4. t.array = array /\ t.prio = k
  BY <1>1 DEF task_struct, k
<1> HIDE DEF arrays2
<1>5. r.arrays = arrays2
  BY <1>1 DEF runqueue
<1>6. S2.task = [S.task EXCEPT ![p] = t] /\ S2.rq = r
  BY DEF enqueue_head, enqueue_with, put_rq, put_task, list_of, r, t, q, k, arrays2
<1> HIDE DEF S2, r, t
<1>7. S2.task[p] = t
  BY <1>1, <1>6 DEF Tasks
<1> QED BY <1>1, <1>2, <1>3, <1>4, <1>5, <1>6, <1>7 DEF FirstOn, S2

LEMMA ChildFirst ==
    ASSUME NEW S, NEW p \in Task, Filed(S, {p}), S.rq.panic = "none", Kin(S),
           NEW array \in ArrayId, forked_by_short(S, p)
    PROVE  LET S2 == enqueue_task(S, p, array)
           IN  S2.rq.panic = "none" => FirstOn(S2, p, array)
<1> DEFINE parent == S.task[p].p_opptr
           u == [S.task[parent] EXCEPT !.justGotForked = FALSE]
           S1 == dequeue_task(put_task(S, parent, u), parent, array)
           S2 == enqueue_ancestor(S1, parent, array)
<1>1. /\ parent \in Task \ {p} /\ S.task[parent].p_opptr \notin {p, parent}
  BY Fields DEF forked_by_short, Kin, Filed, AllTask
<1>2. enqueue_task(S, p, array)
        = IF S1.rq.panic # "none" THEN S1 ELSE enqueue_head(S2, p, array)
  BY DEF enqueue_task, enqueue_child, dequeue_parent
<1> HIDE DEF parent
<1>3. S1.rq.panic = "none" => Filed(S1, {p} \cup {parent}) /\ SameFields(S, S1)
  BY <1>1, EnqueueChild
<1> HIDE DEF S1
<1>4. ASSUME S1.rq.panic = "none" PROVE KernelType(S2)
  <2>1. Kin(S1) /\ S1.task[parent].p_opptr = S.task[parent].p_opptr
    BY <1>1, <1>3, <1>4, KinKept, Fields DEF Filed, SameFields
  <2>2. Refiled(S1, S2, parent, {p} \cup {parent})
    BY <1>1, <1>3, <1>4, <2>1, EnqueueAncestor
  <2> QED BY <2>2 DEF Refiled
<1> HIDE DEF S2
<1> QED BY <1>2, <1>4, HeadIsFirst

\* So does activate_task(), which counts it, and wake_up_forked_process().
LEMMA ActivateFirst ==
    ASSUME NEW S, Sound(S), NEW p \in Task, S.task[p].array = NULL, NEW k \in Prio,
           short_task(S.task[p]), forked_by_short(S, p)
    PROVE  LET S2 == activate_task(S, p, k)
           IN  S2.rq.panic = "none" => FirstOn(S2, p, "rt_short")
<1> DEFINE t == [S.task[p] EXCEPT !.prio = k]
           S0 == put_task(S, p, t)
           S1 == enqueue_task(S0, p, "rt_short")
           r == [S1.rq EXCEPT !.nr_running = @ + 1]
<1>1. /\ KernelType(S) /\ p \in AllTask /\ p # Idle /\ S.task[p] \in task_struct
      /\ S.rq.curr \in AllTask
  BY Fields, Constants DEF Sound, Filed
<1>2. activate_task(S, p, k) = put_rq(S1, r)
  BY DEF activate_task, pointer_to_my_active_prio_array
<1>3. /\ Compatible(S.task[p], t) /\ t.prio = k /\ t.array = NULL
      /\ t.policy = S.task[p].policy /\ t.iAmOverdue = S.task[p].iAmOverdue
      /\ t.justGotForked = S.task[p].justGotForked
  <2>1. k \in 0 .. MAX_PRIO
    BY Constants DEF Prio
  <2> QED BY <1>1, <2>1 DEF Compatible, Life, task_struct
<1> HIDE DEF t
<1>4. Reaches(S, S0, {})
  BY <1>1, <1>3, SoundReaches, ReachesPut
<1>5. /\ S0.rq = S.rq /\ KernelType(S0)
      /\ \A q \in AllTask : S0.task[q] = IF q = p THEN t ELSE S.task[q]
  BY <1>1, <1>3, PutTask DEF Compatible
<1> HIDE DEF S0
<1>6. Sound(S0)
  BY <1>4, <1>5 DEF Reaches, Stopped, Sound
<1>7. Filed(S0, {p})
  <2>1. Filed(S0, {} \cup {p})
    BY <1>1, <1>3, <1>5, <1>6, OffOrInTransit DEF Sound
  <2> QED BY <2>1
<1>8. forked_by_short(S0, p)
  <2>1. S.task[p].p_opptr \in AllTask /\ t.p_opptr = S.task[p].p_opptr
    BY <1>1, <1>3, Fields DEF Compatible
  <2> QED BY <1>1, <1>3, <1>5, <2>1 DEF forked_by_short
<1>9. /\ Refiled(S0, S1, p, {p})
      /\ S1.rq.panic = "none" => FirstOn(S1, p, "rt_short")
  <2>1. "rt_short" \in ArrayId /\ S0.rq.panic = "none" /\ Kin(S0)
    BY <1>6, Nulls DEF Sound
  <2> QED BY <1>7, <1>8, <2>1, Enqueue, ChildFirst
<1> HIDE DEF S1
<1>10. r.panic = S1.rq.panic /\ r.arrays = S1.rq.arrays
  BY <1>9 DEF Refiled, KernelType, runqueue
<1>11. put_rq(S1, r).rq = r /\ put_rq(S1, r).task = S1.task
  BY DEF put_rq
<1> QED BY <1>2, <1>9, <1>10, <1>11 DEF FirstOn

\* The call wake_up_forked_process() makes for the child c of the current task p.
OnCpu(S, p) == S.rq.curr = p
LinksSelf(S, p, cp) == p = parent_of(S, p, cp)

LEMMA LinkedSound ==
    ASSUME NEW S, Sound(S), NEW p \in Task, NEW c \in Task \ {p},
           S.task[c].array = NULL,
           NEW cp, NEW k \in forked_prios(S.task[c]),
           Life(S.task[c]) = "alive",
           p \in AllTask,
           p = parent_of(S, p, cp),
           p # c, p \in Task => S.task[p].p_opptr # c,
           \A q \in Task : S.task[q].p_opptr # c
    PROVE  /\ Sound(put_task(S, c, linked(S, c, p)))
           /\ linked(S, c, p).p_opptr = p
           /\ linked(S, c, p).array = NULL
           /\ Reaches(put_task(S, c, linked(S, c, p)), fork_wake(S, p, c, cp, k), {c})
BY ForkWakes

LEMMA ForkedFirst ==
    ASSUME NEW S, Sound(S), NEW p \in Task, OnCpu(S, p), NEW c \in Task \ {p},
           S.task[c].array = NULL, Life(S.task[c]) = "alive", S.task[p].p_opptr # c,
           \A q \in Task : S.task[q].p_opptr # c,
           NEW k \in forked_prios(S.task[c]),
           short_task(S.task[c]), short_task(S.task[p]), S.task[p].justGotForked,
           NEW cp, LinksSelf(S, p, cp)
    PROVE  LET S2 == fork_wake(S, p, c, cp, k)
           IN  S2.rq.panic = "none" => FirstOn(S2, c, "rt_short")
<1> DEFINE u  == linked(S, c, p)
           S0 == put_task(S, c, u)
           S1 == activate_task(S0, c, k)
           S2 == fork_wake(S, p, c, cp, k)
<1>1. /\ KernelType(S) /\ c \in AllTask /\ p \in AllTask
      /\ S.task[c] \in task_struct /\ S.task[c].prio \in Prio
  BY Fields DEF Sound, Filed
<1>2. /\ Sound(S0) /\ S0.rq = S.rq
      /\ \A q \in AllTask : S0.task[q] = IF q = c THEN u ELSE S.task[q]
      /\ u.p_opptr = p /\ u.array = NULL
  <2>1. Sound(S0)
    BY <1>1, LinkedSound DEF LinksSelf
  <2>2. IsStruct(u) /\ Records(S) /\ u.p_opptr = p /\ u.array = NULL
    BY <1>1, KernelRecords DEF linked, IsStruct, Records, task_struct
  <2> HIDE DEF u
  <2>3. S0.rq = S.rq /\ \A q \in AllTask : S0.task[q] = IF q = c THEN u ELSE S.task[q]
    BY <1>1, <2>2, ChangesPut
  <2> QED BY <2>1, <2>2, <2>3
<1>3. u.policy = S.task[c].policy /\ u.iAmOverdue = S.task[c].iAmOverdue
  BY <1>1 DEF linked, task_struct
<1>4. S2 = IF overdue_task(S1.task[p]) THEN S1 ELSE set_need_resched(S1)
  BY DEF fork_wake, linked, LinksSelf, parent_of
<1> HIDE DEF u, S0
<1>5. short_task(S0.task[c]) /\ forked_by_short(S0, c)
  BY <1>1, <1>2, <1>3 DEF short_task, forked_by_short, OnCpu
<1>6. k \in Prio
  BY <1>1, PrioTypes
<1>7. S1.rq.panic = "none" => FirstOn(S1, c, "rt_short")
  BY <1>1, <1>2, <1>5, <1>6, ActivateFirst
<1>8. Reaches(S0, S1, {c})
  BY <1>1, <1>2, <1>6, Activate
<1> HIDE DEF S1, S2
<1>9. /\ S1.task \in Tasks /\ S1.rq.curr = p
  BY <1>2, <1>8 DEF Reaches, KernelType, OnCpu
<1>10. CASE S2 = S1
  BY <1>7, <1>10 DEF S2
<1>11. CASE S2 = set_need_resched(S1)
  <2>1. S2.rq = S1.rq /\ S2.task = [S1.task EXCEPT ![p] = [S1.task[p] EXCEPT !.need_resched = TRUE]]
    BY <1>9, <1>11 DEF set_need_resched, put_task
  <2>2. S2.task[c] = S1.task[c]
    BY <1>1, <1>9, <2>1 DEF Tasks
  <2> QED BY <1>7, <2>1, <2>2 DEF FirstOn, S2
<1> QED BY <1>4, <1>10, <1>11

\* Nothing of what the class depends on changes when the child starts.
LEMMA BornFirst ==
    ASSUME Calm, IInv, Placed, Tidy, Flagged, NEW cp \in BOOLEAN, ForkWake(cp),
           rq'.panic = "none", BothShort(current)
    PROVE  /\ FirstOn(Kernel', child[current], "rt_short") /\ rq'.curr = current
           /\ current \in Task /\ child[current] \in Task \ {current}
<1> DEFINE p == current
           c == child[p]
<1>1. /\ rq.panic = "none" /\ pc[p] = "fork_split" /\ InFork(pc[p]) /\ pc[p] # "user"
      /\ ~cp
  BY DEF ForkWake, Calm, InFork
<1>2. PICK k \in forked_prios(task[c]) : Becomes(fork_wake(Kernel, p, c, cp, k))
  BY <1>1 DEF ForkWake
<1> DEFINE S2 == fork_wake(Kernel, p, c, cp, k)
<1>3. /\ Sound(Kernel) /\ Kernel.task = task /\ Kernel.rq.curr = p /\ Records(Kernel)
      /\ p \in Task /\ c \in Task \ {p} /\ c \in AllTask /\ p \in AllTask
      /\ task[c].array = NULL /\ Life(task[c]) = "alive"
      /\ \A q \in Task : task[q].p_opptr # c
  BY <1>1, InForkCall, Before, Base
<1>4. task' = S2.task /\ rq' = S2.rq
  BY <1>2 DEF Becomes
<1>5. Still(Kernel, S2)
  <2>1. task[c].state # "UNUSED"
    BY <1>3 DEF Life
  <2> HIDE DEF c, p
  <2> QED BY <1>3, <2>1, StillForkWake
<1> HIDE DEF S2
<1>6. \A q \in AllTask : task'[q].policy = task[q].policy /\ task'[q].iAmOverdue = task[q].iAmOverdue
  <2>1. \A q \in AllTask : Account(task'[q]) = Account(task[q])
    BY <1>3, <1>4, <1>5 DEF Still, Keeps
  <2> QED BY <2>1 DEF Account
<1>7. short_task(task[p]) /\ short_task(task[c])
  BY <1>3, <1>6 DEF BothShort, short_task
<1>8. task[p].justGotForked
  BY <1>1, <1>3, <1>7 DEF Flagged
<1>9. S2.rq.panic = "none" => FirstOn(S2, c, "rt_short")
  <2>1. /\ p \in Task /\ c \in Task \ {p} /\ Sound(Kernel) /\ OnCpu(Kernel, p)
        /\ Kernel.task[c].array = NULL
        /\ Life(Kernel.task[c]) = "alive"
        /\ Kernel.task[p].p_opptr # c
        /\ \A q \in Task : Kernel.task[q].p_opptr # c
    BY <1>3 DEF OnCpu
  <2>2. /\ short_task(Kernel.task[c]) /\ short_task(Kernel.task[p])
        /\ Kernel.task[p].justGotForked
        /\ k \in forked_prios(Kernel.task[c])
        /\ LinksSelf(Kernel, p, cp)
    BY <1>1, <1>3, <1>7, <1>8 DEF parent_of, LinksSelf
  <2> HIDE DEF c, p
  <2> QED BY <2>1, <2>2, ForkedFirst DEF S2
<1>10. FirstOn(Kernel', c, "rt_short")
  BY <1>4, <1>9 DEF Kernel, FirstOn
<1>11. rq'.curr = p
  BY <1>3, <1>4, <1>5 DEF Still
<1> QED BY <1>3, <1>10, <1>11

\* The first task of a list is before any other of the same list.
LEMMA FirstBefore ==
    ASSUME NEW S, Filed(S, {}), NEW c \in Task, NEW p \in Task \ {c}, FirstOn(S, c, "rt_short"),
           S.task[p].array = "rt_short", S.task[p].prio = S.task[c].prio
    PROVE  AheadOfParent(c, p, S)
<1> DEFINE k == S.task[c].prio
           q == S.rq.arrays["rt_short"].queue[k]
<1>1. /\ k \in Prio /\ q[1] = c /\ "rt_short" \in ArrayId /\ q \in Seq(Task)
      /\ S.task[c].array = "rt_short"
  BY Nulls, Fields DEF FirstOn, Filed
<1>2. IsInjective(q) /\ \A r \in Task : InList(q, r) <=> S.task[r].array = "rt_short" /\ S.task[r].prio = k
  BY <1>1, Nulls DEF Filed, ListsExact, OnBut, At
<1>3. Position(S, c) = (CHOOSE i \in 1 .. Len(q) : q[i] = c)
      /\ Position(S, p) = (CHOOSE i \in 1 .. Len(q) : q[i] = p)
  BY <1>1 DEF Position
<1> HIDE DEF q, k
<1>4. PICK i \in 1 .. Len(q) : q[i] = p
  BY <1>2, <1>1 DEF InList, k
<1>5. Len(q) \in Nat /\ DOMAIN q = 1 .. Len(q) /\ 1 \in 1 .. Len(q)
  BY <1>1, <1>4, LenProperties
<1>6. Position(S, p) \in 1 .. Len(q) /\ q[Position(S, p)] = p
  BY <1>3, <1>4
<1>7. Position(S, c) \in 1 .. Len(q) /\ q[Position(S, c)] = c
  BY <1>1, <1>3, <1>5
<1>8. Position(S, c) = 1
  BY <1>1, <1>2, <1>5, <1>7 DEF IsInjective
<1>9. Position(S, p) # 1
  BY <1>1, <1>6
<1> QED BY <1>5, <1>6, <1>8, <1>9 DEF AheadOfParent

\* The state the child starts in: it is first on the list its parent waits on.
LEMMA BornAhead ==
    ASSUME Calm, IInv, IInv', Placed, Placed', Tidy, Tidy', Flagged, NEW cp \in BOOLEAN,
           ForkWake(cp), rq'.panic = "none", BothShort(current),
           task'[child[current]].prio = task'[current].prio
    PROVE  AheadOfParent(child[current], current, Kernel')
<1> DEFINE p == current
           c == child[p]
           K == [task |-> task', rq |-> rq']
<1>1. /\ FirstOn(Kernel', c, "rt_short") /\ rq'.curr = p
      /\ p \in Task /\ c \in Task \ {p} /\ p \in AllTask
  BY BornFirst DEF AllTask
<1>2. Kernel' = K /\ K.task = task' /\ K.rq = rq'
  BY DEF Kernel
<1>3. Good(Kernel', child', pc') /\ Homed(Kernel') /\ ~rq'.misfiled
  BY DEF IInv, Placed, Tidy
<1>4. Filed(K, {}) /\ CurrentIn(K) /\ Homed(K)
  BY <1>2, <1>3 DEF Good, Sound
<1>5. short_task(task'[p]) /\ task'[c].prio = task'[p].prio
  BY DEF BothShort
<1> HIDE DEF K, c, p
<1>6. K.task[p].array # NULL
  <2>1. p # Idle
    BY <1>1, Constants
  <2> QED BY <1>1, <1>2, <1>4, <2>1 DEF CurrentIn, RunnableIn
<1>7. K.task[p].array = "rt_short"
  <2>1. AtHome(K.task[p], K)
    BY <1>1, <1>2, <1>3, <1>4 DEF Homed
  <2> QED BY <1>2, <1>5, <1>6, <2>1 DEF AtHome, pointer_to_my_active_prio_array, other_task,
                                        short_task
<1>8. FirstOn(K, c, "rt_short") /\ K.task[p].prio = K.task[c].prio
  BY <1>1, <1>2, <1>5
<1>9. AheadOfParent(c, p, K)
  BY <1>1, <1>4, <1>7, <1>8, FirstBefore
<1> QED BY <1>2, <1>9 DEF p, c

(***************************************************************************)
(* "Let the child process run first" holds for SHORT tasks of one          *)
(* priority: the child of do_fork() waits before its parent, although the  *)
(* parent was already on the list.  Assumed is Calm: the parent is the     *)
(* forking task (no CLONE_PARENT), which neither blocks nor is interrupted *)
(* between the split of the slice and the start of the child.  Then a      *)
(* SHORT task about to start its child is always flagged (Flagged).        *)
(***************************************************************************)
THEOREM ChildCorrect ==
    ASSUME Calm
    PROVE  Spec => ChildAheadOfEqualParent
<1>1. /\ IInv /\ Placed /\ Tidy /\ Flagged /\ IInv' /\ Placed' /\ Tidy' /\ [Next]_vars =>
         [ \A p \in Task : Born(p) /\ BothShort(p) /\ task'[child[p]].prio = task'[p].prio
                             => AheadOfParent(child[p], p, Kernel') ]_vars
  BY ForkSteps, BornAhead DEF Born
<1> QED BY <1>1, FlaggedInductive, PTL DEF Spec, ChildAheadOfEqualParent
=============================================================================
