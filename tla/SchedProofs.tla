----------------------------- MODULE SchedProofs -----------------------------
(***************************************************************************)
(* Theorems about Sched, for every set of tasks, every number of priority  *)
(* levels and every workload.  First the facts about the list primitives   *)
(* and the priority arrays of PrioArray that they rest on.                 *)
(*                                                                         *)
(* A handler is a composition of functions of the kernel state S.  Between *)
(* a dequeue_task() and the next enqueue_task() the field p->array of the  *)
(* task being moved still names the array it was on, so the lists do not   *)
(* describe the task_structs then: T is the set of tasks in transit.       *)
(***************************************************************************)
EXTENDS Sched, CollectionLemmas

-----------------------------------------------------------------------------
(***************************************************************************)
(* What linking an entry does to a list, wherever it is inserted: no entry *)
(* is lost or duplicated.                                                  *)
(***************************************************************************)
LinkedOn(q2, q, p) ==
    /\ q2 \in Seq(Task)
    /\ q2 # << >>
    /\ IsInjective(q2)
    /\ \A r \in Task : InList(q2, r) <=> InList(q, r) \/ r = p

\* Where the entries of a list of tasks are after an insertion.
LEMMA InsertedEntries ==
    ASSUME NEW q \in Seq(Task), NEW p \in Task, NEW i \in 1 .. Len(q) + 1
    PROVE  /\ InsertAt(q, i, p) \in Seq(Task) /\ Len(InsertAt(q, i, p)) = Len(q) + 1
           /\ \A j \in 1 .. Len(q) + 1 :
                InsertAt(q, i, p)[j] = IF j < i THEN q[j] ELSE IF j = i THEN p ELSE q[j - 1]
<1>1. /\ InsertAt(q, i, p) \in Seq(Task)
      /\ Len(InsertAt(q, i, p)) = Len(q) + 1
      /\ \A j \in 1 .. Len(q) + 1 :
           InsertAt(q, i, p)[j] = IF j < i THEN q[j] ELSE IF j = i THEN p ELSE q[j - 1]
  BY InsertAtProperties, SMTT(30)
<1> QED BY <1>1, Zenon

\* Inserting a task that is not on the list yet links it, at any position.
LEMMA InsertLinks ==
    ASSUME NEW q \in Seq(Task), NEW p \in Task, NEW i \in 1 .. Len(q) + 1,
           IsInjective(q), ~InList(q, p)
    PROVE  LinkedOn(InsertAt(q, i, p), q, p)
<1>0. /\ InsertAt(q, i, p) \in Seq(Task) /\ Len(InsertAt(q, i, p)) = Len(q) + 1
      /\ \A j \in 1 .. Len(q) + 1 :
            InsertAt(q, i, p)[j] = IF j < i THEN q[j] ELSE IF j = i THEN p ELSE q[j - 1]
  BY InsertedEntries, SMTT(30)
<1> DEFINE s == InsertAt(q, i, p)
<1>1. /\ s \in Seq(Task) /\ Len(s) = Len(q) + 1
      /\ \A j \in 1 .. Len(q) + 1 :
            s[j] = IF j < i THEN q[j] ELSE IF j = i THEN p ELSE q[j - 1]
  BY <1>0, Zenon
<1>2. Len(q) \in Nat /\ DOMAIN q = 1 .. Len(q)
  BY LenProperties
<1>3. DOMAIN s = 1 .. Len(q) + 1
  <2> HIDE DEF s
  <2> QED BY <1>1, LenProperties
<1>4. IsInjective(s)
  <2> HIDE DEF s
  <2> SUFFICES ASSUME NEW a \in 1 .. Len(q) + 1, NEW b \in 1 .. Len(q) + 1, s[a] = s[b]
               PROVE  a = b
    BY <1>3 DEF IsInjective
  <2>1. \A x, y \in 1 .. Len(q) : q[x] = q[y] => x = y
    BY <1>2 DEF IsInjective
  <2>2. \A x \in 1 .. Len(q) : q[x] # p
    BY DEF InList
  <2> DEFINE back(x) == IF x < i THEN x ELSE x - 1
  <2>3. \A x \in 1 .. Len(q) + 1 : x # i => back(x) \in 1 .. Len(q) /\ s[x] = q[back(x)]
    BY <1>1, <1>2
  <2>4. s[i] = p
    BY <1>1, <1>2
  <2>5. CASE a = i \/ b = i
    BY <2>2, <2>3, <2>4, <2>5
  <2>6. CASE a # i /\ b # i
    <3>1. back(a) = back(b)
      BY <2>1, <2>3, <2>6
    <3> QED BY <3>1, <2>6, <1>2
  <2> QED BY <2>5, <2>6
<1>5. \A r \in Task : InList(s, r) <=> InList(q, r) \/ r = p
  <2> HIDE DEF s
  <2> TAKE r \in Task
  <2>1. ASSUME InList(s, r) PROVE InList(q, r) \/ r = p
    <3>1. PICK j \in 1 .. Len(q) + 1 : s[j] = r
      BY <2>1, <1>1 DEF InList
    <3> QED BY <3>1, <1>1, <1>2 DEF InList
  <2>2. ASSUME InList(q, r) PROVE InList(s, r)
    <3>1. PICK j \in 1 .. Len(q) : q[j] = r
      BY <2>2 DEF InList
    <3>2. CASE j < i
      BY <3>1, <3>2, <1>1, <1>2 DEF InList
    <3>3. CASE j >= i
      <4>1. j + 1 \in 1 .. Len(q) + 1 /\ s[j + 1] = r
        BY <3>1, <3>3, <1>1, <1>2
      <4> QED BY <4>1, <1>1 DEF InList
    <3> QED BY <3>2, <3>3, <1>2
  <2>3. InList(s, p)
    BY <1>1, <1>2 DEF InList
  <2> QED BY <2>1, <2>2, <2>3
<1>6. s # << >>
  <2> HIDE DEF s
  <2> QED BY <1>1, <1>2
<1> QED BY <1>1, <1>4, <1>5, <1>6 DEF LinkedOn

\* Inserting behind the last entry is appending.
LEMMA InsertAtEnd ==
    ASSUME NEW q \in Seq(Task), NEW p \in Task, NEW n \in 1 .. Len(q) + 1, n = Len(q) + 1
    PROVE  InsertAt(q, n, p) = Append(q, p)
<1>1. /\ InsertAt(q, n, p) \in Seq(Task)
      /\ Len(InsertAt(q, n, p)) = Len(q) + 1
      /\ \A j \in 1 .. Len(q) + 1 :
           InsertAt(q, n, p)[j] = IF j < n THEN q[j] ELSE IF j = n THEN p ELSE q[j - 1]
  BY InsertedEntries
<1>2. /\ Append(q, p) \in Seq(Task) /\ Len(Append(q, p)) = Len(q) + 1
      /\ \A j \in 1 .. Len(q) : Append(q, p)[j] = q[j]
      /\ Append(q, p)[Len(q) + 1] = p
  BY AppendProperties
<1>3. Len(q) \in Nat
  BY LenProperties
<1>4. \A j \in 1 .. Len(q) + 1 : InsertAt(q, n, p)[j] = Append(q, p)[j]
  BY <1>1, <1>2, <1>3
<1> QED BY <1>1, <1>2, <1>4, SeqEqual

\* list_add, list_add_tail and list_add behind the first entry all link p.
LEMMA ListAddLinks ==
    ASSUME NEW q \in Seq(Task), NEW p \in Task, IsInjective(q), ~InList(q, p)
    PROVE  /\ LinkedOn(list_add(q, p), q, p)
           /\ LinkedOn(list_add_tail(q, p), q, p)
           /\ LinkedOn(list_add_second(q, p), q, p)
<1>1. Len(q) \in Nat /\ (q # << >> => Len(q) >= 1)
  BY LenProperties, EmptySeq
<1>2. LinkedOn(list_add(q, p), q, p)
  BY <1>1, InsertLinks DEF list_add
<1>3. LinkedOn(list_add_second(q, p), q, p)
  <2>1. CASE q = << >>
    <3>1. 1 \in 1 .. Len(q) + 1
      BY <1>1
    <3> QED BY <2>1, <3>1, InsertLinks DEF list_add_second
  <2>2. CASE q # << >>
    <3>1. 2 \in 1 .. Len(q) + 1
      BY <2>2, <1>1
    <3> QED BY <2>2, <3>1, InsertLinks DEF list_add_second
  <2> QED BY <2>1, <2>2
<1>4. LinkedOn(list_add_tail(q, p), q, p)
  <2>1. LinkedOn(InsertAt(q, Len(q) + 1, p), q, p)
    BY <1>1, InsertLinks
  <2>2. InsertAt(q, Len(q) + 1, p) = Append(q, p)
    <3>1. Len(q) + 1 \in 1 .. Len(q) + 1
      BY <1>1
    <3> QED BY <3>1, InsertAtEnd
  <2> QED BY <2>1, <2>2 DEF list_add_tail
<1> QED BY <1>2, <1>3, <1>4

\* list_del() removes exactly the entry it is given.
LEMMA ListDelUnlinks ==
    ASSUME NEW q \in Seq(Task), NEW p \in Task, IsInjective(q), InList(q, p)
    PROVE  /\ list_del(q, p) \in Seq(Task)
           /\ IsInjective(list_del(q, p))
           /\ \A r \in Task : InList(list_del(q, p), r) <=> InList(q, r) /\ r # p
<1> DEFINE i == CHOOSE i \in 1 .. Len(q) : q[i] = p
           s == RemoveAt(q, i)
<1>0. Len(q) \in Nat /\ DOMAIN q = 1 .. Len(q)
  BY LenProperties
<1>1. i \in 1 .. Len(q) /\ q[i] = p
  BY DEF InList
<1> HIDE DEF i
<1>2. /\ s \in Seq(Task) /\ Len(s) = Len(q) - 1
      /\ \A j \in 1 .. Len(q) - 1 : s[j] = IF j < i THEN q[j] ELSE q[j + 1]
  BY <1>1, RemoveAtProperties
<1> HIDE DEF s
<1>3. DOMAIN s = 1 .. Len(q) - 1
  BY <1>2, LenProperties
<1>4. IsInjective(s)
  <2> SUFFICES ASSUME NEW a \in 1 .. Len(q) - 1, NEW b \in 1 .. Len(q) - 1, s[a] = s[b]
               PROVE  a = b
    BY <1>3 DEF IsInjective
  <2>1. \A x, y \in 1 .. Len(q) : q[x] = q[y] => x = y
    BY <1>0 DEF IsInjective
  <2> DEFINE shift(x) == IF x < i THEN x ELSE x + 1
  <2>2. s[a] = q[shift(a)] /\ shift(a) \in 1 .. Len(q)
    BY <1>0, <1>1, <1>2
  <2>3. s[b] = q[shift(b)] /\ shift(b) \in 1 .. Len(q)
    BY <1>0, <1>1, <1>2
  <2>4. shift(a) = shift(b)
    BY <2>1, <2>2, <2>3
  <2> QED BY <2>4, <1>0, <1>1
<1>5. \A r \in Task : InList(s, r) <=> InList(q, r) /\ r # p
  <2> TAKE r \in Task
  <2>1. ASSUME InList(s, r) PROVE InList(q, r) /\ r # p
    <3>1. PICK j \in 1 .. Len(q) - 1 : s[j] = r
      BY <2>1, <1>2 DEF InList
    <3>2. CASE j < i
      <4>1. j \in 1 .. Len(q) /\ q[j] = r /\ j # i
        BY <3>1, <3>2, <1>0, <1>1, <1>2
      <4> QED BY <4>1, <1>0, <1>1 DEF InList, IsInjective
    <3>3. CASE j >= i
      <4>1. j + 1 \in 1 .. Len(q) /\ q[j + 1] = r /\ j + 1 # i
        BY <3>1, <3>3, <1>0, <1>1, <1>2
      <4> QED BY <4>1, <1>0, <1>1 DEF InList, IsInjective
    <3> QED BY <3>2, <3>3, <1>0, <1>1
  <2>2. ASSUME InList(q, r), r # p PROVE InList(s, r)
    <3>1. PICK j \in 1 .. Len(q) : q[j] = r
      BY <2>2 DEF InList
    <3>2. CASE j < i
      BY <3>1, <3>2, <1>0, <1>1, <1>2 DEF InList
    <3>3. CASE j > i
      <4>1. j - 1 \in 1 .. Len(q) - 1 /\ s[j - 1] = r
        BY <3>1, <3>3, <1>0, <1>1, <1>2
      <4> QED BY <4>1, <1>2 DEF InList
    <3> QED BY <2>2, <3>1, <3>2, <3>3, <1>0, <1>1
  <2> QED BY <2>1, <2>2
<1>6. list_del(q, p) = s
  BY DEF list_del, s, i
<1> QED BY <1>2, <1>4, <1>5, <1>6
-----------------------------------------------------------------------------
(* The operations on the arrays keep the three copies in agreement.        *)

ArraysType(arrays) == arrays \in [ArrayId -> prio_array]

\* The counter of an array follows the set of tasks that say they are on it.
LEMMA CounterAfter ==
    ASSUME NEW A \in SUBSET Task, NEW p \in Task
    PROVE  /\ p \in A => Cardinality(A \ {p}) = Cardinality(A) - 1
           /\ p \notin A => Cardinality(A \cup {p}) = Cardinality(A) + 1
           /\ Cardinality(A) \in Nat
<1>1. IsFiniteSet(A)
  BY TaskAssumption, FS_Subset
<1> QED BY <1>1, FS_AddElement, FS_RemoveElement, FS_CardinalityType

\* The types survive any dequeue of a task that is on list k of array home.
LEMMA DequeueType ==
    ASSUME NEW arrays, ArraysType(arrays), NEW home \in ArrayId, NEW array \in ArrayId,
           NEW k \in Prio, NEW p \in Task, list_del(arrays[home].queue[k], p) \in Seq(Task)
    PROVE  ArraysType(array_dequeue(arrays, home, array, k, p))
<1> DEFINE a1 == unlink(arrays, home, k, p)
<1>1. ArraysType(a1)
  <2>1. [arrays[home].queue EXCEPT ![k] = list_del(@, p)] \in [Prio -> Seq(Task)]
    BY DEF ArraysType, prio_array
  <2>2. [arrays[home] EXCEPT !.queue[k] = list_del(@, p)] \in prio_array
    BY <2>1 DEF ArraysType, prio_array
  <2> QED BY <2>2 DEF ArraysType, unlink
<1> HIDE DEF a1
<1>2. ArraysType(account_dequeue(a1, array, k))
  BY <1>1 DEF ArraysType, prio_array, account_dequeue
<1> QED BY <1>2 DEF array_dequeue, a1

\* A task taken off its list is on no list any more, and nobody else moves,
\* even when the array accounted for is not the one the task was on.
LEMMA DequeueLists ==
    ASSUME NEW arrays, ArraysType(arrays), NEW on, NEW at, NEW on2, NEW at2,
           ListsExact(on, at, arrays), NEW array \in ArrayId,
           NEW p \in Task, on[p] \in ArrayId, at[p] \in Prio,
           \A r \in Task \ {p} : on2[r] = on[r] /\ at2[r] = at[r],
           on2[p] = NULL
    PROVE  LET a2 == array_dequeue(arrays, on[p], array, at[p], p)
           IN  ArraysType(a2) /\ ListsExact(on2, at2, a2)
<1> DEFINE a == on[p]
           k == at[p]
           q == arrays[a].queue[k]
           q2 == list_del(q, p)
           a2 == array_dequeue(arrays, a, array, k, p)
<1>1. /\ q \in Seq(Task) /\ IsInjective(q) /\ InList(q, p)
      /\ \A b \in ArrayId : arrays[b].queue \in [Prio -> Seq(Task)] /\ arrays[b] \in prio_array
  BY DEF ListsExact, ArraysType, prio_array
<1>2. /\ q2 \in Seq(Task) /\ IsInjective(q2)
      /\ \A r \in Task : InList(q2, r) <=> InList(q, r) /\ r # p
  BY <1>1, ListDelUnlinks
<1>3. ArraysType(a2)
  BY <1>2, DequeueType
<1> HIDE DEF q2
<1>4. \A b \in ArrayId, j \in Prio :
         a2[b].queue[j] = IF b = a /\ j = k THEN q2 ELSE arrays[b].queue[j]
  BY <1>1, <1>2 DEF ArraysType, prio_array, array_dequeue, account_dequeue, unlink, q2
<1> HIDE DEF a2
<1>5. NULL \notin ArrayId
  BY DEF NULL, ArrayId
<1>6. ListsExact(on2, at2, a2)
  <2> SUFFICES ASSUME NEW b \in ArrayId, NEW j \in Prio
               PROVE  /\ IsInjective(a2[b].queue[j])
                      /\ \A r \in Task : InList(a2[b].queue[j], r) <=> on2[r] = b /\ at2[r] = j
    BY DEF ListsExact
  <2>0. /\ IsInjective(arrays[b].queue[j])
        /\ \A r \in Task : InList(arrays[b].queue[j], r) <=> on[r] = b /\ at[r] = j
    BY DEF ListsExact
  <2>1. CASE b = a /\ j = k
    <3>1. a2[b].queue[j] = q2
      BY <2>1, <1>4
    <3> HIDE DEF a, k
    <3> QED BY <2>0, <2>1, <3>1, <1>2, <1>5 DEF a
  <2>2. CASE b # a \/ j # k
    <3>1. a2[b].queue[j] = arrays[b].queue[j]
      BY <2>2, <1>4
    <3> QED BY <2>0, <2>2, <3>1, <1>5
  <2> QED BY <2>1, <2>2
<1> QED BY <1>3, <1>6 DEF a2

\* A task taken off the array it is on leaves all four arrays exact.
LEMMA DequeueExact ==
    ASSUME NEW arrays, ArraysType(arrays), NEW on, NEW at, NEW on2,
           ArraysExact(on, at, arrays),
           NEW p \in Task, on[p] \in ArrayId, at[p] \in Prio,
           \A r \in Task \ {p} : on2[r] = on[r],
           on2[p] = NULL
    PROVE  LET a2 == array_dequeue(arrays, on[p], on[p], at[p], p)
           IN  BitmapsExact(a2) /\ CountersExact(on2, a2)
<1> DEFINE a == on[p]
           k == at[p]
           q == arrays[a].queue[k]
           q2 == list_del(q, p)
           a2 == array_dequeue(arrays, a, a, k, p)
<1>1. /\ q \in Seq(Task) /\ IsInjective(q) /\ InList(q, p)
      /\ \A b \in ArrayId : arrays[b].queue \in [Prio -> Seq(Task)] /\ arrays[b].bitmap \subseteq Prio
                            /\ arrays[b].nr_active \in Int /\ arrays[b] \in prio_array
  BY DEF ArraysExact, ListsExact, ArraysType, prio_array
<1>2. /\ q2 \in Seq(Task) /\ IsInjective(q2)
  BY <1>1, ListDelUnlinks
<1> HIDE DEF q2
<1>4. /\ \A b \in ArrayId : b # a => a2[b] = arrays[b]
      /\ \A j \in Prio : a2[a].queue[j] = IF j = k THEN q2 ELSE arrays[a].queue[j]
      /\ a2[a].nr_active = arrays[a].nr_active - 1
      /\ a2[a].bitmap = IF q2 = << >> THEN arrays[a].bitmap \ {k} ELSE arrays[a].bitmap
  BY <1>1, <1>2 DEF ArraysType, prio_array, array_dequeue, account_dequeue, unlink, q2
<1> HIDE DEF a2
<1>5. NULL \notin ArrayId
  BY DEF NULL, ArrayId
<1>7. BitmapsExact(a2)
  <2> SUFFICES ASSUME NEW b \in ArrayId, NEW j \in Prio
               PROVE  j \in a2[b].bitmap <=> a2[b].queue[j] # << >>
    BY DEF BitmapsExact
  <2>0. j \in arrays[b].bitmap <=> arrays[b].queue[j] # << >>
    BY DEF ArraysExact, BitmapsExact
  <2>1. k \in arrays[a].bitmap
    <3>1. q # << >>
      BY <1>1 DEF InList
    <3> QED BY <3>1 DEF ArraysExact, BitmapsExact
  <2> QED BY <2>0, <2>1, <1>4
<1>8. CountersExact(on2, a2)
  <2> SUFFICES ASSUME NEW b \in ArrayId
               PROVE  a2[b].nr_active = Cardinality(OnArray(on2, b))
    BY DEF CountersExact
  <2>0. arrays[b].nr_active = Cardinality(OnArray(on, b))
    BY DEF ArraysExact, CountersExact
  <2>1. CASE b = a
    <3>1. OnArray(on2, b) = OnArray(on, b) \ {p} /\ p \in OnArray(on, b)
      BY <2>1, <1>5 DEF OnArray
    <3>2. OnArray(on, b) \in SUBSET Task
      BY DEF OnArray
    <3> QED BY <2>0, <2>1, <3>1, <3>2, <1>4, CounterAfter
  <2>2. CASE b # a
    <3>1. OnArray(on2, b) = OnArray(on, b)
      BY <2>2, <1>5 DEF OnArray
    <3> QED BY <2>0, <2>2, <3>1, <1>4
  <2> QED BY <2>1, <2>2
<1> QED BY <1>7, <1>8 DEF a2

\* A task linked anywhere on a list is on that list and on no other.
LEMMA EnqueueLists ==
    ASSUME NEW arrays, ArraysType(arrays), NEW on, NEW at, NEW on2, NEW at2,
           ListsExact(on, at, arrays),
           NEW p \in Task, on[p] = NULL, NEW a \in ArrayId, NEW k \in Prio, NEW q2,
           LinkedOn(q2, arrays[a].queue[k], p),
           \A r \in Task \ {p} : on2[r] = on[r] /\ at2[r] = at[r],
           on2[p] = a, at2[p] = k
    PROVE  ListsExact(on2, at2, array_enqueue(arrays, a, k, q2))
<1> DEFINE q == arrays[a].queue[k]
           a2 == array_enqueue(arrays, a, k, q2)
<1>1. \A b \in ArrayId : arrays[b].queue \in [Prio -> Seq(Task)] /\ arrays[b] \in prio_array
  BY DEF ArraysType, prio_array
<1>2. /\ q2 \in Seq(Task) /\ IsInjective(q2)
      /\ \A r \in Task : InList(q2, r) <=> InList(q, r) \/ r = p
  BY DEF LinkedOn
<1>4. \A b \in ArrayId, j \in Prio :
         a2[b].queue[j] = IF b = a /\ j = k THEN q2 ELSE arrays[b].queue[j]
  BY <1>1, <1>2 DEF ArraysType, prio_array, array_enqueue
<1> HIDE DEF a2
<1>5. NULL \notin ArrayId
  BY DEF NULL, ArrayId
<1>6. ListsExact(on2, at2, a2)
  <2> SUFFICES ASSUME NEW b \in ArrayId, NEW j \in Prio
               PROVE  /\ IsInjective(a2[b].queue[j])
                      /\ \A r \in Task : InList(a2[b].queue[j], r) <=> on2[r] = b /\ at2[r] = j
    BY DEF ListsExact
  <2>0. /\ IsInjective(arrays[b].queue[j])
        /\ \A r \in Task : InList(arrays[b].queue[j], r) <=> on[r] = b /\ at[r] = j
    BY DEF ListsExact
  <2>1. CASE b = a /\ j = k
    <3>1. a2[b].queue[j] = q2
      BY <2>1, <1>4
    <3> QED BY <2>0, <2>1, <3>1, <1>2, <1>5
  <2>2. CASE b # a \/ j # k
    <3>1. a2[b].queue[j] = arrays[b].queue[j]
      BY <2>2, <1>4
    <3> QED BY <2>0, <2>2, <3>1, <1>5
  <2> QED BY <2>1, <2>2
<1> QED BY <1>6 DEF a2

\* The types survive any enqueue that leaves a list of tasks.
LEMMA EnqueueType ==
    ASSUME NEW arrays, ArraysType(arrays), NEW a \in ArrayId, NEW k \in Prio,
           NEW q2 \in Seq(Task)
    PROVE  ArraysType(array_enqueue(arrays, a, k, q2))
  BY DEF ArraysType, prio_array, array_enqueue

\* A task linked anywhere on a list of an array leaves all four arrays exact.
LEMMA EnqueueExact ==
    ASSUME NEW arrays, ArraysType(arrays), NEW on, NEW on2,
           BitmapsExact(arrays), CountersExact(on, arrays),
           NEW p \in Task, on[p] = NULL, NEW a \in ArrayId, NEW k \in Prio, NEW q2,
           LinkedOn(q2, arrays[a].queue[k], p),
           \A r \in Task \ {p} : on2[r] = on[r],
           on2[p] = a
    PROVE  LET a2 == array_enqueue(arrays, a, k, q2)
           IN  BitmapsExact(a2) /\ CountersExact(on2, a2)
<1> DEFINE a2 == array_enqueue(arrays, a, k, q2)
<1>1. \A b \in ArrayId : arrays[b].queue \in [Prio -> Seq(Task)] /\ arrays[b].bitmap \subseteq Prio
                            /\ arrays[b].nr_active \in Int /\ arrays[b] \in prio_array
  BY DEF ArraysType, prio_array
<1>2. q2 \in Seq(Task) /\ q2 # << >>
  BY DEF LinkedOn
<1>4. /\ \A b \in ArrayId : b # a => a2[b] = arrays[b]
      /\ \A j \in Prio : a2[a].queue[j] = IF j = k THEN q2 ELSE arrays[a].queue[j]
      /\ a2[a].nr_active = arrays[a].nr_active + 1
      /\ a2[a].bitmap = arrays[a].bitmap \cup {k}
  BY <1>1, <1>2 DEF ArraysType, prio_array, array_enqueue
<1> HIDE DEF a2
<1>5. NULL \notin ArrayId
  BY DEF NULL, ArrayId
<1>7. BitmapsExact(a2)
  <2> SUFFICES ASSUME NEW b \in ArrayId, NEW j \in Prio
               PROVE  j \in a2[b].bitmap <=> a2[b].queue[j] # << >>
    BY DEF BitmapsExact
  <2>0. j \in arrays[b].bitmap <=> arrays[b].queue[j] # << >>
    BY DEF BitmapsExact
  <2> QED BY <2>0, <1>2, <1>4
<1>8. CountersExact(on2, a2)
  <2> SUFFICES ASSUME NEW b \in ArrayId
               PROVE  a2[b].nr_active = Cardinality(OnArray(on2, b))
    BY DEF CountersExact
  <2>0. arrays[b].nr_active = Cardinality(OnArray(on, b))
    BY DEF CountersExact
  <2>1. CASE b = a
    <3>1. OnArray(on2, b) = OnArray(on, b) \cup {p} /\ p \notin OnArray(on, b)
      BY <2>1, <1>5 DEF OnArray
    <3>2. OnArray(on, b) \in SUBSET Task
      BY DEF OnArray
    <3> QED BY <2>0, <2>1, <3>1, <3>2, <1>4, CounterAfter
  <2>2. CASE b # a
    <3>1. OnArray(on2, b) = OnArray(on, b)
      BY <2>2, <1>5 DEF OnArray
    <3> QED BY <2>0, <2>2, <3>1, <1>4
  <2> QED BY <2>1, <2>2
<1> QED BY <1>7, <1>8 DEF a2

\* sched_find_first_bit() of a bitmap with a bit set returns a bit that is set.
LEMMA FirstBit ==
    ASSUME NEW bitmap \in SUBSET Prio
    PROVE  /\ bitmap # {} => sched_find_first_bit(bitmap) \in bitmap
           /\ bitmap = {} => sched_find_first_bit(bitmap) = MAX_PRIO
<1>1. ASSUME bitmap # {} PROVE sched_find_first_bit(bitmap) \in bitmap
  <2>1. bitmap \subseteq Nat
    BY MaxPrioAssumption DEF Prio
  <2>2. PICK x \in bitmap : \A y \in bitmap : x <= y
    BY <1>1, <2>1, Least
  <2>3. Min(bitmap) \in bitmap
    BY <2>2 DEF Min
  <2> QED BY <1>1, <2>3 DEF sched_find_first_bit
<1> QED BY <1>1 DEF sched_find_first_bit

\* A task moved from one list of its array to another, or within its list,
\* leaves everything exact if the bitmap is set as the lists require.
LEMMA RelinkExact ==
    ASSUME NEW arrays, ArraysType(arrays), NEW on, NEW at, NEW at2, ListsExact(on, at, arrays),
           NEW p \in Task, on[p] \in ArrayId, at[p] \in Prio, NEW k \in Prio,
           NEW bitmap \in SUBSET Prio, NEW q2,
           LinkedOn(q2, unlink(arrays, on[p], at[p], p)[on[p]].queue[k], p),
           at2[p] = k, \A r \in Task \ {p} : at2[r] = at[r]
    PROVE  LET a1 == unlink(arrays, on[p], at[p], p)
               a2 == array_relink(a1, on[p], k, bitmap, q2)
               left == IF a1[on[p]].queue[at[p]] = << >>
                       THEN arrays[on[p]].bitmap \ {at[p]} ELSE arrays[on[p]].bitmap
           IN  /\ ArraysType(a2) /\ ListsExact(on, at2, a2)
               /\ BitmapsExact(arrays) /\ CountersExact(on, arrays) /\ bitmap = left \cup {k}
                    => BitmapsExact(a2) /\ CountersExact(on, a2)
<1> DEFINE a == on[p]
           j == at[p]
           a1 == unlink(arrays, a, j, p)
           out == array_dequeue(arrays, a, a, j, p)
           in == array_enqueue(out, a, k, q2)
           a2 == array_relink(a1, a, k, bitmap, q2)
           off == [r \in Task |-> IF r = p THEN NULL ELSE on[r]]
           left == IF a1[a].queue[j] = << >> THEN arrays[a].bitmap \ {j} ELSE arrays[a].bitmap
<1>1. off[p] = NULL /\ \A r \in Task \ {p} : off[r] = on[r]
  OBVIOUS
<1>2. out = account_dequeue(a1, a, j)
  BY DEF array_dequeue
<1>3. list_del(arrays[a].queue[j], p) \in Seq(Task)
  <2>1. arrays[a].queue[j] \in Seq(Task)
    BY DEF ArraysType, prio_array
  <2> QED BY <2>1, ListDelUnlinks DEF ListsExact
<1>4. ArraysType(a1) /\ a1[a].nr_active = arrays[a].nr_active /\ a1[a].bitmap = arrays[a].bitmap
      /\ \A b \in ArrayId \ {a} : a1[b] = arrays[b]
  <2> DEFINE q1 == list_del(arrays[a].queue[j], p)
             queue1 == [arrays[a].queue EXCEPT ![j] = q1]
  <2>1. a1 = [arrays EXCEPT ![a] = [arrays[a] EXCEPT !.queue = queue1]]
    BY DEF unlink
  <2>2. queue1 \in [Prio -> Seq(Task)] /\ arrays[a] \in prio_array
    BY <1>3 DEF ArraysType, prio_array
  <2> HIDE DEF queue1, a1
  <2> QED BY <2>1, <2>2 DEF ArraysType, prio_array
<1>5. ArraysType(out) /\ ListsExact(off, at, out)
  BY <1>1, DequeueLists
<1> HIDE DEF off, a1
<1>6. /\ \A b \in ArrayId : out[b].queue = a1[b].queue
      /\ \A b \in ArrayId \ {a} : out[b] = a1[b]
      /\ out[a].nr_active = arrays[a].nr_active - 1
      /\ out[a].bitmap = left
  <2>1. DOMAIN a1 = ArrayId
    BY <1>4 DEF ArraysType
  <2> HIDE DEF a1, out
  <2> QED BY <1>2, <1>4, <2>1 DEF account_dequeue
<1> HIDE DEF out, left
<1>7. LinkedOn(q2, out[a].queue[k], p) /\ q2 \in Seq(Task)
  BY <1>6 DEF LinkedOn, a1
<1>8. ListsExact(on, at2, in)
  BY <1>1, <1>5, <1>7, EnqueueLists
<1>9. ArraysType(in)
  BY <1>5, <1>7, EnqueueType
<1>10. [a1[a].queue EXCEPT ![k] = q2] \in [Prio -> Seq(Task)]
  BY <1>4, <1>7 DEF ArraysType, prio_array
<1>11. ArraysType(a2)
  BY <1>4, <1>10 DEF array_relink, ArraysType, prio_array
<1>12. /\ \A b \in ArrayId : in[b].queue = a2[b].queue
       /\ \A b \in ArrayId \ {a} : in[b] = a2[b]
       /\ in[a].nr_active = arrays[a].nr_active /\ a2[a].nr_active = arrays[a].nr_active
       /\ in[a].bitmap = left \cup {k} /\ a2[a].bitmap = bitmap
  <2>1. out \in [ArrayId -> prio_array] /\ a1 \in [ArrayId -> prio_array]
    BY <1>4, <1>5 DEF ArraysType
  <2>2. arrays[a].nr_active \in Int
    BY DEF ArraysType, prio_array
  <2>3. /\ \A b \in ArrayId \ {a} : in[b] = out[b]
        /\ in[a] = [nr_active |-> out[a].nr_active + 1, bitmap |-> out[a].bitmap \cup {k},
                    queue |-> [out[a].queue EXCEPT ![k] = q2]]
    BY <2>1 DEF array_enqueue
  <2>4. /\ \A b \in ArrayId \ {a} : a2[b] = a1[b]
        /\ a2[a] = [nr_active |-> a1[a].nr_active, bitmap |-> bitmap,
                    queue |-> [a1[a].queue EXCEPT ![k] = q2]]
    BY <2>1 DEF array_relink
  <2> HIDE DEF in, a2
  <2> QED BY <1>4, <1>6, <2>2, <2>3, <2>4
<1> HIDE DEF in, a2
<1>13. ListsExact(on, at2, a2)
  BY <1>8, <1>12 DEF ListsExact
<1>14. ASSUME BitmapsExact(arrays), CountersExact(on, arrays), bitmap = left \cup {k}
       PROVE  BitmapsExact(a2) /\ CountersExact(on, a2)
  <2>1. BitmapsExact(out) /\ CountersExact(off, out)
    BY <1>1, <1>14, DequeueExact DEF ArraysExact, out
  <2>2. BitmapsExact(in) /\ CountersExact(on, in)
    BY <1>1, <1>5, <1>7, <2>1, EnqueueExact DEF in
  <2>3. \A b \in ArrayId : /\ in[b].queue = a2[b].queue /\ in[b].bitmap = a2[b].bitmap
                            /\ in[b].nr_active = a2[b].nr_active
    BY <1>12, <1>14
  <2> QED BY <2>2, <2>3 DEF BitmapsExact, CountersExact
<1> QED BY <1>11, <1>13, <1>14 DEF a1, a2, left

-----------------------------------------------------------------------------
(* The kernel state and the lists.                                         *)

Tasks == [AllTask -> task_struct]

KernelType(S) ==
    /\ S.task \in Tasks /\ S.rq \in runqueue
    /\ \A q \in Task : S.task[q].prio \in Prio

\* The arrays tasks are on, those in transit being on none.
OnBut(S, T) == [q \in Task |-> IF q \in T THEN NULL ELSE S.task[q].array]

\* The lists are those of the tasks that are not in transit, and so are the
\* bitmaps and counters until a task is misfiled.
Filed(S, T) ==
    /\ KernelType(S)
    /\ ListsExact(OnBut(S, T), At(S), S.rq.arrays)
    /\ ~S.rq.misfiled => /\ BitmapsExact(S.rq.arrays)
                         /\ CountersExact(OnBut(S, T), S.rq.arrays)

-----------------------------------------------------------------------------
(* Types of the numbers computed.                                          *)

\* The constants as numbers.
LEMMA Constants ==
    /\ UINT \in Nat /\ UINT > 0
    /\ MAX_PRIO \in Nat /\ MAX_RT_PRIO \in Nat
    /\ MAX_RT_PRIO > 0 /\ MAX_RT_PRIO + 1 < MAX_PRIO
    /\ OVERDUE_PRIO \in Prio /\ DefaultPrio \in Prio /\ UserPrio \subseteq Prio
    /\ MIN_TIMESLICE \in Nat /\ MAX_TIMESLICE \in Nat /\ MAX_TIMESLICE < UINT
    /\ HZ \in Nat
    /\ Bonuses \subseteq Int /\ ReqTimes \subseteq Int
    /\ Idle \notin Task /\ NoChild \notin Task /\ Reaper \in Task
  BY SchedAssumption, MaxPrioAssumption DEF OVERDUE_PRIO, Prio, UserPrio

\* Arithmetic on unsigned ints stays in their range.
LEMMA UnsignedRange == \A x \in Int : x % UINT \in 0 .. UINT - 1
  BY Constants

LEMMA SliceTypes ==
    ASSUME NEW t \in task_struct
    PROVE  /\ TASK_TIMESLICE(t) \in Int
           /\ OS_TASK_TIMESLICE(t) \in 0 .. UINT - 1
<1>1. TASK_TIMESLICE(t) \in Int
  <2> DEFINE d == MAX_PRIO - MAX_RT_PRIO - 1
             n == (MAX_TIMESLICE - MIN_TIMESLICE) * (MAX_PRIO - 1 - t.static_prio)
  <2>1. d \in Int /\ d > 0 /\ n \in Int
    BY Constants DEF task_struct, Prio
  <2>2. n \div d \in Int
    <3> HIDE DEF n, d
    <3> QED BY <2>1
  <2> QED BY <2>2, Constants DEF TASK_TIMESLICE
<1>2. t.requestedTime \in Int
  BY DEF task_struct
<1>3. (IF short_task(t) THEN t.requestedTime
       ELSE IF overdue_task(t) THEN 2 * t.requestedTime
       ELSE TASK_TIMESLICE(t)) \in Int
  BY <1>1, <1>2
<1> QED BY <1>1, <1>3, UnsignedRange DEF OS_TASK_TIMESLICE

LEMMA PrioTypes ==
    ASSUME NEW t \in task_struct
    PROVE  /\ \A b \in Bonuses : effective_prio(t, b) \in Prio
           /\ t.prio \in Prio => activate_prios(t) \subseteq Prio
           /\ t.prio \in Prio => forked_prios(t) \subseteq Prio
<1>1. \A b \in Bonuses : effective_prio(t, b) \in Prio
  BY Constants DEF effective_prio, task_struct, Prio
<1> QED BY <1>1 DEF activate_prios, forked_prios

LEMMA JiffiesType == \A ms \in Int : CHANGE_MS_TO_JIFFIS(ms) \in Int
<1> SUFFICES ASSUME NEW ms \in Int PROVE CHANGE_MS_TO_JIFFIS(ms) \in Int
  OBVIOUS
<1>1. ms * HZ \in Int /\ - ms * HZ \in Int
  BY Constants
<1>2. \A x \in Int : x \div 1000 \in Int
  OBVIOUS
<1> QED BY <1>1, <1>2 DEF CHANGE_MS_TO_JIFFIS

-----------------------------------------------------------------------------
(* Where the tasks are.                                                    *)

LEMMA Nulls == NULL \notin ArrayId /\ "array0" \in ArrayId /\ "array1" \in ArrayId
               /\ "rt_short" \in ArrayId /\ "overdue" \in ArrayId
  BY DEF NULL, ArrayId

\* What the fields of a kernel state are.
LEMMA Fields ==
    ASSUME NEW S, KernelType(S)
    PROVE  /\ \A q \in AllTask : /\ S.task[q] \in task_struct
                                 /\ S.task[q].array \in ArrayId \cup {NULL}
                                 /\ S.task[q].p_opptr \in AllTask
           /\ \A q \in Task : q \in AllTask /\ S.task[q].prio \in Prio
           /\ Idle \in AllTask
           /\ S.rq.curr \in AllTask
           /\ ArraysType(S.rq.arrays)
           /\ \A a \in ArrayId, k \in Prio : S.rq.arrays[a].queue[k] \in Seq(Task)
  BY DEF KernelType, Tasks, task_struct, runqueue, prio_array, ArraysType, AllTask

\* A task_struct replaced.
LEMMA PutTask ==
    ASSUME NEW S, KernelType(S), NEW p \in AllTask, NEW t \in task_struct,
           p \in Task => t.prio \in Prio
    PROVE  LET S2 == put_task(S, p, t)
           IN  /\ KernelType(S2)
               /\ S2.rq = S.rq
               /\ \A q \in AllTask : S2.task[q] = IF q = p THEN t ELSE S.task[q]
               /\ \A T : /\ Filed(S, T)
                         /\ p \in Task \ T => t.array = S.task[p].array /\ t.prio = S.task[p].prio
                         => Filed(S2, T)
<1> DEFINE S2 == put_task(S, p, t)
<1>1. S2.rq = S.rq /\ S2.task = [S.task EXCEPT ![p] = t]
  BY DEF put_task
<1>2. /\ S2.task \in Tasks
      /\ \A q \in AllTask : S2.task[q] = IF q = p THEN t ELSE S.task[q]
  BY <1>1 DEF KernelType, Tasks
<1> HIDE DEF S2
<1>3. KernelType(S2)
  BY <1>1, <1>2, Fields DEF KernelType
<1>4. ASSUME NEW T, Filed(S, T),
             p \in Task \ T => t.array = S.task[p].array /\ t.prio = S.task[p].prio
      PROVE  Filed(S2, T)
  <2>1. OnBut(S2, T) = OnBut(S, T)
    BY <1>2, <1>4, Fields DEF OnBut
  <2>2. \A q \in Task : OnBut(S, T)[q] # NULL => At(S2)[q] = At(S)[q]
    BY <1>2, <1>4, Fields DEF OnBut, At
  <2>3. ListsExact(OnBut(S, T), At(S2), S.rq.arrays)
    BY <1>4, <2>2, Nulls DEF Filed, ListsExact
  <2> QED BY <1>1, <1>3, <1>4, <2>1, <2>3 DEF Filed
<1> QED BY <1>1, <1>2, <1>3, <1>4 DEF S2

\* A runqueue field replaced other than the arrays.
LEMMA PutRq ==
    ASSUME NEW S, KernelType(S), NEW r \in runqueue
    PROVE  LET S2 == put_rq(S, r)
           IN  /\ KernelType(S2)
               /\ S2.rq = r /\ S2.task = S.task
               /\ \A T : /\ Filed(S, T) /\ r.arrays = S.rq.arrays
                         /\ r.misfiled = S.rq.misfiled \/ r.misfiled
                         => Filed(S2, T)
<1> DEFINE S2 == put_rq(S, r)
<1>1. S2.rq = r /\ S2.task = S.task
  BY DEF put_rq
<1> HIDE DEF S2
<1>2. KernelType(S2)
  BY <1>1 DEF KernelType
<1>3. \A T : OnBut(S2, T) = OnBut(S, T) /\ At(S2) = At(S)
  BY <1>1 DEF OnBut, At
<1> QED BY <1>1, <1>2, <1>3 DEF Filed, S2

\* Whether a task that is on no array counts as in transit does not matter.
LEMMA OffOrInTransit ==
    ASSUME NEW S, NEW T, NEW p, S.task[p].array = NULL
    PROVE  Filed(S, T \cup {p}) <=> Filed(S, T)
<1>1. OnBut(S, T \cup {p}) = OnBut(S, T)
  BY DEF OnBut
<1> QED BY <1>1 DEF Filed

\* What else the functions of the kernel leave alone.
SameFields(S, S2) ==
    \A q \in AllTask : /\ S2.task[q].state = S.task[q].state
                       /\ S2.task[q].p_opptr = S.task[q].p_opptr
                       /\ S2.task[q].justGotForked => S.task[q].justGotForked

SameCounts(S, S2) ==
    /\ S2.rq.curr = S.rq.curr
    /\ S2.rq.nr_running = S.rq.nr_running
    /\ S2.rq.active = S.rq.active

\* dequeue_task() of a task that is not in transit already.
LEMMA Dequeue ==
    ASSUME NEW S, NEW T, Filed(S, T), NEW p \in Task \ T, NEW array \in ArrayId
    PROVE  LET S2 == dequeue_task(S, p, array)
           IN  /\ KernelType(S2) /\ S2.task = S.task /\ SameCounts(S, S2)
               /\ S.task[p].array = NULL => S2.rq.panic = "list" /\ S2.rq.misfiled
               /\ S.task[p].array # NULL => S2.rq.panic = S.rq.panic /\ Filed(S2, T \cup {p})
<1> DEFINE home == S.task[p].array
           k == S.task[p].prio
           S2 == dequeue_task(S, p, array)
<1>1. /\ KernelType(S) /\ ArraysType(S.rq.arrays) /\ S.rq \in runqueue
      /\ home \in ArrayId \cup {NULL} /\ k \in Prio
  BY Fields DEF Filed, KernelType
<1>2. CASE home = NULL
  <2> DEFINE r == [S.rq EXCEPT !.panic = "list", !.misfiled = TRUE]
  <2>1. r \in runqueue /\ r.panic = "list" /\ r.misfiled
        /\ r.curr = S.rq.curr /\ r.nr_running = S.rq.nr_running /\ r.active = S.rq.active
    BY <1>1 DEF runqueue
  <2>2. S2 = put_rq(S, r)
    BY <1>2 DEF dequeue_task
  <2> HIDE DEF r, S2
  <2>3. S2.rq = r /\ S2.task = S.task /\ KernelType(S2)
    BY <1>1, <2>1, <2>2, PutRq
  <2> QED BY <1>2, <2>1, <2>3 DEF SameCounts, S2
<1>3. CASE home # NULL
  <2> DEFINE arrays1 == S.rq.arrays
             arrays2 == array_dequeue(arrays1, home, array, k, p)
             r == [S.rq EXCEPT !.arrays = arrays2, !.misfiled = @ \/ home # array]
             on == OnBut(S, T)
             on2 == OnBut(S, T \cup {p})
             at == At(S)
  <2>1. S2 = put_rq(S, r)
    BY <1>3 DEF dequeue_task
  <2>2. /\ on[p] = home /\ at[p] = k /\ on2[p] = NULL
        /\ \A q \in Task \ {p} : on2[q] = on[q]
    BY DEF OnBut, At
  <2>3. ListsExact(on, at, arrays1) /\ ArraysType(arrays1) /\ home \in ArrayId
    BY <1>1, <1>3 DEF Filed
  <2>4. ~S.rq.misfiled => BitmapsExact(arrays1) /\ CountersExact(on, arrays1)
    BY DEF Filed
  <2> HIDE DEF S2, r, on, on2, at, arrays1, home, k
  <2>5. ArraysType(arrays2) /\ ListsExact(on2, at, arrays2)
    <3>1. on[p] \in ArrayId /\ at[p] \in Prio
      BY <1>1, <2>2, <2>3
    <3>2. arrays2 = array_dequeue(arrays1, on[p], array, at[p], p)
      BY <2>2
    <3> HIDE DEF arrays2
    <3> QED BY <2>2, <2>3, <3>1, <3>2, DequeueLists
  <2>6. ~S.rq.misfiled /\ home = array => BitmapsExact(arrays2) /\ CountersExact(on2, arrays2)
    <3> SUFFICES ASSUME ~S.rq.misfiled, home = array
                 PROVE  BitmapsExact(arrays2) /\ CountersExact(on2, arrays2)
      OBVIOUS
    <3>1. on[p] \in ArrayId /\ at[p] \in Prio
      BY <1>1, <2>2, <2>3
    <3>2. arrays2 = array_dequeue(arrays1, on[p], on[p], at[p], p)
      BY <2>2
    <3>3. ArraysExact(on, at, arrays1)
      BY <2>3, <2>4 DEF ArraysExact
    <3> HIDE DEF arrays2
    <3> QED BY <2>2, <2>3, <3>1, <3>2, <3>3, DequeueExact
  <2> HIDE DEF arrays2
  <2>7. /\ r \in runqueue /\ r.arrays = arrays2 /\ r.misfiled = (S.rq.misfiled \/ home # array)
        /\ r.panic = S.rq.panic /\ r.active = S.rq.active
        /\ r.curr = S.rq.curr /\ r.nr_running = S.rq.nr_running
    BY <1>1, <2>5 DEF r, runqueue, ArraysType
  <2>8. S2.rq = r /\ S2.task = S.task /\ KernelType(S2)
    BY <1>1, <2>1, <2>7, PutRq
  <2>9. OnBut(S2, T \cup {p}) = on2 /\ At(S2) = at
    BY <2>8 DEF OnBut, At, on2, at
  <2> QED BY <1>3, <2>5, <2>6, <2>7, <2>8, <2>9 DEF SameCounts, Filed, S2, home
<1> QED BY <1>2, <1>3

\* A list of the runqueue is a list of tasks, and a task in transit can be
\* linked on it at either end.
LEMMA ListAdd ==
    ASSUME NEW S, KernelType(S), NEW p \in Task, NEW array \in ArrayId, NEW k \in Prio
    PROVE  LET q == S.rq.arrays[array].queue[k]
           IN  /\ list_add(q, p) \in Seq(Task) /\ list_add_tail(q, p) \in Seq(Task)
               /\ list_add_second(q, p) \in Seq(Task)
               /\ \A T : Filed(S, T) /\ p \in T
                    => /\ LinkedOn(list_add(q, p), q, p)
                       /\ LinkedOn(list_add_tail(q, p), q, p)
                       /\ LinkedOn(list_add_second(q, p), q, p)
<1> DEFINE q == S.rq.arrays[array].queue[k]
<1>1. q \in Seq(Task)
  BY Fields
<1> HIDE DEF q
<1>2. Len(q) \in Nat /\ (q # << >> => Len(q) >= 1)
  BY <1>1, LenProperties, EmptySeq
<1>3. \A i \in 1 .. Len(q) + 1 : InsertAt(q, i, p) \in Seq(Task)
  BY <1>1, InsertedEntries
<1>4. list_add(q, p) \in Seq(Task)
  BY <1>2, <1>3 DEF list_add
<1>5. list_add_tail(q, p) \in Seq(Task)
  BY <1>1 DEF list_add_tail
<1>6. list_add_second(q, p) \in Seq(Task)
  BY <1>2, <1>3 DEF list_add_second
<1>7. ASSUME NEW T, Filed(S, T), p \in T
      PROVE  /\ LinkedOn(list_add(q, p), q, p)
             /\ LinkedOn(list_add_tail(q, p), q, p)
             /\ LinkedOn(list_add_second(q, p), q, p)
  <2>1. IsInjective(q) /\ ~InList(q, p)
    BY <1>7, Nulls DEF Filed, ListsExact, OnBut, q
  <2> QED BY <1>1, <2>1, ListAddLinks
<1> QED BY <1>4, <1>5, <1>6, <1>7 DEF q

\* S2 is S with p, one of the tasks T in transit, on an array again.
Refiled(S, S2, p, T) ==
    /\ KernelType(S2) /\ SameFields(S, S2) /\ SameCounts(S, S2)
    /\ S2.rq.panic = "none" \/ (S2.rq.panic = "list" /\ S2.rq.misfiled)
    /\ S2.rq.panic = "none" =>
        /\ S.rq.panic = "none"
        /\ Filed(S2, T \ {p})
        /\ S2.task[p].array # NULL
        /\ \A q \in AllTask \ {p} : S2.task[q].array = NULL <=> S.task[q].array = NULL

\* enqueue_task() once it knows the new contents q2 of the list.
LEMMA Link ==
    ASSUME NEW S, KernelType(S), NEW T, NEW p \in Task, p \in T, NEW array \in ArrayId,
           S.rq.panic = "none" => Filed(S, T),
           S.rq.panic = "none" \/ (S.rq.panic = "list" /\ S.rq.misfiled),
           NEW q2 \in Seq(Task),
           S.rq.panic = "none" => LinkedOn(q2, S.rq.arrays[array].queue[S.task[p].prio], p)
    PROVE  Refiled(S, put_rq(put_task(S, p, [S.task[p] EXCEPT !.array = array]),
                             [S.rq EXCEPT !.arrays = array_enqueue(@, array, S.task[p].prio, q2)]),
                   p, T)
<1> DEFINE k == S.task[p].prio
           arrays1 == S.rq.arrays
           arrays2 == array_enqueue(arrays1, array, k, q2)
           t == [S.task[p] EXCEPT !.array = array]
           r == [S.rq EXCEPT !.arrays = arrays2]
           S1 == put_task(S, p, t)
           S2 == put_rq(S1, r)
<1>1. /\ S.task[p] \in task_struct /\ p \in AllTask /\ k \in Prio
      /\ ArraysType(arrays1) /\ S.rq \in runqueue
  BY Fields DEF KernelType
<1>2. /\ t \in task_struct /\ t.array = array /\ t.prio = k
      /\ t.state = S.task[p].state /\ t.p_opptr = S.task[p].p_opptr
      /\ t.justGotForked = S.task[p].justGotForked
  BY <1>1 DEF task_struct
<1> HIDE DEF arrays1, k
<1>3. ArraysType(arrays2)
  BY <1>1, EnqueueType
<1> HIDE DEF arrays2
<1>4. /\ r \in runqueue /\ r.arrays = arrays2 /\ r.misfiled = S.rq.misfiled
      /\ r.panic = S.rq.panic /\ r.active = S.rq.active
      /\ r.curr = S.rq.curr /\ r.nr_running = S.rq.nr_running
  BY <1>1, <1>3 DEF runqueue, ArraysType
<1> HIDE DEF t, r
<1>5. /\ KernelType(S1)
      /\ \A q \in AllTask : S1.task[q] = IF q = p THEN t ELSE S.task[q]
  BY <1>1, <1>2, PutTask
<1> HIDE DEF S1
<1>6. S2.rq = r /\ S2.task = S1.task /\ KernelType(S2)
  BY <1>4, <1>5, PutRq
<1> HIDE DEF S2
<1>7. SameFields(S, S2) /\ SameCounts(S, S2)
  BY <1>2, <1>4, <1>5, <1>6 DEF SameFields, SameCounts
<1>8. S2.task[p].array = array /\ \A q \in AllTask \ {p} : S2.task[q].array = S.task[q].array
  BY <1>1, <1>2, <1>5, <1>6
<1>9. ASSUME S.rq.panic = "none"
      PROVE  Filed(S2, T \ {p})
  <2> DEFINE on == OnBut(S, T)
             on2 == OnBut(S2, T \ {p})
             at == At(S)
             at2 == At(S2)
  <2>1. on[p] = NULL /\ on2[p] = array /\ \A q \in Task \ {p} : on2[q] = on[q]
    BY <1>8, Fields DEF OnBut
  <2>2. at2[p] = k /\ \A q \in Task \ {p} : at2[q] = at[q]
    BY <1>2, <1>5, <1>6, Fields DEF At
  <2>3. /\ ListsExact(on, at, arrays1)
        /\ ~S.rq.misfiled => BitmapsExact(arrays1) /\ CountersExact(on, arrays1)
    BY <1>9 DEF Filed, arrays1
  <2>4. LinkedOn(q2, arrays1[array].queue[k], p)
    BY <1>9 DEF arrays1, k
  <2> HIDE DEF on, on2, at, at2
  <2>5. ListsExact(on2, at2, arrays2)
    BY <1>1, <2>1, <2>2, <2>3, <2>4, EnqueueLists DEF arrays2
  <2>6. ~S.rq.misfiled => BitmapsExact(arrays2) /\ CountersExact(on2, arrays2)
    BY <1>1, <2>1, <2>3, <2>4, EnqueueExact DEF arrays2
  <2> QED BY <1>4, <1>6, <2>5, <2>6 DEF Filed, on2, at2
<1>10. S2.rq.panic = S.rq.panic /\ S2.rq.misfiled = S.rq.misfiled
  BY <1>4, <1>6
<1>11. S2.task[p].array # NULL
  BY <1>8, Nulls
<1>12. Refiled(S, S2, p, T)
  BY <1>6, <1>7, <1>8, <1>9, <1>10, <1>11 DEF Refiled
<1> QED BY <1>12 DEF S2, S1, t, r, arrays2, arrays1, k

LEMMA EnqueueWith ==
    ASSUME NEW S, KernelType(S), NEW T, NEW p \in Task, p \in T, NEW array \in ArrayId,
           S.rq.panic = "none" => Filed(S, T),
           S.rq.panic = "none" \/ (S.rq.panic = "list" /\ S.rq.misfiled)
    PROVE  /\ Refiled(S, enqueue_head(S, p, array), p, T)
           /\ Refiled(S, enqueue_tail(S, p, array), p, T)
<1> DEFINE q == S.rq.arrays[array].queue[S.task[p].prio]
           head == list_add(q, p)
           tail == list_add_tail(q, p)
           S2(list) == put_rq(put_task(S, p, [S.task[p] EXCEPT !.array = array]),
                              [S.rq EXCEPT !.arrays = array_enqueue(@, array, S.task[p].prio, list)])
<1>1. /\ head \in Seq(Task) /\ tail \in Seq(Task)
      /\ S.rq.panic = "none" => LinkedOn(head, q, p) /\ LinkedOn(tail, q, p)
  BY ListAdd, Fields
<1>2. /\ enqueue_head(S, p, array) = S2(head)
      /\ enqueue_tail(S, p, array) = S2(tail)
  BY DEF enqueue_head, enqueue_tail, enqueue_with, list_of
<1> HIDE DEF head, tail
<1>3. Refiled(S, S2(head), p, T) /\ Refiled(S, S2(tail), p, T)
  BY <1>1, Link
<1> QED BY <1>2, <1>3

\* enqueue_task() of a child whose parent is not in transit, up to the
\* parent's own enqueue_task(), which results in S2.
LEMMA EnqueueChild ==
    ASSUME NEW S, NEW T, Filed(S, T), S.rq.panic = "none",
           NEW p \in Task, p \in T, NEW array \in ArrayId,
           NEW parent \in Task \ T, NEW S1,
           S1 = dequeue_task(put_task(S, parent, [S.task[parent] EXCEPT !.justGotForked = FALSE]),
                             parent, array)
    PROVE  /\ S1.rq.panic # "none" => Refiled(S, S1, p, T)
           /\ S1.rq.panic = "none" =>
                /\ Filed(S1, T \cup {parent}) /\ SameFields(S, S1)
                /\ \A S2 : Refiled(S1, S2, parent, T \cup {parent})
                             => Refiled(S, enqueue_head(S2, p, array), p, T)
<1> DEFINE t == [S.task[parent] EXCEPT !.justGotForked = FALSE]
           S0 == put_task(S, parent, t)
<1>1. KernelType(S) /\ parent \in AllTask /\ S.task[parent] \in task_struct
      /\ S.task[parent].prio \in Prio
  BY Fields DEF Filed
<1>2. /\ t \in task_struct /\ t.array = S.task[parent].array /\ t.prio = S.task[parent].prio
      /\ t.state = S.task[parent].state /\ t.p_opptr = S.task[parent].p_opptr
      /\ ~t.justGotForked
  BY <1>1 DEF task_struct
<1>3. S1 = dequeue_task(S0, parent, array)
  OBVIOUS
<1> HIDE DEF t
<1>4. /\ KernelType(S0) /\ S0.rq = S.rq /\ Filed(S0, T)
      /\ \A q \in AllTask : S0.task[q] = IF q = parent THEN t ELSE S.task[q]
  BY <1>1, <1>2, PutTask
<1>5. /\ SameFields(S, S0) /\ SameCounts(S, S0)
      /\ \A q \in AllTask : S0.task[q].array = S.task[q].array
  BY <1>2, <1>4 DEF SameFields, SameCounts
<1> HIDE DEF S0
<1>6. /\ KernelType(S1) /\ S1.task = S0.task /\ SameCounts(S0, S1)
      /\ S0.task[parent].array = NULL => S1.rq.panic = "list" /\ S1.rq.misfiled
      /\ S0.task[parent].array # NULL => S1.rq.panic = S0.rq.panic /\ Filed(S1, T \cup {parent})
  BY <1>3, <1>4, Dequeue
<1>7. SameFields(S, S1) /\ SameCounts(S, S1)
      /\ \A q \in AllTask : S1.task[q].array = S.task[q].array
  BY <1>5, <1>6 DEF SameFields, SameCounts
<1>8. CASE S1.rq.panic # "none"
  BY <1>4, <1>6, <1>7, <1>8 DEF Refiled
<1>9. CASE S1.rq.panic = "none"
  <2>1. Filed(S1, T \cup {parent}) /\ S1.task[parent].array # NULL
    BY <1>1, <1>5, <1>6, <1>7, <1>9
  <2>2. ASSUME NEW S2, Refiled(S1, S2, parent, T \cup {parent})
        PROVE  Refiled(S, enqueue_head(S2, p, array), p, T)
    <3> DEFINE S3 == enqueue_head(S2, p, array)
    <3>1. /\ KernelType(S2) /\ SameFields(S1, S2) /\ SameCounts(S1, S2)
          /\ S2.rq.panic = "none" \/ (S2.rq.panic = "list" /\ S2.rq.misfiled)
          /\ S2.rq.panic = "none" => Filed(S2, (T \cup {parent}) \ {parent})
      BY <2>2 DEF Refiled
    <3>2. (T \cup {parent}) \ {parent} = T
      OBVIOUS
    <3>3. Refiled(S2, S3, p, T)
      BY <3>1, <3>2, EnqueueWith, ZenonT(40)
    <3> HIDE DEF S3
    <3>4. SameFields(S, S3) /\ SameCounts(S, S3)
      <4>1. SameFields(S2, S3) /\ SameCounts(S2, S3)
        BY <3>3 DEF Refiled
      <4>2. SameFields(S, S3)
        BY <1>7, <3>1, <4>1 DEF SameFields
      <4> QED BY <1>7, <3>1, <4>1, <4>2 DEF SameCounts
    <3>5. S3.rq.panic = "none" =>
            \A q \in AllTask \ {p} : S3.task[q].array = NULL <=> S.task[q].array = NULL
      <4> SUFFICES ASSUME S3.rq.panic = "none", NEW q \in AllTask \ {p}
                   PROVE  S3.task[q].array = NULL <=> S.task[q].array = NULL
        OBVIOUS
      <4>1. S3.task[q].array = NULL <=> S2.task[q].array = NULL
        BY <3>3 DEF Refiled
      <4>2. S2.rq.panic = "none"
        BY <3>3 DEF Refiled
      <4>3. S2.task[q].array = NULL <=> S1.task[q].array = NULL
        BY <2>1, <2>2, <4>2 DEF Refiled
      <4> QED BY <1>7, <4>1, <4>3
    <3> QED BY <3>3, <3>4, <3>5 DEF Refiled, S3
  <2> QED BY <1>7, <1>9, <2>1, <2>2
<1> QED BY <1>8, <1>9


\* A task is neither its own parent nor its grandparent, and the idle task
\* has not been marked by do_fork().
Kin(S) ==
    /\ ~S.task[Idle].justGotForked
    /\ \A q \in Task : LET r == S.task[q].p_opptr
                       IN  r # q /\ (r \in Task => S.task[r].p_opptr # q)

LEMMA KinKept ==
    ASSUME NEW S, NEW S2, KernelType(S), Kin(S), SameFields(S, S2)
    PROVE  Kin(S2)
<1>1. Idle \in AllTask /\ \A q \in Task : q \in AllTask
  BY DEF AllTask
<1> QED BY <1>1 DEF Kin, SameFields

\* enqueue_tail() files q.
LEMMA EnqueueTail ==
    ASSUME NEW S, NEW T, NEW q \in Task, q \in T, Filed(S, T), S.rq.panic = "none",
           NEW array \in ArrayId
    PROVE  Refiled(S, enqueue_tail(S, q, array), q, T)
  BY EnqueueWith DEF Filed

\* So does the nested enqueue_task() of a parent, after the parent's parent.
LEMMA EnqueueAncestor ==
    ASSUME NEW S, NEW T, NEW q \in Task, q \in T, Filed(S, T), S.rq.panic = "none",
           Kin(S), S.task[q].p_opptr \notin T, NEW array \in ArrayId
    PROVE  Refiled(S, enqueue_ancestor(S, q, array), q, T)
<1>1. CASE forked_by_short(S, q)
  <2> DEFINE parent == S.task[q].p_opptr
             u == [S.task[parent] EXCEPT !.justGotForked = FALSE]
             S2 == dequeue_task(put_task(S, parent, u), parent, array)
             S3 == enqueue_tail(S2, parent, array)
  <2>1. parent \in Task \ T
    BY <1>1, Fields DEF forked_by_short, Kin, Filed, AllTask
  <2>2. enqueue_ancestor(S, q, array)
          = IF S2.rq.panic # "none" THEN S2 ELSE enqueue_head(S3, q, array)
    BY <1>1 DEF enqueue_ancestor, enqueue_child, dequeue_parent
  <2> HIDE DEF parent
  <2>3. /\ S2.rq.panic # "none" => Refiled(S, S2, q, T)
        /\ S2.rq.panic = "none" =>
             /\ Filed(S2, T \cup {parent})
             /\ \A S4 : Refiled(S2, S4, parent, T \cup {parent})
                          => Refiled(S, enqueue_head(S4, q, array), q, T)
    BY <2>1, EnqueueChild
  <2> HIDE DEF S2
  <2>4. S2.rq.panic = "none" => Refiled(S2, S3, parent, T \cup {parent})
    BY <2>1, <2>3, EnqueueTail
  <2> HIDE DEF S3
  <2> QED BY <2>2, <2>3, <2>4
<1>2. CASE ~forked_by_short(S, q)
  <2>1. enqueue_ancestor(S, q, array) = enqueue_tail(S, q, array)
    BY <1>2 DEF enqueue_ancestor
  <2> QED BY <2>1, EnqueueTail
<1> QED BY <1>1, <1>2

\* enqueue_task() files p, and panics only where it misfiles.
LEMMA Enqueue ==
    ASSUME NEW S, NEW p \in Task, Filed(S, {p}), S.rq.panic = "none", Kin(S),
           NEW array \in ArrayId
    PROVE  Refiled(S, enqueue_task(S, p, array), p, {p})
<1>1. CASE forked_by_short(S, p)
  <2> DEFINE parent == S.task[p].p_opptr
             u == [S.task[parent] EXCEPT !.justGotForked = FALSE]
             S2 == dequeue_task(put_task(S, parent, u), parent, array)
             S3 == enqueue_ancestor(S2, parent, array)
  <2>1. /\ parent \in Task \ {p}
        /\ S.task[parent].p_opptr \notin {p, parent}
    BY <1>1, Fields DEF forked_by_short, Kin, Filed, AllTask
  <2>2. enqueue_task(S, p, array)
          = IF S2.rq.panic # "none" THEN S2 ELSE enqueue_head(S3, p, array)
    BY <1>1 DEF enqueue_task, enqueue_child, dequeue_parent
  <2> HIDE DEF parent
  <2>3. /\ S2.rq.panic # "none" => Refiled(S, S2, p, {p})
        /\ S2.rq.panic = "none" =>
             /\ Filed(S2, {p} \cup {parent}) /\ SameFields(S, S2)
             /\ \A S4 : Refiled(S2, S4, parent, {p} \cup {parent})
                          => Refiled(S, enqueue_head(S4, p, array), p, {p})
    BY <2>1, EnqueueChild
  <2> HIDE DEF S2
  <2>4. ASSUME S2.rq.panic = "none"
        PROVE  Refiled(S2, S3, parent, {p} \cup {parent})
    <3>1. Kin(S2) /\ S2.task[parent].p_opptr = S.task[parent].p_opptr
      BY <2>1, <2>3, <2>4, KinKept, Fields DEF Filed, SameFields
    <3> QED BY <2>1, <2>3, <2>4, <3>1, EnqueueAncestor
  <2> HIDE DEF S3
  <2> QED BY <2>2, <2>3, <2>4
<1>2. CASE ~forked_by_short(S, p)
  <2>1. enqueue_task(S, p, array) = enqueue_tail(S, p, array)
    BY <1>2 DEF enqueue_task
  <2> QED BY <2>1, EnqueueTail
<1> QED BY <1>1, <1>2


-----------------------------------------------------------------------------
(* Functions that take nobody off the runqueue.                            *)

RunnableIn(S) == {q \in Task : S.task[q].array # NULL}

Sound(S) ==
    /\ S.rq.panic = "none"
    /\ Filed(S, {})
    /\ S.rq.nr_running = Cardinality(RunnableIn(S))
    /\ Kin(S)
    /\ S.task[Idle].array = NULL /\ S.task[Idle].state = "RUNNING"

Life(t) == IF t.state \in {"UNUSED", "ZOMBIE"} THEN t.state ELSE "alive"

SameProcesses(S, S2) ==
    \A q \in AllTask : /\ Life(S2.task[q]) = Life(S.task[q])
                       /\ S2.task[q].p_opptr = S.task[q].p_opptr

Stopped(S) == S.rq.panic # "none" /\ (S.rq.panic = "list" => S.rq.misfiled)

\* From S the kernel reaches S2, where exactly the tasks W are runnable that
\* were not, unless it stops.
Reaches(S, S2, W) ==
    /\ KernelType(S2)
    /\ S2.rq.curr = S.rq.curr
    /\ \/ Stopped(S2)
       \/ /\ Sound(S2) /\ SameProcesses(S, S2)
          /\ \A q \in AllTask : S2.task[q].array # NULL <=> S.task[q].array # NULL \/ q \in W

\* As S, but p is in transit.
InTransit(S, S2, p) ==
    /\ S2.rq.panic = "none"
    /\ Filed(S2, {p})
    /\ Kin(S2) /\ SameProcesses(S, S2) /\ S2.task[Idle].state = S.task[Idle].state
    /\ S2.rq.curr = S.rq.curr /\ S2.rq.nr_running = S.rq.nr_running
    /\ \A q \in AllTask \ {p} : S2.task[q].array = NULL <=> S.task[q].array = NULL

\* A change of a task_struct that needs no dequeue_task().
Compatible(t, u) ==
    /\ u \in task_struct
    /\ Life(u) = Life(t) /\ u.p_opptr = t.p_opptr /\ u.array = t.array

LEMMA SoundReaches == \A S : Sound(S) => Reaches(S, S, {})
  BY DEF Sound, Reaches, Filed, SameProcesses

LEMMA ReachesPut ==
    ASSUME NEW S, NEW W, NEW S1, Reaches(S, S1, W), NEW p \in AllTask, NEW t,
           Compatible(S1.task[p], t),
           p \in Task => t.prio \in Prio,
           t.array # NULL => t.prio = S1.task[p].prio,
           p = Idle => /\ t.state = S1.task[p].state
                       /\ t.justGotForked => S1.task[p].justGotForked
    PROVE  Reaches(S, put_task(S1, p, t), W)
<1> DEFINE S2 == put_task(S1, p, t)
<1>1. KernelType(S1) /\ p \in AllTask /\ Idle \in AllTask
  BY Fields DEF Reaches
<1>2. /\ KernelType(S2) /\ S2.rq = S1.rq
      /\ \A q \in AllTask : S2.task[q] = IF q = p THEN t ELSE S1.task[q]
      /\ \A T : /\ Filed(S1, T)
                /\ p \in Task \ T => t.array = S1.task[p].array /\ t.prio = S1.task[p].prio
                => Filed(S2, T)
  BY <1>1, PutTask DEF Compatible
<1> HIDE DEF S2
<1>3. \A q \in AllTask : /\ S2.task[q].array = S1.task[q].array
                         /\ Life(S2.task[q]) = Life(S1.task[q])
                         /\ S2.task[q].p_opptr = S1.task[q].p_opptr
  BY <1>2 DEF Compatible
<1>4. CASE Stopped(S1)
  BY <1>2, <1>4 DEF Reaches, Stopped, S2
<1>5. CASE ~Stopped(S1)
  <2>1. Sound(S1)
    BY <1>5 DEF Reaches
  <2>2. Filed(S2, {})
    <3>1. CASE t.array # NULL
      BY <1>2, <2>1, <3>1 DEF Sound, Compatible
    <3>2. CASE t.array = NULL
      <4>1. S1.task[p].array = NULL /\ S2.task[p].array = NULL
        BY <1>3, <3>2 DEF Compatible
      <4>2. Filed(S1, {} \cup {p})
        BY <2>1, <4>1, OffOrInTransit DEF Sound
      <4>3. Filed(S2, {} \cup {p})
        BY <1>2, <4>2
      <4> QED BY <4>1, <4>3, OffOrInTransit
    <3> QED BY <3>1, <3>2
  <2>3. RunnableIn(S2) = RunnableIn(S1)
    BY <1>3 DEF RunnableIn, AllTask
  <2>4. Kin(S2)
    BY <1>1, <1>2, <1>3, <2>1, Fields DEF Sound, Kin
  <2>5. Sound(S2)
    <3>1. S2.task[Idle].state = S1.task[Idle].state
      BY <1>1, <1>2
    <3> QED BY <1>1, <1>2, <1>3, <2>1, <2>2, <2>3, <2>4, <3>1 DEF Sound
  <2> QED BY <1>2, <1>3, <1>5, <2>5 DEF Reaches, SameProcesses, S2
<1> QED BY <1>4, <1>5

\* dequeue_task() of a runnable task, whatever array is named.
LEMMA DequeueTransit ==
    ASSUME NEW S, Sound(S), NEW p \in RunnableIn(S), NEW array \in ArrayId
    PROVE  /\ InTransit(S, dequeue_task(S, p, array), p)
           /\ dequeue_task(S, p, array).task = S.task
<1> DEFINE S2 == dequeue_task(S, p, array)
<1>1. p \in Task \ {} /\ S.task[p].array # NULL /\ {} \cup {p} = {p}
  BY DEF RunnableIn
<1>2. /\ S2.task = S.task /\ SameCounts(S, S2)
      /\ S2.rq.panic = S.rq.panic /\ Filed(S2, {p})
  BY <1>1, Dequeue DEF Sound
<1> HIDE DEF S2
<1>3. Kin(S2)
  BY <1>2 DEF Sound, Kin
<1> QED BY <1>2, <1>3 DEF InTransit, Sound, SameProcesses, SameCounts, S2

LEMMA PutTransit ==
    ASSUME NEW S, NEW p \in Task, NEW S1, InTransit(S, S1, p),
           NEW t, t \in task_struct, t.prio \in Prio,
           Life(t) = Life(S1.task[p]), t.p_opptr = S1.task[p].p_opptr
    PROVE  InTransit(S, put_task(S1, p, t), p)
<1> DEFINE S2 == put_task(S1, p, t)
<1>1. KernelType(S1) /\ p \in AllTask /\ Idle \in AllTask /\ Idle # p
  BY Fields, Constants DEF InTransit, Filed
<1>2. /\ S2.rq = S1.rq /\ Filed(S2, {p})
      /\ \A q \in AllTask : S2.task[q] = IF q = p THEN t ELSE S1.task[q]
  BY <1>1, PutTask DEF InTransit
<1> HIDE DEF S2
<1>3. \A q \in AllTask : /\ Life(S2.task[q]) = Life(S1.task[q])
                         /\ S2.task[q].p_opptr = S1.task[q].p_opptr
  BY <1>2
<1>4. Kin(S2)
  BY <1>1, <1>2, <1>3, Fields DEF InTransit, Kin
<1> QED BY <1>1, <1>2, <1>3, <1>4 DEF InTransit, SameProcesses, S2

LEMMA EnqueueTransit ==
    ASSUME NEW S, Sound(S), NEW p \in RunnableIn(S), NEW S1, InTransit(S, S1, p),
           NEW array \in ArrayId
    PROVE  Reaches(S, enqueue_task(S1, p, array), {})
<1> DEFINE S2 == enqueue_task(S1, p, array)
<1>1. p \in Task /\ {p} \ {p} = {} /\ p # Idle /\ KernelType(S) /\ KernelType(S1)
  BY Constants DEF RunnableIn, InTransit, Sound, Filed
<1>2. Refiled(S1, S2, p, {p})
  BY <1>1, Enqueue DEF InTransit
<1> HIDE DEF S2
<1>3. CASE S2.rq.panic = "none"
  <2>1. \A q \in AllTask : S2.task[q].array = NULL <=> S.task[q].array = NULL
    BY <1>1, <1>2, <1>3 DEF Refiled, InTransit, RunnableIn
  <2>2. RunnableIn(S2) = RunnableIn(S)
    BY <2>1 DEF RunnableIn, AllTask
  <2>3. SameProcesses(S, S2)
    BY <1>2 DEF Refiled, InTransit, SameFields, SameProcesses, Life
  <2>4. Kin(S2)
    BY <1>1, <1>2, KinKept DEF Refiled, InTransit
  <2>5. S2.rq.curr = S.rq.curr /\ S2.rq.nr_running = S.rq.nr_running
        /\ Filed(S2, {}) /\ KernelType(S2)
    BY <1>1, <1>2, <1>3 DEF Refiled, InTransit, SameCounts
  <2>6. Sound(S2)
    <3>1. S2.task[Idle].state = S.task[Idle].state
      BY <1>1, <1>2, Fields DEF Refiled, InTransit, SameFields
    <3> QED BY <1>1, <1>3, <2>1, <2>2, <2>3, <2>4, <2>5, <3>1, Fields DEF Sound
  <2> QED BY <1>1, <2>1, <2>3, <2>5, <2>6 DEF Reaches, S2
<1>4. CASE S2.rq.panic # "none"
  BY <1>2, <1>4 DEF Refiled, Reaches, Stopped, InTransit, SameCounts, S2
<1> QED BY <1>3, <1>4


LEMMA ReachesTrans ==
    ASSUME NEW S, NEW S1, NEW W, NEW W1, Reaches(S, S1, W1), Sound(S1),
           NEW S2, Reaches(S1, S2, W), W1 = {}
    PROVE  Reaches(S, S2, W)
<1>1. ~Stopped(S1)
  BY DEF Stopped, Sound
<1> QED BY <1>1 DEF Reaches, SameProcesses

LEMMA NeedResched ==
    ASSUME NEW S, NEW W, NEW S1, Reaches(S, S1, W)
    PROVE  Reaches(S, set_need_resched(S1), W)
<1> DEFINE p == S1.rq.curr
           t == [S1.task[p] EXCEPT !.need_resched = TRUE]
<1>1. p \in AllTask /\ S1.task[p] \in task_struct /\ (p \in Task => S1.task[p].prio \in Prio)
  BY Fields DEF Reaches
<1>2. /\ Compatible(S1.task[p], t) /\ t.prio = S1.task[p].prio
      /\ t.state = S1.task[p].state /\ t.justGotForked = S1.task[p].justGotForked
  BY <1>1 DEF Compatible, Life, task_struct
<1> HIDE DEF t, p
<1>3. Reaches(S, put_task(S1, p, t), W)
  BY <1>1, <1>2, ReachesPut
<1> QED BY <1>3 DEF set_need_resched, t, p

LEMMA ArrayChoice ==
    ASSUME NEW S, KernelType(S)
    PROVE  /\ \A t : pointer_to_my_active_prio_array(t, S) \in ArrayId
           /\ expired(S) \in ArrayId
  BY Nulls DEF KernelType, runqueue, pointer_to_my_active_prio_array, expired

\* The task_struct after the time slice ended.
LEMMA Refill ==
    ASSUME NEW t \in task_struct, NEW b \in Bonuses
    PROVE  LET u == refill(t, b)
           IN  u \in task_struct /\ u.prio \in Prio /\ Life(u) = Life(t) /\ u.p_opptr = t.p_opptr
<1> DEFINE u1 == lapse(t)
<1>1. u1 \in task_struct /\ u1.state = t.state /\ u1.p_opptr = t.p_opptr
  <2> HIDE DEF u1
  <2>1. t.overdue_static_prio \in Prio /\ t.static_prio \in Prio /\ "OTHER" \in Policy
    BY DEF task_struct, Policy
  <2> USE DEF u1
  <2>2. CASE overdue_task(t)
    <3> DEFINE other == "OTHER"
               none == 0
               v == [t EXCEPT !.policy = other, !.iAmOverdue = FALSE,
                              !.static_prio = t.overdue_static_prio, !.requestedTime = none]
    <3>1. lapse(t) = v
      BY <2>2 DEF lapse
    <3>2. other \in Policy /\ none \in Int
      BY <2>1
    <3> HIDE DEF other, none
    <3>3. v \in task_struct /\ v.state = t.state /\ v.p_opptr = t.p_opptr
      BY <2>1, <3>2 DEF task_struct
    <3> QED BY <3>1, <3>3
  <2>3. CASE ~overdue_task(t) /\ short_task(t)
    BY <2>1, <2>3, Constants DEF lapse, task_struct
  <2>4. CASE ~overdue_task(t) /\ ~short_task(t)
    BY <2>4 DEF lapse
  <2> QED BY <2>2, <2>3, <2>4
<1> DEFINE k == effective_prio(u1, b)
           slice == OS_TASK_TIMESLICE(u1)
           u == [u1 EXCEPT !.prio = k, !.first_time_slice = FALSE,
                           !.time_slice = slice, !.need_resched = TRUE]
<1> HIDE DEF u1
<1>2. k \in Prio /\ slice \in 0 .. UINT - 1 /\ k \in 0 .. MAX_PRIO
  BY <1>1, PrioTypes, SliceTypes, Constants DEF Prio
<1> HIDE DEF k, slice
<1>3. u \in task_struct /\ u.prio = k /\ u.state = t.state /\ u.p_opptr = t.p_opptr
  BY <1>1, <1>2 DEF task_struct
<1> HIDE DEF u
<1>4. u.prio \in Prio /\ Life(u) = Life(t)
  BY <1>2, <1>3 DEF Life
<1> QED BY <1>3, <1>4 DEF refill, u, u1, k, slice

\* scheduler_tick() takes nobody off the runqueue.
LEMMA TickReaches ==
    ASSUME NEW S, Sound(S), S.rq.curr # Idle => S.rq.curr \in RunnableIn(S),
           NEW b \in Bonuses, NEW toExpired \in BOOLEAN
    PROVE  Reaches(S, scheduler_tick(S, b, toExpired), {})
<1> DEFINE p == S.rq.curr
           t == S.task[p]
           S1 == spend_tick(S, p)
           t1 == [t EXCEPT !.time_slice = (t.time_slice - 1) % UINT]
<1>1. Reaches(S, S, {}) /\ Reaches(S, set_need_resched(S), {})
  BY SoundReaches, NeedResched
<1>2. CASE p # Idle
  <2>1. /\ p \in Task /\ p \in AllTask /\ KernelType(S)
        /\ t \in task_struct /\ t.prio \in Prio /\ t.time_slice \in Int
    BY <1>2, Fields DEF RunnableIn, Sound, Filed, task_struct
  <2>2. (t.time_slice - 1) % UINT \in 0 .. UINT - 1
    BY <2>1, UnsignedRange
  <2>3. /\ Compatible(t, t1) /\ t1.prio = t.prio
    BY <2>1, <2>2 DEF Compatible, Life, task_struct
  <2>4. S1 = put_task(S, p, t1)
    BY DEF spend_tick
  <2> HIDE DEF t1, S1, t
  <2>5. Reaches(S, S1, {})
    BY <1>1, <1>2, <2>1, <2>3, <2>4, ReachesPut DEF t
  <2>6. /\ S1.rq = S.rq /\ KernelType(S1)
        /\ \A q \in AllTask : S1.task[q] = IF q = p THEN t1 ELSE S.task[q]
    <3>1. t1 \in task_struct /\ t1.prio \in Prio
      BY <2>1, <2>3 DEF Compatible
    <3> HIDE DEF p
    <3> QED BY <2>1, <2>4, <3>1, PutTask, SMTT(30)
  <2>7. Sound(S1) /\ p \in RunnableIn(S1) /\ S1.task[p] = t1 /\ t1 \in task_struct
    <3>1. ~Stopped(S1)
      BY <2>6 DEF Stopped, Sound
    <3> QED BY <1>2, <2>1, <2>3, <2>5, <2>6, <3>1 DEF Reaches, RunnableIn, Compatible, t
  <2>8. Reaches(S, requeue_rr(S1, p), {})
    <3> DEFINE t2 == [S1.task[p] EXCEPT !.time_slice = TASK_TIMESLICE(S1.task[p]) % UINT,
                               !.first_time_slice = FALSE, !.need_resched = TRUE]
               S2 == put_task(S1, p, t2)
               array == pointer_to_my_active_prio_array(S1.task[p], S1)
               S3 == dequeue_task(S2, p, array)
    <3>1. array \in ArrayId
      BY <2>6, ArrayChoice
    <3>2. TASK_TIMESLICE(S1.task[p]) % UINT \in 0 .. UINT - 1
      BY <2>7, SliceTypes, UnsignedRange
    <3>3. Compatible(S1.task[p], t2) /\ t2.prio = S1.task[p].prio /\ t2.prio \in Prio
      BY <2>1, <2>3, <2>7, <3>2 DEF Compatible, Life, task_struct
    <3> HIDE DEF t2, array
    <3>4. Reaches(S, S2, {})
      BY <1>2, <2>1, <2>5, <3>3, ReachesPut
    <3>5. S2.rq = S1.rq /\ KernelType(S2) /\ S2.task[p] = t2
      BY <2>1, <2>6, <3>3, PutTask DEF Compatible
    <3> HIDE DEF S2
    <3>6. Sound(S2) /\ p \in RunnableIn(S2)
      <4>1. ~Stopped(S2)
        BY <2>7, <3>5 DEF Stopped, Sound
      <4> QED BY <1>2, <2>7, <3>3, <3>4, <3>5, <4>1 DEF Reaches, RunnableIn, Compatible
    <3>7. Reaches(S2, enqueue_task(S3, p, array), {})
      BY <3>1, <3>6, DequeueTransit, EnqueueTransit
    <3>8. Reaches(S, enqueue_task(S3, p, array), {})
      BY <3>4, <3>6, <3>7, ReachesTrans
    <3> QED BY <3>8 DEF requeue_rr, S2, t2, array
  <2>9. Reaches(S, expire(S1, p, b, toExpired), {})
    <3> DEFINE array == pointer_to_my_active_prio_array(S1.task[p], S1)
               S2 == dequeue_task(S1, p, array)
               u == refill(S1.task[p], b)
               S3 == put_task(S2, p, u)
               array2 == IF other_task(u) /\ toExpired THEN expired(S3)
                         ELSE pointer_to_my_active_prio_array(u, S3)
    <3>1. array \in ArrayId
      BY <2>6, ArrayChoice
    <3>2. u \in task_struct /\ u.prio \in Prio /\ Life(u) = Life(S1.task[p])
          /\ u.p_opptr = S1.task[p].p_opptr
      BY <2>7, Refill
    <3> HIDE DEF array, u
    <3>3. InTransit(S1, S2, p) /\ S2.task = S1.task
      BY <2>7, <3>1, DequeueTransit
    <3> HIDE DEF S2
    <3>4. InTransit(S1, S3, p)
      BY <2>1, <3>2, <3>3, PutTransit
    <3> HIDE DEF S3
    <3>5. array2 \in ArrayId
      BY <3>4, ArrayChoice DEF InTransit, Filed
    <3> HIDE DEF array2
    <3>6. Reaches(S1, enqueue_task(S3, p, array2), {})
      BY <2>7, <3>4, <3>5, EnqueueTransit
    <3>7. Reaches(S, enqueue_task(S3, p, array2), {})
      BY <2>5, <2>7, <3>6, ReachesTrans
    <3> QED BY <3>7 DEF expire, array2, S3, u, S2, array
  <2> QED BY <1>1, <2>5, <2>8, <2>9 DEF scheduler_tick, S1
<1> QED BY <1>1, <1>2 DEF scheduler_tick


-----------------------------------------------------------------------------
(* Functions that put tasks on the runqueue or take them off.              *)

\* activate_task() adds p to the runnable tasks.
LEMMA Activate ==
    ASSUME NEW S, Sound(S), NEW p \in Task, S.task[p].array = NULL, NEW k \in Prio
    PROVE  Reaches(S, activate_task(S, p, k), {p})
<1> DEFINE array == pointer_to_my_active_prio_array(S.task[p], S)
           t == [S.task[p] EXCEPT !.prio = k]
           S0 == put_task(S, p, t)
           S1 == enqueue_task(S0, p, array)
           r == [S1.rq EXCEPT !.nr_running = @ + 1]
           S2 == put_rq(S1, r)
<1>1. /\ KernelType(S) /\ p \in AllTask /\ Idle \in AllTask /\ p # Idle
      /\ S.task[p] \in task_struct /\ array \in ArrayId
  BY Fields, Constants, ArrayChoice DEF Sound, Filed
<1>2. k \in 0 .. MAX_PRIO
  BY Constants DEF Prio
<1>3. /\ Compatible(S.task[p], t) /\ t.prio = k /\ t.array = NULL
      /\ t.state = S.task[p].state
  BY <1>1, <1>2 DEF Compatible, Life, task_struct
<1> HIDE DEF t, array
<1>4. Reaches(S, S0, {})
  BY <1>1, <1>3, SoundReaches, ReachesPut
<1>5. S0.rq = S.rq /\ KernelType(S0) /\ S0.task[p] = t
  BY <1>1, <1>3, PutTask DEF Compatible
<1> HIDE DEF S0
<1>6. Sound(S0) /\ SameProcesses(S, S0)
      /\ \A q \in AllTask : S0.task[q].array # NULL <=> S.task[q].array # NULL
  BY <1>4, <1>5 DEF Reaches, Stopped, Sound
<1>7. Filed(S0, {p})
  <2>1. Filed(S0, {} \cup {p})
    BY <1>3, <1>5, <1>6, OffOrInTransit DEF Sound
  <2> QED BY <2>1
<1>8. Refiled(S0, S1, p, {p})
  BY <1>1, <1>6, <1>7, Enqueue DEF Sound
<1> HIDE DEF S1
<1>9. KernelType(S1) /\ S1.rq \in runqueue /\ S1.rq.nr_running \in Int
  BY <1>8 DEF Refiled, KernelType, runqueue
<1>10. /\ r \in runqueue /\ r.curr = S1.rq.curr /\ r.panic = S1.rq.panic
       /\ r.misfiled = S1.rq.misfiled /\ r.arrays = S1.rq.arrays
       /\ r.nr_running = S1.rq.nr_running + 1
  BY <1>9 DEF runqueue
<1> HIDE DEF r
<1>11. /\ KernelType(S2) /\ S2.rq = r /\ S2.task = S1.task
       /\ Filed(S1, {}) => Filed(S2, {})
  BY <1>9, <1>10, PutRq
<1> HIDE DEF S2
<1>12. S2.rq.curr = S.rq.curr
  BY <1>5, <1>8, <1>10, <1>11 DEF Refiled, SameCounts
<1>13. CASE S1.rq.panic = "none"
  <2>1. Filed(S2, {})
    <3>1. {p} \ {p} = {}
      OBVIOUS
    <3> QED BY <1>8, <1>11, <1>13, <3>1 DEF Refiled
  <2>2. \A q \in AllTask : S2.task[q].array # NULL <=> S.task[q].array # NULL \/ q \in {p}
    BY <1>6, <1>8, <1>11, <1>13 DEF Refiled
  <2>3. RunnableIn(S2) = RunnableIn(S) \cup {p} /\ p \notin RunnableIn(S)
    BY <2>2 DEF RunnableIn, AllTask
  <2>4. Cardinality(RunnableIn(S2)) = Cardinality(RunnableIn(S)) + 1
    BY <2>3, CounterAfter DEF RunnableIn
  <2>5. S2.rq.nr_running = S.rq.nr_running + 1
    BY <1>5, <1>8, <1>10, <1>11 DEF Refiled, SameCounts
  <2>6. SameFields(S0, S2)
    BY <1>8, <1>11 DEF Refiled, SameFields
  <2>7. SameProcesses(S, S2)
    BY <1>6, <2>6 DEF SameFields, SameProcesses, Life
  <2>8. Kin(S2)
    BY <1>5, <1>6, <2>6, KinKept DEF Sound
  <2>9. S2.task[Idle].array = NULL /\ S2.task[Idle].state = "RUNNING"
    BY <1>1, <1>6, <2>2, <2>6, <1>11 DEF Sound, SameFields
  <2>10. S2.rq.panic = "none"
    BY <1>10, <1>11, <1>13
  <2>11. Sound(S2)
    BY <2>1, <2>4, <2>5, <2>8, <2>9, <2>10 DEF Sound
  <2> QED BY <1>11, <1>12, <2>2, <2>7, <2>11 DEF Reaches, activate_task, S2, r, S1, S0, t, array
<1>14. CASE S1.rq.panic # "none"
  <2>1. Stopped(S2)
    BY <1>8, <1>10, <1>11, <1>14 DEF Refiled, Stopped
  <2> QED BY <1>11, <1>12, <2>1 DEF Reaches, activate_task, S2, r, S1, S0, t, array
<1> QED BY <1>13, <1>14

\* The kernel goes from S to S2 and takes p off the runqueue.
Leaves(S, S2, p) ==
    /\ Sound(S2)
    /\ S2.rq.curr = S.rq.curr
    /\ S2.task = [S.task EXCEPT ![p] = [@ EXCEPT !.array = NULL]]

LEMMA Deactivate ==
    ASSUME NEW S, Sound(S), NEW p \in RunnableIn(S)
    PROVE  Leaves(S, deactivate_task(S, p), p)
<1> DEFINE n == S.rq.nr_uninterruptible + uninterruptible(S.task[p])
           r == [S.rq EXCEPT !.nr_running = @ - 1, !.nr_uninterruptible = n]
           S1 == put_rq(S, r)
           S2 == dequeue_task(S1, p, S.task[p].array)
           t == [S2.task[p] EXCEPT !.array = NULL]
           S3 == put_task(S2, p, t)
<1>1. /\ KernelType(S) /\ p \in Task \ {} /\ p \in AllTask /\ Idle \in AllTask /\ p # Idle
      /\ S.task[p].array \in ArrayId /\ S.task[p].array # NULL
      /\ S.task[p] \in task_struct /\ S.task[p].prio \in Prio
      /\ S.rq \in runqueue /\ S.rq.nr_running \in Int /\ S.task \in Tasks
  BY Fields, Constants DEF Sound, Filed, RunnableIn, KernelType, runqueue
<1>2. n \in Int
  BY <1>1 DEF uninterruptible, runqueue
<1> HIDE DEF n
<1>3. /\ r \in runqueue /\ r.curr = S.rq.curr /\ r.panic = S.rq.panic
      /\ r.misfiled = S.rq.misfiled /\ r.arrays = S.rq.arrays
      /\ r.nr_running = S.rq.nr_running - 1
  <2> DEFINE m == S.rq.nr_running - 1
  <2>1. m \in Int /\ S.rq \in runqueue
    BY <1>1
  <2> HIDE DEF m
  <2>2. r = [S.rq EXCEPT !.nr_running = m, !.nr_uninterruptible = n]
    BY DEF m
  <2> HIDE DEF r
  <2>3. /\ r \in runqueue /\ r.curr = S.rq.curr /\ r.panic = S.rq.panic
        /\ r.misfiled = S.rq.misfiled /\ r.arrays = S.rq.arrays /\ r.nr_running = m
    BY <1>2, <2>1, <2>2 DEF runqueue
  <2> QED BY <2>3 DEF m
<1> DEFINE home == S.task[p].array
<1> HIDE DEF r
<1>4. KernelType(S1) /\ S1.rq = r /\ S1.task = S.task /\ Filed(S1, {})
  BY <1>1, <1>3, PutRq DEF Sound
<1> HIDE DEF S1
<1>5. /\ KernelType(S2) /\ S2.task = S.task /\ SameCounts(S1, S2)
      /\ S2.rq.panic = "none" /\ Filed(S2, {p})
  <2>1. S1.task[p].array # NULL /\ S1.rq.panic = "none" /\ {} \cup {p} = {p}
    BY <1>1, <1>3, <1>4 DEF Sound
  <2>2. S2 = dequeue_task(S1, p, home)
    OBVIOUS
  <2> HIDE DEF S2
  <2>3. home \in ArrayId
    BY <1>1
  <2> HIDE DEF home
  <2> QED BY <1>1, <1>4, <2>1, <2>2, <2>3, Dequeue
<1> HIDE DEF S2
<1>6. t \in task_struct /\ t.array = NULL /\ t.prio = S.task[p].prio
      /\ t.state = S.task[p].state /\ t.p_opptr = S.task[p].p_opptr
      /\ t = [S.task[p] EXCEPT !.array = NULL]
  BY <1>1, <1>5 DEF task_struct
<1> HIDE DEF t
<1>7. /\ KernelType(S3) /\ S3.rq = S2.rq /\ Filed(S3, {p})
      /\ \A q \in AllTask : S3.task[q] = IF q = p THEN t ELSE S.task[q]
  <2>1. /\ KernelType(S3) /\ S3.rq = S2.rq
        /\ \A q \in AllTask : S3.task[q] = IF q = p THEN t ELSE S2.task[q]
        /\ \A T : Filed(S2, T) /\ p \in T => Filed(S3, T)
    <3>1. p \in AllTask /\ KernelType(S2) /\ t \in task_struct /\ t.prio \in Prio
      BY <1>1, <1>5, <1>6
    <3> QED BY <3>1, PutTask
  <2> QED BY <1>5, <2>1
<1>8. S3.task = [S.task EXCEPT ![p] = t]
  BY <1>5 DEF put_task
<1> HIDE DEF S3
<1>9. Filed(S3, {})
  <2>1. S3.task[p].array = NULL /\ {} \cup {p} = {p}
    BY <1>1, <1>6, <1>7
  <2> QED BY <1>7, <2>1, OffOrInTransit
<1>10. RunnableIn(S3) = RunnableIn(S) \ {p}
  <2>1. \A q \in Task : S3.task[q].array # NULL <=> q # p /\ S.task[q].array # NULL
    BY <1>1, <1>6, <1>7 DEF AllTask
  <2> QED BY <2>1 DEF RunnableIn
<1>11. Cardinality(RunnableIn(S3)) = Cardinality(RunnableIn(S)) - 1
  BY <1>10, CounterAfter DEF RunnableIn
<1>12. S3.rq.nr_running = S.rq.nr_running - 1 /\ S3.rq.curr = S.rq.curr /\ S3.rq.panic = "none"
  BY <1>3, <1>4, <1>5, <1>7 DEF SameCounts
<1>13. SameFields(S, S3)
  <2>1. t.justGotForked = S.task[p].justGotForked
    BY <1>1, <1>6 DEF task_struct
  <2> QED BY <1>6, <1>7, <2>1 DEF SameFields
<1>14. Kin(S3)
  BY <1>1, <1>13, KinKept DEF Sound
<1>15. S3.task[Idle] = S.task[Idle]
  BY <1>1, <1>7
<1>16. Sound(S3)
  BY <1>9, <1>11, <1>12, <1>14, <1>15 DEF Sound
<1>17. S3.task = [S.task EXCEPT ![p] = [@ EXCEPT !.array = NULL]]
  BY <1>6, <1>8
<1> QED BY <1>12, <1>16, <1>17 DEF Leaves, deactivate_task, S3, t, S2, S1, r, n


LEMMA SetRunning ==
    ASSUME NEW S, NEW W, NEW S1, Reaches(S, S1, W), NEW p \in Task,
           ~Stopped(S1) => Life(S1.task[p]) = "alive"
    PROVE  Reaches(S, set_running(S1, p), W)
<1> DEFINE t == [S1.task[p] EXCEPT !.state = "RUNNING"]
<1>1. /\ KernelType(S1) /\ p \in AllTask /\ p # Idle
      /\ S1.task[p] \in task_struct /\ S1.task[p].prio \in Prio
  BY Fields, Constants DEF Reaches
<1>2. /\ t \in task_struct /\ t.prio = S1.task[p].prio /\ t.array = S1.task[p].array
      /\ t.p_opptr = S1.task[p].p_opptr /\ t.state = "RUNNING"
  BY <1>1 DEF task_struct, State
<1> HIDE DEF t
<1>3. CASE Stopped(S1)
  <2>1. KernelType(put_task(S1, p, t)) /\ put_task(S1, p, t).rq = S1.rq
    BY <1>1, <1>2, PutTask
  <2> QED BY <1>3, <2>1 DEF Reaches, Stopped, set_running, t
<1>4. CASE ~Stopped(S1)
  <2>1. Compatible(S1.task[p], t)
    BY <1>2, <1>4 DEF Compatible, Life
  <2>2. Reaches(S, put_task(S1, p, t), W)
    BY <1>1, <1>2, <2>1, ReachesPut
  <2> QED BY <2>2 DEF set_running, t
<1> QED BY <1>3, <1>4

\* Only a field of the runqueue changes that the invariant does not mention.
LEMMA SoundRq ==
    ASSUME NEW S, Sound(S), NEW r \in runqueue,
           r.arrays = S.rq.arrays, r.misfiled = S.rq.misfiled, r.panic = S.rq.panic,
           r.nr_running = S.rq.nr_running
    PROVE  Sound(put_rq(S, r)) /\ put_rq(S, r).task = S.task /\ put_rq(S, r).rq = r
<1>1. KernelType(S)
  BY DEF Sound, Filed
<1>2. put_rq(S, r).task = S.task /\ put_rq(S, r).rq = r /\ Filed(put_rq(S, r), {})
  BY <1>1, PutRq DEF Sound
<1> QED BY <1>2 DEF Sound, Kin, RunnableIn

\* try_to_wake_up() of a task asleep, or about to sleep, makes it runnable.
LEMMA WakeUp ==
    ASSUME NEW S, Sound(S), NEW p \in Task, NEW k \in Prio, Life(S.task[p]) = "alive"
    PROVE  Reaches(S, try_to_wake_up(S, p, k), {p})
<1>1. KernelType(S) /\ p \in AllTask
  BY Fields DEF Sound, Filed
<1>2. CASE S.task[p].array # NULL
  <2>1. Reaches(S, S, {p})
    BY <1>1, <1>2 DEF Reaches, Sound, SameProcesses
  <2>2. Reaches(S, set_running(S, p), {p})
    BY <2>1, SetRunning
  <2> QED BY <1>2, <2>2 DEF try_to_wake_up
<1>3. CASE S.task[p].array = NULL
  <2> DEFINE n == S.rq.nr_uninterruptible - uninterruptible(S.task[p])
             r == [S.rq EXCEPT !.nr_uninterruptible = n]
             S1 == put_rq(S, r)
             S2 == activate_task(S1, p, k)
             S3 == IF S2.task[p].prio < S2.task[S2.rq.curr].prio THEN set_need_resched(S2) ELSE S2
  <2>1. n \in Int /\ S.rq \in runqueue
    BY <1>1 DEF uninterruptible, KernelType, runqueue
  <2> HIDE DEF n
  <2>2. /\ r \in runqueue /\ r.curr = S.rq.curr /\ r.panic = S.rq.panic
        /\ r.misfiled = S.rq.misfiled /\ r.arrays = S.rq.arrays
        /\ r.nr_running = S.rq.nr_running
    BY <2>1 DEF runqueue
  <2> HIDE DEF r
  <2>3. Sound(S1) /\ S1.task = S.task /\ S1.rq = r
    BY <2>2, SoundRq
  <2> HIDE DEF S1
  <2>4. Reaches(S1, S2, {p})
    BY <1>3, <2>3, Activate
  <2> HIDE DEF S2
  <2>5. Reaches(S1, S3, {p})
    BY <2>4, NeedResched
  <2> HIDE DEF S3
  <2>6. Reaches(S, S3, {p})
    BY <2>2, <2>3, <2>5 DEF Reaches, SameProcesses
  <2>7. ~Stopped(S3) => Life(S3.task[p]) = "alive"
    BY <1>1, <2>6 DEF Reaches, SameProcesses
  <2>8. Reaches(S, set_running(S3, p), {p})
    BY <2>6, <2>7, SetRunning
  <2> QED BY <1>3, <2>8 DEF try_to_wake_up, S3, S2, S1, r, n
<1> QED BY <1>2, <1>3

\* A task taken off its array, changed and put back.
LEMMA Reactivate ==
    ASSUME NEW S, Sound(S), NEW p \in Task, NEW t, Compatible(S.task[p], t),
           t.prio \in Prio, NEW k \in Prio
    PROVE  Reaches(S, reactivate(S, p, t, k), {})
<1>1. KernelType(S) /\ p \in AllTask /\ p # Idle /\ Reaches(S, S, {})
  BY Fields, Constants, SoundReaches DEF Sound, Filed
<1>2. CASE S.task[p].array = NULL
  <2>1. t.array = NULL
    BY <1>2 DEF Compatible
  <2>2. Reaches(S, put_task(S, p, t), {})
    BY <1>1, <2>1, ReachesPut
  <2> QED BY <1>2, <2>2 DEF reactivate
<1>3. CASE S.task[p].array # NULL
  <2> DEFINE S1 == deactivate_task(S, p)
             u == [t EXCEPT !.array = NULL]
             S2 == put_task(S1, p, u)
             S3 == activate_task(S2, p, k)
  <2>1. Leaves(S, S1, p)
    BY <1>3, Deactivate DEF RunnableIn
  <2> HIDE DEF S1
  <2>2. /\ S1.task[p] = [S.task[p] EXCEPT !.array = NULL]
        /\ \A q \in AllTask \ {p} : S1.task[q] = S.task[q]
        /\ S.task[p] \in task_struct
        /\ Sound(S1) /\ S1.rq.curr = S.rq.curr /\ KernelType(S1)
    BY <1>1, <2>1, Fields DEF Leaves, KernelType, Tasks, Sound, Filed
  <2>3. /\ S1.task[p].array = NULL /\ S1.task[p].state = S.task[p].state
        /\ S1.task[p].p_opptr = S.task[p].p_opptr
    BY <2>2 DEF task_struct
  <2>4. /\ u \in task_struct /\ u.array = NULL /\ u.prio = t.prio
        /\ u.state = t.state /\ u.p_opptr = t.p_opptr
    <3>1. t \in task_struct
      BY DEF Compatible
    <3> QED BY <3>1 DEF task_struct
  <2> HIDE DEF u
  <2>5. Compatible(S1.task[p], u)
    BY <2>3, <2>4 DEF Compatible, Life
  <2>6. Reaches(S1, S2, {}) /\ S2.rq = S1.rq
    <3>1. Reaches(S1, S1, {}) /\ u.prio \in Prio
      BY <2>2, <2>4, SoundReaches
    <3>2. Reaches(S1, S2, {})
      BY <1>1, <2>4, <2>5, <3>1, ReachesPut
    <3>3. S2.rq = S1.rq
      BY DEF put_task
    <3> QED BY <3>2, <3>3
  <2> HIDE DEF S2
  <2>7. /\ Sound(S2) /\ SameProcesses(S1, S2) /\ S2.rq.curr = S.rq.curr
        /\ \A q \in AllTask : S2.task[q].array # NULL <=> S1.task[q].array # NULL
    <3>1. ~Stopped(S2)
      BY <2>2, <2>6 DEF Stopped, Sound
    <3> QED BY <2>2, <2>6, <3>1 DEF Reaches
  <2>8. Reaches(S2, S3, {p})
    BY <1>1, <2>3, <2>7, Activate
  <2> HIDE DEF S3
  <2>9. SameProcesses(S, S2)
    BY <2>2, <2>3, <2>7, ZenonT(40) DEF SameProcesses, Life
  <2>10. \A q \in AllTask : (S2.task[q].array # NULL \/ q \in {p}) <=> S.task[q].array # NULL
    BY <1>3, <2>2, <2>3, <2>7
  <2>11. Reaches(S, S3, {})
    BY <2>7, <2>8, <2>9, <2>10 DEF Reaches, SameProcesses
  <2> QED BY <1>3, <2>11 DEF reactivate, S3, S2, S1, u
<1> QED BY <1>2, <1>3


-----------------------------------------------------------------------------
(* The system calls.                                                       *)

\* setscheduler() from SCHED_SHORT to SCHED_SHORT.
LEMMA RenewReaches ==
    ASSUME NEW S, Sound(S), NEW p \in Task, NEW ms \in Int
    PROVE  Reaches(S, renew_short(S, p, ms), {})
<1> DEFINE t == S.task[p]
           j == CHANGE_MS_TO_JIFFIS(ms)
           slice == (t.time_slice + j - t.requestedTime) % UINT
           u == [t EXCEPT !.requestedTime = j, !.time_slice = slice]
<1>1. /\ KernelType(S) /\ p \in AllTask /\ p # Idle /\ Reaches(S, S, {})
      /\ t \in task_struct /\ t.prio \in Prio
  BY Fields, Constants, SoundReaches DEF Sound, Filed
<1>2. j \in Int
  BY JiffiesType
<1> HIDE DEF j, t
<1>3. slice \in 0 .. UINT - 1
  <2>1. t.time_slice \in Int /\ t.requestedTime \in Int
    BY <1>1 DEF task_struct
  <2> QED BY <1>2, <2>1, UnsignedRange
<1>4. renew_short(S, p, ms) = set_need_resched(put_task(S, p, u))
  BY DEF renew_short, t, j
<1> HIDE DEF slice
<1>5. Compatible(t, u) /\ u.prio = t.prio
  BY <1>1, <1>2, <1>3 DEF Compatible, Life, task_struct
<1> HIDE DEF u
<1>6. Reaches(S, put_task(S, p, u), {})
  BY <1>1, <1>5, ReachesPut DEF t
<1> QED BY <1>4, <1>6, NeedResched

\* setscheduler() from SCHED_OTHER to SCHED_SHORT.
LEMMA MakeShortReaches ==
    ASSUME NEW S, Sound(S), NEW p \in Task, NEW ms \in Int,
           NEW k \in activate_prios(as_short(S.task[p], ms))
    PROVE  Reaches(S, make_short(S, p, ms, k), {})
<1> DEFINE t == S.task[p]
           j == CHANGE_MS_TO_JIFFIS(ms)
           slice == j % UINT
           short == "SHORT"
           u == [t EXCEPT !.policy = short, !.requestedTime = j,
                          !.iWasShort = TRUE, !.time_slice = slice]
<1>1. t \in task_struct /\ t.prio \in Prio
  BY Fields DEF Sound, Filed
<1>2. j \in Int /\ short \in Policy
  BY JiffiesType DEF Policy
<1>3. slice \in 0 .. UINT - 1
  BY <1>2, UnsignedRange
<1>4. as_short(t, ms) = u
  BY DEF as_short
<1> HIDE DEF t, j, slice, short
<1>5. Compatible(t, u) /\ u.prio = t.prio
  BY <1>1, <1>2, <1>3 DEF Compatible, Life, task_struct
<1> HIDE DEF u
<1>6. k \in Prio
  BY <1>1, <1>4, <1>5, PrioTypes DEF Compatible, t
<1>7. Reaches(S, reactivate(S, p, u, k), {})
  BY <1>1, <1>5, <1>6, Reactivate DEF t
<1> QED BY <1>4, <1>7, NeedResched DEF make_short, t

\* setscheduler() between SCHED_OTHER and the real-time policies.
LEMMA NormalReaches ==
    ASSUME NEW S, Sound(S), NEW p \in Task, NEW policy \in Policy, NEW prio \in Prio,
           NEW k \in activate_prios(as_normal(S.task[p], policy, prio))
    PROVE  Reaches(S, reactivate(S, p, as_normal(S.task[p], policy, prio), k), {})
<1> DEFINE t == S.task[p]
           n == IF policy = "OTHER" THEN t.static_prio ELSE prio
           u == [t EXCEPT !.policy = policy, !.prio = n]
<1>1. t \in task_struct /\ t.static_prio \in Prio
  BY Fields DEF Sound, Filed, task_struct
<1>2. n \in Prio /\ n \in 0 .. MAX_PRIO
  BY <1>1, Constants DEF Prio
<1>3. as_normal(t, policy, prio) = u
  BY DEF as_normal
<1> HIDE DEF t, n
<1>4. Compatible(t, u) /\ u.prio = n
  BY <1>1, <1>2 DEF Compatible, Life, task_struct
<1> HIDE DEF u
<1>5. k \in Prio
  BY <1>2, <1>3, <1>4, PrioTypes DEF Compatible, t
<1> QED BY <1>2, <1>3, <1>4, <1>5, Reactivate DEF t

\* set_user_nice().
LEMMA NiceReaches ==
    ASSUME NEW S, Sound(S), NEW p \in Task, NEW static \in Prio
    PROVE  Reaches(S, set_user_nice(S, p, static), {})
<1> DEFINE t == S.task[p]
           u1 == [t EXCEPT !.static_prio = static, !.prio = static]
           u2 == [t EXCEPT !.static_prio = static]
           u3 == [t EXCEPT !.overdue_static_prio = static]
           S1 == dequeue_task(S, p, t.array)
           S2 == put_task(S1, p, u1)
           S3 == enqueue_task(S2, p, t.array)
<1>1. /\ KernelType(S) /\ p \in AllTask /\ p # Idle /\ Reaches(S, S, {})
      /\ t \in task_struct /\ t.prio \in Prio /\ t.array \in ArrayId \cup {NULL}
  BY Fields, Constants, SoundReaches DEF Sound, Filed
<1>2. static \in 0 .. MAX_PRIO
  BY Constants DEF Prio
<1> HIDE DEF t
<1>3. /\ Compatible(t, u1) /\ u1.prio = static /\ u1.p_opptr = t.p_opptr /\ u1.array = t.array
      /\ Compatible(t, u2) /\ u2.prio = t.prio
      /\ Compatible(t, u3) /\ u3.prio = t.prio
  BY <1>1, <1>2 DEF Compatible, Life, task_struct
<1> HIDE DEF u1, u2, u3
<1>4. Reaches(S, put_task(S, p, u2), {}) /\ Reaches(S, put_task(S, p, u3), {})
  BY <1>1, <1>3, ReachesPut DEF t
<1>5. ASSUME t.array = NULL PROVE Reaches(S, put_task(S, p, u1), {})
  BY <1>1, <1>3, <1>5, ReachesPut DEF t
<1>6. ASSUME t.array # NULL PROVE Reaches(S, S3, {})
  <2> DEFINE array == t.array
  <2>1. p \in RunnableIn(S) /\ array \in ArrayId
    BY <1>1, <1>6 DEF RunnableIn, t
  <2>2. InTransit(S, S1, p) /\ S1.task[p] = t
    BY <2>1, DequeueTransit DEF t
  <2> HIDE DEF S1
  <2>3. InTransit(S, S2, p)
    BY <1>3, <2>2, PutTransit DEF Compatible
  <2> HIDE DEF S2, array
  <2>4. Reaches(S, enqueue_task(S2, p, array), {})
    BY <2>1, <2>3, EnqueueTransit
  <2> QED BY <2>4 DEF array
<1> HIDE DEF S3
<1>7. t.array # NULL => Reaches(S, set_need_resched(S3), {})
  BY <1>6, NeedResched
<1>8. set_user_nice(S, p, static) =
        IF t.static_prio = static THEN S
        ELSE IF rt_task(t) THEN put_task(S, p, u2)
        ELSE IF overdue_task(t) THEN put_task(S, p, u3)
        ELSE IF t.array = NULL THEN put_task(S, p, u1)
        ELSE IF p = S.rq.curr THEN set_need_resched(S3) ELSE S3
  BY DEF set_user_nice, t, u1, u2, u3, S1, S2, S3
<1> QED BY <1>1, <1>4, <1>5, <1>6, <1>7, <1>8

\* sched_exit().
LEMMA ExitReaches ==
    ASSUME NEW S, Sound(S), NEW p \in Task, S.rq.curr # Idle
    PROVE  Reaches(S, sched_exit(S, p), {})
<1> DEFINE c == S.rq.curr
           t == S.task[c]
           sum == (t.time_slice + S.task[p].time_slice) % UINT
           slice == IF sum > MAX_TIMESLICE THEN MAX_TIMESLICE ELSE sum
           u == [t EXCEPT !.time_slice = slice]
<1>1. /\ KernelType(S) /\ p \in AllTask /\ c \in AllTask /\ c # Idle /\ Reaches(S, S, {})
      /\ t \in task_struct /\ S.task[p] \in task_struct /\ (c \in Task => t.prio \in Prio)
  BY Fields, SoundReaches DEF Sound, Filed
<1>2. sum \in 0 .. UINT - 1
  BY <1>1, UnsignedRange DEF task_struct
<1>3. slice \in 0 .. UINT - 1
  <2> HIDE DEF sum
  <2> QED BY <1>2, Constants
<1>4. sched_exit(S, p) = IF ~S.task[p].first_time_slice THEN S ELSE put_task(S, c, u)
  BY DEF sched_exit
<1> HIDE DEF slice, t, c
<1>5. Compatible(t, u) /\ u.prio = t.prio
  BY <1>1, <1>3 DEF Compatible, Life, task_struct
<1> HIDE DEF u
<1>6. Reaches(S, put_task(S, c, u), {})
  BY <1>1, <1>5, ReachesPut DEF t
<1> QED BY <1>1, <1>4, <1>6


LEMMA HalfSlices ==
    ASSUME NEW n \in 0 .. UINT - 1
    PROVE  /\ n \div 2 \in 0 .. UINT - 1
           /\ ((n + 1) % UINT) \div 2 \in 0 .. UINT - 1
           /\ (n \div 2) + (n % 2) \in 0 .. UINT - 1
<1>1. UINT \in Int /\ n \in Int /\ 0 <= n /\ n <= UINT - 1
  BY Constants
<1>2. \A x \in 0 .. UINT - 1 : x \div 2 \in 0 .. UINT - 1
  BY <1>1
<1>3. (n + 1) % UINT \in 0 .. UINT - 1
  BY <1>1, UnsignedRange
<1>4. (n \div 2) + (n % 2) \in 0 .. UINT - 1
  BY <1>1
<1> QED BY <1>2, <1>3, <1>4

\* The section of do_fork() with interrupts disabled, by the current task.
LEMMA SplitReaches ==
    ASSUME NEW S, Sound(S), NEW p \in RunnableIn(S), S.rq.curr = p,
           NEW c \in Task \ {p}, S.task[c].array = NULL,
           NEW b \in Bonuses, NEW toExpired \in BOOLEAN
    PROVE  Reaches(S, fork_split(S, p, c, b, toExpired), {})
<1> DEFINE t == S.task[p]
           u == child_slice(t, S.task[c])
           v == parent_slice(t)
           S0 == put_task(S, c, u)
           S1 == put_task(S0, p, v)
           w == [S1.task[p] EXCEPT !.justGotForked = FALSE, !.time_slice = 1]
           S2 == put_task(S1, p, w)
           r == [S.rq EXCEPT !.panic = "BUG"]
<1>1. /\ KernelType(S) /\ p \in Task /\ p \in AllTask /\ p # Idle
      /\ c \in AllTask /\ c # Idle /\ Reaches(S, S, {})
      /\ t \in task_struct /\ t.prio \in Prio /\ t.time_slice \in 0 .. UINT - 1
      /\ S.task[c] \in task_struct /\ S.task[c].prio \in Prio
  BY Fields, Constants, SoundReaches DEF Sound, Filed, RunnableIn, task_struct
<1> HIDE DEF t
<1>2. /\ t.time_slice \div 2 \in 0 .. UINT - 1
      /\ ((t.time_slice + 1) % UINT) \div 2 \in 0 .. UINT - 1
      /\ (t.time_slice \div 2) + (t.time_slice % 2) \in 0 .. UINT - 1
  BY <1>1, HalfSlices
<1>3. Compatible(S.task[c], u) /\ u.prio = S.task[c].prio
  <2> DEFINE short == "SHORT"
             half == ((t.time_slice + 1) % UINT) \div 2
             rest == (t.time_slice \div 2) + (t.time_slice % 2)
             uc == S.task[c]
  <2>1. short \in Policy /\ half \in 0 .. UINT - 1 /\ rest \in 0 .. UINT - 1
        /\ uc \in task_struct
    BY <1>1, <1>2 DEF Policy
  <2>2. u = IF t.policy # "SHORT" THEN [uc EXCEPT !.time_slice = half, !.first_time_slice = TRUE]
            ELSE IF short_task(t)
            THEN [uc EXCEPT !.policy = short, !.time_slice = rest, !.first_time_slice = TRUE]
            ELSE [uc EXCEPT !.policy = short, !.first_time_slice = TRUE]
    BY DEF child_slice
  <2> HIDE DEF short, half, rest, uc, u
  <2>3. LET u1 == [uc EXCEPT !.time_slice = half, !.first_time_slice = TRUE]
            u2 == [uc EXCEPT !.policy = short, !.time_slice = rest, !.first_time_slice = TRUE]
            u3 == [uc EXCEPT !.policy = short, !.first_time_slice = TRUE]
        IN  /\ Compatible(uc, u1) /\ u1.prio = uc.prio
            /\ Compatible(uc, u2) /\ u2.prio = uc.prio
            /\ Compatible(uc, u3) /\ u3.prio = uc.prio
    BY <2>1 DEF Compatible, Life, task_struct
  <2> QED BY <2>2, <2>3 DEF uc
<1> HIDE DEF u
<1>4. Compatible(t, v) /\ v.prio = t.prio
  <2> DEFINE half == t.time_slice \div 2
             mark == IF short_task(t) THEN TRUE ELSE t.justGotForked
  <2>1. half \in 0 .. UINT - 1 /\ mark \in BOOLEAN
    BY <1>1, <1>2 DEF task_struct
  <2>2. v = IF overdue_task(t) THEN t ELSE [t EXCEPT !.time_slice = half, !.justGotForked = mark]
    BY DEF parent_slice
  <2> HIDE DEF half, mark, v
  <2>3. LET v1 == [t EXCEPT !.time_slice = half, !.justGotForked = mark]
        IN  Compatible(t, v1) /\ v1.prio = t.prio /\ Compatible(t, t)
    BY <1>1, <2>1 DEF Compatible, Life, task_struct
  <2> QED BY <2>2, <2>3
<1> HIDE DEF v
<1>5. /\ Reaches(S, S0, {}) /\ S0.rq = S.rq /\ KernelType(S0)
      /\ \A q \in AllTask : S0.task[q] = IF q = c THEN u ELSE S.task[q]
  <2>1. Reaches(S, S0, {})
    BY <1>1, <1>3, ReachesPut
  <2> QED BY <1>1, <1>3, <2>1, PutTask DEF Compatible
<1> HIDE DEF S0
<1>6. S0.task[p] = t
  BY <1>1, <1>5 DEF t
<1>7. /\ Reaches(S, S1, {}) /\ S1.rq = S0.rq /\ KernelType(S1) /\ S1.task[p] = v
  <2>1. Reaches(S, S1, {})
    BY <1>1, <1>4, <1>5, <1>6, ReachesPut
  <2>2. p \in AllTask /\ v \in task_struct /\ v.prio \in Prio /\ KernelType(S0)
    BY <1>1, <1>4, <1>5 DEF Compatible
  <2>3. KernelType(S1) /\ S1.rq = S0.rq /\ S1.task[p] = v
    BY <2>2, PutTask
  <2> QED BY <2>1, <2>3
<1> HIDE DEF S1
<1>8. Compatible(S1.task[p], w) /\ w.prio = S1.task[p].prio /\ w.prio \in Prio
  <2>1. v \in task_struct /\ 1 \in 0 .. UINT - 1
    BY <1>4, SchedAssumption DEF Compatible
  <2>2. v.prio \in Prio
    BY <1>1, <1>4
  <2> QED BY <1>7, <2>1, <2>2 DEF Compatible, Life, task_struct
<1> HIDE DEF w
<1>9. Reaches(S, S2, {}) /\ S2.rq = S1.rq /\ S2.task[p].array # NULL
  <2>1. Reaches(S, S2, {})
    BY <1>1, <1>7, <1>8, ReachesPut
  <2>2. S2.rq = S1.rq
    BY <1>1, <1>7, <1>8, PutTask DEF Compatible
  <2>3. S2.rq.panic = "none"
    BY <1>5, <1>7, <2>2 DEF Sound
  <2> QED BY <1>1, <2>1, <2>2, <2>3 DEF Reaches, Stopped, RunnableIn
<1> HIDE DEF S2
<1>10. Sound(S2) /\ S2.rq.curr = p /\ p \in RunnableIn(S2)
  BY <1>1, <1>5, <1>7, <1>9 DEF Reaches, Stopped, Sound, RunnableIn
<1>11. Reaches(S2, scheduler_tick(S2, b, toExpired), {})
  BY <1>10, TickReaches
<1>12. Reaches(S, scheduler_tick(S2, b, toExpired), {})
  BY <1>9, <1>10, <1>11, ReachesTrans
<1>13. Reaches(S, put_rq(S, r), {})
  <2>1. S.rq \in runqueue
    BY <1>1 DEF KernelType
  <2>2. r \in runqueue /\ r.panic = "BUG" /\ r.curr = S.rq.curr
    BY <2>1 DEF runqueue
  <2> HIDE DEF r
  <2>3. KernelType(put_rq(S, r)) /\ put_rq(S, r).rq = r
    BY <1>1, <2>2, PutRq
  <2> QED BY <2>2, <2>3 DEF Reaches, Stopped
<1>14. fork_split(S, p, c, b, toExpired) =
         IF t.time_slice = 0 THEN put_rq(S, r)
         ELSE IF S1.task[p].time_slice # 0 THEN S1
         ELSE scheduler_tick(S2, b, toExpired)
  BY DEF fork_split, t, u, v, w, S0, S1, S2
<1> QED BY <1>7, <1>12, <1>13, <1>14

\* The task_struct of the child c of a do_fork() once its links are set.
parent_of(S, p, clone_parent) == IF clone_parent THEN S.task[p].p_opptr ELSE p
linked(S, c, parent) == [S.task[c] EXCEPT !.p_opptr = parent, !.state = "RUNNING"]

\* From the links to the parent to the end of do_fork(): S0 is S with the
\* child linked to its parent.
LEMMA ForkWakes ==
    ASSUME NEW S, Sound(S), NEW p \in Task, NEW c \in Task \ {p}, S.task[c].array = NULL,
           NEW clone_parent, NEW k \in forked_prios(S.task[c]),
           Life(S.task[c]) = "alive",
           NEW parent \in AllTask,
           parent = parent_of(S, p, clone_parent),
           parent # c, parent \in Task => S.task[parent].p_opptr # c,
           \A q \in Task : S.task[q].p_opptr # c
    PROVE  LET u  == linked(S, c, parent)
               S0 == put_task(S, c, u)
           IN  /\ Sound(S0) /\ S0.rq = S.rq
               /\ \A q \in AllTask : S0.task[q] = IF q = c THEN u ELSE S.task[q]
               /\ u.p_opptr = parent /\ u.array = NULL /\ Life(u) = "alive"
               /\ Reaches(S0, fork_wake(S, p, c, clone_parent, k), {c})
<1> DEFINE u  == linked(S, c, parent)
           S0 == put_task(S, c, u)
           S2 == activate_task(S0, c, k)
<1>1. /\ KernelType(S) /\ c \in AllTask /\ Idle \in AllTask /\ c # Idle
      /\ S.task[c] \in task_struct /\ S.task[c].prio \in Prio
  BY Fields, Constants DEF Sound, Filed
<1>2. /\ u \in task_struct /\ u.prio = S.task[c].prio /\ u.array = NULL
      /\ u.p_opptr = parent /\ u.state = "RUNNING"
  BY <1>1 DEF linked, task_struct, State
<1> HIDE DEF u
<1>3. /\ S0.rq = S.rq /\ KernelType(S0)
      /\ \A q \in AllTask : S0.task[q] = IF q = c THEN u ELSE S.task[q]
      /\ Filed(S, {c}) => Filed(S0, {c})
  <2>1. c \in AllTask /\ u \in task_struct /\ u.prio \in Prio /\ KernelType(S)
    BY <1>1, <1>2
  <2>2. c \notin Task \ {c}
    OBVIOUS
  <2> QED BY <2>1, <2>2, PutTask
<1> HIDE DEF S0
<1>4. Filed(S0, {})
  <2>1. {} \cup {c} = {c} /\ S0.task[c].array = NULL
    BY <1>1, <1>2, <1>3
  <2>2. Filed(S, {c})
    BY <2>1, OffOrInTransit DEF Sound
  <2> QED BY <1>3, <2>1, <2>2, OffOrInTransit
<1>5. RunnableIn(S0) = RunnableIn(S)
  BY <1>1, <1>2, <1>3 DEF RunnableIn, AllTask
<1>6. Kin(S0)
  <2> SUFFICES ASSUME NEW q \in Task
               PROVE  LET r == S0.task[q].p_opptr
                      IN  r # q /\ (r \in Task => S0.task[r].p_opptr # q)
    BY <1>1, <1>3 DEF Sound, Kin
  <2>1. CASE q = c
    BY <1>1, <1>2, <1>3, <2>1 DEF AllTask
  <2>2. CASE q # c
    <3>1. S0.task[q].p_opptr = S.task[q].p_opptr /\ S.task[q].p_opptr # c
      BY <1>3, <2>2 DEF AllTask
    <3> QED BY <1>3, <2>2, <3>1 DEF AllTask, Sound, Kin
  <2> QED BY <2>1, <2>2
<1>7. Sound(S0)
  BY <1>1, <1>3, <1>4, <1>5, <1>6 DEF Sound
<1>8. k \in Prio
  BY <1>1, PrioTypes
<1>9. Reaches(S0, S2, {c})
  BY <1>1, <1>2, <1>3, <1>7, <1>8, Activate
<1>10. Reaches(S0, set_need_resched(S2), {c})
  BY <1>9, NeedResched
<1>11. fork_wake(S, p, c, clone_parent, k) =
         IF overdue_task(S2.task[p]) THEN S2 ELSE set_need_resched(S2)
  BY DEF fork_wake, S0, u, linked, parent_of
<1>12. Reaches(S0, fork_wake(S, p, c, clone_parent, k), {c}) /\ Life(u) = "alive"
  BY <1>2, <1>9, <1>10, <1>11 DEF Life
<1> QED BY <1>2, <1>3, <1>7, <1>12 DEF S0, u


\* The arrays while p is unlinked from its list.
Unlinked(S, p) == unlink(S.rq.arrays, S.task[p].array, S.task[p].prio, p)

\* yield_to() may set the bitmap and list k of the array of p to bitmap and q2.
MayRelink(S, p, k, bitmap, q2) ==
    LET home == S.task[p].array
        left == IF Unlinked(S, p)[home].queue[S.task[p].prio] = << >>
                THEN S.rq.arrays[home].bitmap \ {S.task[p].prio} ELSE S.rq.arrays[home].bitmap
    IN  /\ LinkedOn(q2, Unlinked(S, p)[home].queue[k], p)
        /\ ~S.rq.misfiled => bitmap = left \cup {k}

\* What yield_to() does once it knows the new contents q2 of list k.
LEMMA Relink ==
    ASSUME NEW S, Sound(S), NEW p \in RunnableIn(S), NEW k \in Prio, NEW bitmap \in SUBSET Prio,
           NEW q2, MayRelink(S, p, k, bitmap, q2)
    PROVE  Reaches(S, put_rq(put_task(S, p, [S.task[p] EXCEPT !.prio = k]),
                      [S.rq EXCEPT !.arrays = array_relink(Unlinked(S, p), S.task[p].array,
                                                           k, bitmap, q2)]), {})
<1> DEFINE t == S.task[p]
           home == t.array
           k0 == t.prio
           arrays0 == S.rq.arrays
           arrays2 == array_relink(Unlinked(S, p), home, k, bitmap, q2)
           u == [t EXCEPT !.prio = k]
           r == [S.rq EXCEPT !.arrays = arrays2]
           S1 == put_task(S, p, u)
           S2 == put_rq(S1, r)
           on == OnBut(S, {})
           at == At(S)
           at2 == At(S2)
<1>1. /\ KernelType(S) /\ p \in Task /\ p \in AllTask /\ p # Idle /\ Idle \in AllTask
      /\ t \in task_struct /\ k0 \in Prio /\ home \in ArrayId
      /\ ArraysType(arrays0) /\ S.rq \in runqueue
  BY Fields, Constants DEF Sound, Filed, RunnableIn, KernelType
<1>2. on[p] = home /\ at[p] = k0
  BY <1>1 DEF OnBut, At
<1>3. /\ ListsExact(on, at, arrays0)
      /\ ~S.rq.misfiled => BitmapsExact(arrays0) /\ CountersExact(on, arrays0)
  BY DEF Sound, Filed
<1>4. k \in 0 .. MAX_PRIO
  BY Constants DEF Prio
<1> HIDE DEF home
<1>5. /\ u \in task_struct /\ u.prio = k /\ u.array = S.task[p].array /\ u.state = t.state
      /\ u.p_opptr = t.p_opptr /\ u.justGotForked = t.justGotForked
  BY <1>1, <1>4 DEF task_struct
<1> HIDE DEF u, r, t
<1>6. /\ KernelType(S1) /\ S1.rq = S.rq
      /\ \A q \in AllTask : S1.task[q] = IF q = p THEN u ELSE S.task[q]
  <2>1. p \in AllTask /\ KernelType(S) /\ u \in task_struct /\ u.prio \in Prio
    BY <1>1, <1>5
  <2> QED BY <2>1, PutTask
<1> HIDE DEF S1
<1>7. S2.task = S1.task
  BY DEF put_rq
<1> HIDE DEF S2
<1>8. at2[p] = k /\ \A q \in Task \ {p} : at2[q] = at[q]
  BY <1>1, <1>5, <1>6, <1>7 DEF At, AllTask
<1>9. OnBut(S2, {}) = on
  BY <1>1, <1>5, <1>6, <1>7 DEF OnBut, AllTask, home, t
<1>10. /\ ArraysType(arrays2) /\ ListsExact(on, at2, arrays2)
       /\ ~S.rq.misfiled => BitmapsExact(arrays2) /\ CountersExact(on, arrays2)
  <2> DEFINE a0 == arrays0
             b0 == at
             b2 == at2
             o == on
             a1 == unlink(a0, o[p], b0[p], p)
             left == IF a1[o[p]].queue[b0[p]] = << >> THEN a0[o[p]].bitmap \ {b0[p]}
                     ELSE a0[o[p]].bitmap
  <2>0. Unlinked(S, p) = a1 /\ o[p] = home /\ b0[p] = k0
    BY <1>2 DEF Unlinked, home, t
  <2>1. /\ arrays2 = array_relink(a1, o[p], k, bitmap, q2)
        /\ LinkedOn(q2, a1[o[p]].queue[k], p)
        /\ o[p] \in ArrayId /\ b0[p] \in Prio
    BY <1>1, <2>0 DEF MayRelink, home, t
  <2>2. ~S.rq.misfiled => bitmap = left \cup {k}
    BY <2>0 DEF MayRelink, home, t
  <2>3. ArraysType(a0) /\ ListsExact(o, b0, a0)
        /\ (~S.rq.misfiled => BitmapsExact(a0) /\ CountersExact(o, a0))
    BY <1>1, <1>3
  <2>4. b2[p] = k /\ \A q \in Task \ {p} : b2[q] = b0[q]
    BY <1>8
  <2> HIDE DEF a0, b0, b2, o, arrays2
  <2>5. /\ ArraysType(arrays2) /\ ListsExact(o, b2, arrays2)
        /\ ~S.rq.misfiled => BitmapsExact(arrays2) /\ CountersExact(o, arrays2)
    <3>1. LET a2 == array_relink(a1, o[p], k, bitmap, q2)
          IN  /\ ArraysType(a2) /\ ListsExact(o, b2, a2)
              /\ BitmapsExact(a0) /\ CountersExact(o, a0) /\ bitmap = left \cup {k}
                   => BitmapsExact(a2) /\ CountersExact(o, a2)
      BY <1>1, <2>1, <2>3, <2>4, RelinkExact
    <3> HIDE DEF left, a1
    <3> QED BY <2>1, <2>2, <2>3, <3>1
  <2> QED BY <2>5 DEF o, b2
<1> HIDE DEF arrays2
<1>11. /\ r \in runqueue /\ r.curr = S.rq.curr /\ r.panic = S.rq.panic
       /\ r.misfiled = S.rq.misfiled /\ r.arrays = arrays2 /\ r.nr_running = S.rq.nr_running
  BY <1>1, <1>10 DEF r, runqueue, ArraysType
<1>12. KernelType(S2) /\ S2.rq = r
  BY <1>6, <1>11, PutRq DEF S2
<1>13. Filed(S2, {})
  BY <1>9, <1>10, <1>11, <1>12 DEF Filed
<1>14. SameFields(S, S2) /\ \A q \in AllTask : S2.task[q].array = S.task[q].array
  BY <1>1, <1>5, <1>6, <1>7 DEF SameFields, t
<1>15. Kin(S2)
  BY <1>1, <1>14, KinKept DEF Sound
<1>16. RunnableIn(S2) = RunnableIn(S)
  BY <1>14 DEF RunnableIn, AllTask
<1>17. Sound(S2)
  BY <1>1, <1>11, <1>12, <1>13, <1>14, <1>15, <1>16 DEF Sound, SameFields
<1>18. Reaches(S, S2, {})
  BY <1>11, <1>12, <1>14, <1>17 DEF Reaches, SameFields, SameProcesses, Life
<1> QED BY <1>18 DEF S2, S1, u, r, arrays2, home, t

\* The lists p can be linked on after it was unlinked.
LEMMA YieldLists ==
    ASSUME NEW S, Sound(S), NEW p \in RunnableIn(S), NEW k \in Prio
    PROVE  LET t == S.task[p]
               q == S.rq.arrays[t.array].queue[t.prio]
               q1 == unlink(S.rq.arrays, t.array, t.prio, p)[t.array].queue[k]
           IN  /\ q1 = IF k = t.prio THEN list_del(q, p) ELSE S.rq.arrays[t.array].queue[k]
               /\ LinkedOn(list_add_tail(q1, p), q1, p)
               /\ LinkedOn(list_add_second(q1, p), q1, p)
               /\ S.rq.arrays[t.array].bitmap \in SUBSET Prio
               /\ ~S.rq.misfiled => t.prio \in S.rq.arrays[t.array].bitmap
<1> DEFINE t == S.task[p]
           home == t.array
           k0 == t.prio
           arrays0 == S.rq.arrays
           q == arrays0[home].queue[k0]
           q1 == unlink(arrays0, home, k0, p)[home].queue[k]
           on == OnBut(S, {})
           at == At(S)
<1>1. p \in Task /\ k0 \in Prio /\ home \in ArrayId /\ ArraysType(arrays0)
  BY Fields DEF Sound, Filed, RunnableIn
<1>2. on[p] = home /\ at[p] = k0 /\ ListsExact(on, at, arrays0)
  BY <1>1 DEF OnBut, At, Sound, Filed
<1>3. /\ arrays0[home] \in prio_array /\ arrays0[home].queue \in [Prio -> Seq(Task)]
      /\ arrays0 \in [ArrayId -> prio_array] /\ arrays0[home].bitmap \in SUBSET Prio
  BY <1>1 DEF ArraysType, prio_array
<1> HIDE DEF arrays0, home, k0, on, at
<1>4. q1 = IF k = k0 THEN list_del(q, p) ELSE arrays0[home].queue[k]
  BY <1>1, <1>3 DEF unlink, prio_array
<1>5. IsInjective(q) /\ InList(q, p) /\ q \in Seq(Task)
  BY <1>1, <1>2, <1>3 DEF ListsExact
<1>6. q1 \in Seq(Task) /\ IsInjective(q1) /\ ~InList(q1, p)
  <2>1. CASE k = k0
    BY <1>1, <1>4, <1>5, <2>1, ListDelUnlinks
  <2>2. CASE k # k0
    <3>1. q1 = arrays0[home].queue[k]
      BY <1>4, <2>2
    <3> QED BY <1>1, <1>2, <1>3, <2>2, <3>1 DEF ListsExact
  <2> QED BY <2>1, <2>2
<1> HIDE DEF q1, q
<1>7. LinkedOn(list_add_tail(q1, p), q1, p) /\ LinkedOn(list_add_second(q1, p), q1, p)
  BY <1>1, <1>6, ListAddLinks
<1>8. ~S.rq.misfiled => k0 \in arrays0[home].bitmap
  <2>1. q # << >>
    BY <1>5, EmptySeq DEF InList
  <2> QED BY <1>1, <2>1 DEF Sound, Filed, BitmapsExact, arrays0, q
<1> QED BY <1>3, <1>4, <1>7, <1>8 DEF q1, q, arrays0, home, k0


\* sys_sched_yield() up to its call of schedule().
LEMMA YieldReaches ==
    ASSUME NEW S, Sound(S), NEW p \in RunnableIn(S)
    PROVE  Reaches(S, yield(S, p), {})
<1> DEFINE t == S.task[p]
           home == t.array
           k0 == t.prio
           bitmap == S.rq.arrays[home].bitmap
           q == S.rq.arrays[home].queue[k0]
           list(k) == Unlinked(S, p)[home].queue[k]
           moved(k, bits, q2) ==
               put_rq(put_task(S, p, [S.task[p] EXCEPT !.prio = k]),
                      [S.rq EXCEPT !.arrays = array_relink(Unlinked(S, p), S.task[p].array,
                                                           k, bits, q2)])
           k1 == yield_level(bitmap, k0)
           bitmap1 == (bitmap \ {k0}) \cup {k1}
           tail == list_add_tail(list(k0), p)
           second == list_add_second(list(k0), p)
           other == list_add_second(list(k1), p)
           alone == list_del(q, p) = << >>
<1>1. k0 \in Prio /\ bitmap \in SUBSET Prio
  <2>1. k0 \in Prio
    BY Fields DEF RunnableIn, Sound, Filed
  <2> QED BY <2>1, YieldLists
<1>2. k1 \in Prio /\ bitmap1 \in SUBSET Prio
  <2>1. bitmap \ {k0} \in SUBSET Prio
    BY <1>1
  <2>2. k1 \in Prio
    <3> DEFINE rest == bitmap \ {k0}
               i == sched_find_first_bit(rest)
    <3>1. k1 = IF i = MAX_PRIO \/ i <= k0 THEN k0 ELSE i
      BY DEF yield_level
    <3>2. rest # {} => i \in rest
      BY <2>1, FirstBit
    <3>3. rest = {} => i = MAX_PRIO
      BY <2>1, FirstBit
    <3> HIDE DEF i, k1
    <3> QED BY <1>1, <3>1, <3>2, <3>3
  <2> QED BY <2>1, <2>2
<1>3. /\ list(k0) = list_del(q, p)
      /\ LinkedOn(tail, list(k0), p) /\ LinkedOn(second, list(k0), p)
      /\ ~S.rq.misfiled => k0 \in bitmap
  BY <1>1, YieldLists, ZenonT(40) DEF Unlinked
<1>4. LinkedOn(other, list(k1), p)
  BY <1>2, YieldLists DEF Unlinked
<1>5. yield(S, p) = IF rt_task(t) THEN moved(k0, bitmap, tail)
                    ELSE IF ~alone THEN moved(k0, bitmap, second)
                    ELSE moved(k1, bitmap1, other)
  BY DEF yield, yield_to, Unlinked
<1>10. \A k, bits, q2 :
         MayRelink(S, p, k, bits, q2) <=>
           /\ LinkedOn(q2, list(k), p)
           /\ ~S.rq.misfiled =>
                bits = (IF list(k0) = << >> THEN bitmap \ {k0} ELSE bitmap) \cup {k}
  BY DEF MayRelink
<1> HIDE DEF k0, bitmap, k1, bitmap1, tail, second, other, q, t, list
<1>6. MayRelink(S, p, k0, bitmap, tail) /\ MayRelink(S, p, k0, bitmap, second)
  <2>1. k0 \in bitmap => bitmap \cup {k0} = bitmap /\ (bitmap \ {k0}) \cup {k0} = bitmap
    OBVIOUS
  <2> QED BY <1>3, <1>10, <2>1
<1>7. ASSUME alone PROVE MayRelink(S, p, k1, bitmap1, other)
  BY <1>3, <1>4, <1>7, <1>10 DEF bitmap1
<1>8. Reaches(S, moved(k0, bitmap, tail), {}) /\ Reaches(S, moved(k0, bitmap, second), {})
  BY <1>1, <1>6, Relink
<1>9. alone => Reaches(S, moved(k1, bitmap1, other), {})
  BY <1>2, <1>7, Relink
<1> HIDE DEF alone, moved
<1> QED BY <1>5, <1>8, <1>9

-----------------------------------------------------------------------------
(* schedule().                                                             *)

\* The task pick_next() gives the CPU to is runnable, and there is one unless
\* a bitmap or counter is wrong.
LEMMA PickList ==
    ASSUME NEW S, Sound(S)
    PROVE  /\ pick_list(S) # << >> => Head(pick_list(S)) \in RunnableIn(S)
           /\ S.rq.nr_running # 0 /\ ~S.rq.misfiled => pick_list(S) # << >>
<1> DEFINE a == pick_array(S)
           bitmap == S.rq.arrays[a].bitmap
           idx == sched_find_first_bit(bitmap)
           q == S.rq.arrays[a].queue[idx]
           on == OnBut(S, {})
           at == At(S)
<1>1. KernelType(S) /\ ListsExact(on, at, S.rq.arrays) /\ ArraysType(S.rq.arrays)
  BY Fields DEF Sound, Filed
<1>2. a \in ArrayId /\ S.rq.active \in ArrayId
  BY <1>1, ArrayChoice, Nulls DEF pick_array, KernelType, runqueue
<1>3. bitmap \in SUBSET Prio
  BY <1>1, <1>2 DEF ArraysType, prio_array
<1>4. pick_list(S) = IF idx \in Prio THEN q ELSE << >>
  BY DEF pick_list
<1>5. ASSUME pick_list(S) # << >>
      PROVE  Head(pick_list(S)) \in RunnableIn(S)
  <2> HIDE DEF a, idx, on, at
  <2>1. idx \in Prio /\ q \in Seq(Task) /\ q # << >> /\ pick_list(S) = q
    BY <1>1, <1>2, <1>4, <1>5, Fields
  <2> DEFINE h == q[1]
  <2>2. h \in Task /\ InList(q, h) /\ Head(q) = h
    BY <2>1, LenProperties, EmptySeq, HeadTailProperties DEF InList
  <2>3. on[h] = a
    <3>1. InList(S.rq.arrays[a].queue[idx], h) /\ h \in Task
      BY <2>2
    <3> HIDE DEF h
    <3> QED BY <1>1, <1>2, <2>1, <3>1 DEF ListsExact
  <2>4. S.task[h].array = a
    BY <2>2, <2>3 DEF on, OnBut
  <2> QED BY <1>2, <2>1, <2>2, <2>4, Nulls DEF RunnableIn
<1>6. ASSUME S.rq.nr_running # 0, ~S.rq.misfiled
      PROVE  pick_list(S) # << >>
  <2>1. BitmapsExact(S.rq.arrays) /\ CountersExact(on, S.rq.arrays)
    BY <1>6 DEF Sound, Filed
  <2>2. \A b \in ArrayId : S.rq.arrays[b].nr_active # 0 <=> OnArray(on, b) # {}
    <3> SUFFICES ASSUME NEW b \in ArrayId
                 PROVE  S.rq.arrays[b].nr_active # 0 <=> OnArray(on, b) # {}
      OBVIOUS
    <3>1. IsFiniteSet(OnArray(on, b))
      BY TaskAssumption, FS_Subset DEF OnArray
    <3>2. S.rq.arrays[b].nr_active = Cardinality(OnArray(on, b))
      BY <2>1 DEF CountersExact
    <3> QED BY <3>1, <3>2, FS_EmptySet
  <2>3. RunnableIn(S) # {}
    <3>1. S.rq.nr_running = Cardinality(RunnableIn(S))
      BY DEF Sound
    <3> QED BY <1>6, <3>1, FS_EmptySet
  <2>4. PICK p \in Task : S.task[p].array # NULL
    BY <2>3 DEF RunnableIn
  <2>5. on[p] \in ArrayId /\ OnArray(on, on[p]) # {}
    BY <1>1, <2>4, Fields DEF OnArray, OnBut
  <2>6. OnArray(on, a) # {}
    <3>1. ArrayId = {"rt_short", S.rq.active, expired(S), "overdue"}
      BY <1>1 DEF KernelType, runqueue, ArrayId, expired
    <3> HIDE DEF on
    <3> QED BY <1>2, <2>2, <2>5, <3>1 DEF pick_array
  <2>7. PICK r \in Task : on[r] = a
    BY <2>6 DEF OnArray
  <2>8. S.task[r].prio \in Prio /\ at[r] = S.task[r].prio
    BY <1>1, Fields DEF At
  <2> HIDE DEF a, on, at, idx
  <2>9. InList(S.rq.arrays[a].queue[at[r]], r)
    BY <1>1, <1>2, <2>7, <2>8 DEF ListsExact
  <2>10. S.rq.arrays[a].queue[at[r]] # << >>
    BY <2>9, EmptySeq DEF InList
  <2>11. at[r] \in bitmap
    BY <1>2, <2>1, <2>8, <2>10 DEF BitmapsExact
  <2>12. idx \in bitmap
    BY <1>3, <2>11, FirstBit DEF idx
  <2>13. q # << >>
    BY <1>2, <1>3, <2>1, <2>12 DEF BitmapsExact
  <2> QED BY <1>3, <1>4, <2>12, <2>13
<1> QED BY <1>5, <1>6

-----------------------------------------------------------------------------
(* The inductive invariant.                                                *)

Alive(S, p) == Life(S.task[p]) = "alive"

\* ch[r] is the task r is building in do_fork().
Built(ch, p) == \E r \in Task : ch[r] = p

\* What keeps enqueue_task() and the reuse of task_structs safe: who is whose
\* parent, who can be runnable, and what a task in do_fork() builds.
Family(S, ch) ==
    /\ \A p \in Task :
         /\ ch[p] \in Task => /\ S.task[ch[p]].array = NULL /\ Alive(S, ch[p])
                              /\ \A r \in Task : ch[r] = ch[p] => r = p
         /\ S.task[p].p_opptr \in Task => /\ Alive(S, S.task[p].p_opptr)
                                          /\ ~Built(ch, S.task[p].p_opptr)
         /\ S.task[p].state = "UNUSED" => S.task[p].array = NULL /\ S.task[p].p_opptr = Idle
         /\ S.task[p].state = "ZOMBIE" /\ p # S.rq.curr => S.task[p].array = NULL
    /\ Alive(S, Reaper) /\ S.task[Reaper].p_opptr = Idle /\ ~Built(ch, Reaper)

InFork(step) == step \in {"fork_copied", "fork_split"}

Steps(S, ch, steps) ==
    /\ steps[Idle] = "user"
    /\ \A p \in Task : InFork(steps[p]) => ch[p] \in Task /\ Alive(S, p) /\ ~Built(ch, p)

CurrentIn(S) == S.rq.curr # Idle => S.rq.curr \in RunnableIn(S)

Good(S, ch, steps) == Sound(S) /\ CurrentIn(S) /\ Family(S, ch) /\ Steps(S, ch, steps)

(***************************************************************************)
(* While the kernel runs, the lists describe the task_structs and nobody   *)
(* is runnable who must not be; it stops only at BUG() or after a task was *)
(* misfiled.                                                               *)
(***************************************************************************)
IInv ==
    /\ TypeOK /\ KernelType(Kernel)
    /\ rq.panic = "none" => Good(Kernel, child, pc)
    /\ rq.panic # "none" => Stopped(Kernel)


-----------------------------------------------------------------------------
(* schedule().                                                             *)

\* S2 is sound, and of the tasks of S2 only those of S are runnable.
Settles(S, S2) ==
    /\ Sound(S2) /\ SameProcesses(S, S2)
    /\ \A q \in AllTask : S2.task[q].array # NULL => S.task[q].array # NULL

\* A task that exits is off the runqueue before the next task is picked.
LEMMA PutPrev ==
    ASSUME NEW S, Sound(S), CurrentIn(S), NEW pending \in BOOLEAN
    PROVE  LET S1 == put_prev(S, pending)
           IN  /\ Settles(S, S1) /\ S1.rq.curr = S.rq.curr
               /\ S.task[S.rq.curr].state = "ZOMBIE" => S1.task[S.rq.curr].array = NULL
<1> DEFINE prev == S.rq.curr
           S1 == put_prev(S, pending)
<1>1. /\ KernelType(S) /\ prev \in AllTask /\ Settles(S, S)
      /\ prev # Idle => prev \in Task /\ prev \in RunnableIn(S)
      /\ prev = Idle => S.task[prev].state = "RUNNING"
      /\ S.task \in Tasks /\ S.task[prev] \in task_struct
  BY Fields DEF Sound, Filed, Settles, SameProcesses, CurrentIn, KernelType, AllTask
<1>2. CASE S.task[prev].state = "RUNNING"
  <2>1. S1 = S
    BY <1>2 DEF put_prev
  <2> QED BY <1>1, <1>2, <2>1
<1>3. CASE S.task[prev].state = "INTERRUPTIBLE" /\ pending
  <2>1. S1 = set_running(S, prev) /\ prev \in Task
    BY <1>1, <1>3 DEF put_prev
  <2>2. Reaches(S, S, {}) /\ Life(S.task[prev]) = "alive"
    BY <1>3, SoundReaches DEF Life
  <2>3. Reaches(S, set_running(S, prev), {})
    BY <2>1, <2>2, SetRunning
  <2>4. S1.rq = S.rq
    BY <2>1 DEF set_running, put_task
  <2>5. ~Stopped(S1)
    BY <2>4 DEF Stopped, Sound
  <2> HIDE DEF S1
  <2> QED BY <1>3, <2>1, <2>3, <2>4, <2>5 DEF Reaches, Settles, S1
<1>4. CASE ~(S.task[prev].state = "RUNNING") /\ ~(S.task[prev].state = "INTERRUPTIBLE" /\ pending)
  <2>1. S1 = deactivate_task(S, prev) /\ prev \in RunnableIn(S) /\ prev \in Task
    BY <1>1, <1>4 DEF put_prev
  <2>2. Leaves(S, S1, prev)
    BY <2>1, Deactivate
  <2> DEFINE u == [S.task[prev] EXCEPT !.array = NULL]
  <2>3. u.array = NULL /\ u.state = S.task[prev].state /\ u.p_opptr = S.task[prev].p_opptr
    BY <1>1 DEF task_struct
  <2> HIDE DEF S1
  <2>4. S1.task = [S.task EXCEPT ![prev] = u]
    BY <2>2 DEF Leaves
  <2> HIDE DEF u
  <2>5. \A q \in AllTask : S1.task[q] = IF q = prev THEN u ELSE S.task[q]
    BY <1>1, <2>4 DEF Tasks
  <2>6. SameProcesses(S, S1)
    BY <2>3, <2>5 DEF SameProcesses, Life
  <2> QED BY <1>1, <2>2, <2>3, <2>5, <2>6 DEF Leaves, Settles, S1
<1> QED BY <1>2, <1>3, <1>4

\* The task picked is runnable.
LEMMA PickNext ==
    ASSUME NEW S, Sound(S)
    PROVE  LET S2 == pick_next(S)
           IN  /\ KernelType(S2) /\ S2.task = S.task
               /\ Stopped(S2) \/ (Sound(S2) /\ CurrentIn(S2))
<1>1. KernelType(S) /\ Idle \in AllTask /\ S.rq \in runqueue /\ S.rq.panic = "none"
  BY Fields DEF Sound, Filed, KernelType
<1>2. CASE S.rq.nr_running = 0
  <2> DEFINE r == [S.rq EXCEPT !.curr = Idle]
  <2>1. /\ r \in runqueue /\ r.arrays = S.rq.arrays /\ r.misfiled = S.rq.misfiled
        /\ r.panic = S.rq.panic /\ r.nr_running = S.rq.nr_running /\ r.curr = Idle
    BY <1>1 DEF runqueue
  <2>2. pick_next(S) = put_rq(S, r)
    BY <1>2 DEF pick_next
  <2> HIDE DEF r
  <2>3. Sound(put_rq(S, r)) /\ put_rq(S, r).task = S.task /\ put_rq(S, r).rq = r
    BY <2>1, SoundRq
  <2> QED BY <2>1, <2>2, <2>3 DEF CurrentIn, Sound, Filed
<1>3. CASE S.rq.nr_running # 0 /\ pick_list(S) = << >>
  <2> DEFINE r == [S.rq EXCEPT !.panic = "list"]
  <2>1. /\ r \in runqueue /\ r.misfiled = S.rq.misfiled /\ r.panic = "list"
    BY <1>1 DEF runqueue
  <2>2. pick_next(S) = put_rq(S, r)
    BY <1>3 DEF pick_next
  <2> HIDE DEF r
  <2>3. KernelType(put_rq(S, r)) /\ put_rq(S, r).task = S.task /\ put_rq(S, r).rq = r
    BY <1>1, <2>1, PutRq
  <2>4. r.misfiled
    BY <1>1, <1>3, <2>1, PickList DEF runqueue
  <2> QED BY <2>1, <2>2, <2>3, <2>4 DEF Stopped
<1>4. CASE S.rq.nr_running # 0 /\ pick_list(S) # << >>
  <2> DEFINE p == Head(pick_list(S))
             a == IF pick_array(S) = expired(S) THEN expired(S) ELSE S.rq.active
             r == [S.rq EXCEPT !.curr = p, !.active = a]
  <2>1. p \in RunnableIn(S) /\ p \in AllTask
    BY <1>4, PickList DEF RunnableIn, AllTask
  <2>2. a \in {"array0", "array1"}
    BY <1>1 DEF expired, runqueue
  <2>3. pick_next(S) = put_rq(S, r)
    BY <1>4 DEF pick_next
  <2> HIDE DEF p, a
  <2>4. /\ r \in runqueue /\ r.arrays = S.rq.arrays /\ r.misfiled = S.rq.misfiled
        /\ r.panic = S.rq.panic /\ r.nr_running = S.rq.nr_running /\ r.curr = p
    BY <1>1, <2>1, <2>2 DEF runqueue
  <2> HIDE DEF r
  <2>5. Sound(put_rq(S, r)) /\ put_rq(S, r).task = S.task /\ put_rq(S, r).rq = r
    BY <2>4, SoundRq
  <2>6. CurrentIn(put_rq(S, r))
    BY <2>1, <2>4, <2>5 DEF CurrentIn, RunnableIn
  <2> QED BY <2>3, <2>5, <2>6 DEF Sound, Filed
<1> QED BY <1>2, <1>3, <1>4

\* schedule() as a whole.
LEMMA Schedules ==
    ASSUME NEW S, Sound(S), CurrentIn(S), NEW pending \in BOOLEAN
    PROVE  LET S2 == schedule(S, pending)
           IN  /\ KernelType(S2)
               /\ \/ Stopped(S2)
                  \/ /\ Settles(S, S2) /\ CurrentIn(S2)
                     /\ S.task[S.rq.curr].state = "ZOMBIE" => S2.task[S.rq.curr].array = NULL
<1> DEFINE prev == S.rq.curr
           S1 == put_prev(S, pending)
           t == [S1.task[prev] EXCEPT !.need_resched = FALSE]
           S3 == put_task(S1, prev, t)
           S2 == pick_next(S3)
<1>1. /\ Settles(S, S1) /\ S1.rq.curr = prev
      /\ S.task[prev].state = "ZOMBIE" => S1.task[prev].array = NULL
  BY PutPrev
<1> HIDE DEF S1
<1>2. /\ Sound(S1) /\ KernelType(S1) /\ Reaches(S1, S1, {}) /\ prev \in AllTask
      /\ S1.task[prev] \in task_struct
      /\ prev \in Task => S1.task[prev].prio \in Prio
  BY <1>1, Fields, SoundReaches DEF Settles, Sound, Filed
<1>3. /\ Compatible(S1.task[prev], t) /\ t.prio = S1.task[prev].prio
      /\ t.state = S1.task[prev].state /\ t.justGotForked = S1.task[prev].justGotForked
  BY <1>2 DEF Compatible, Life, task_struct
<1> HIDE DEF t
<1>4. Reaches(S1, S3, {})
  BY <1>2, <1>3, ReachesPut
<1>5. S3.rq = S1.rq
  BY DEF put_task
<1> HIDE DEF S3
<1>6. Sound(S3) /\ ~Stopped(S3)
  BY <1>2, <1>4, <1>5 DEF Reaches, Stopped, Sound
<1>7. /\ KernelType(S2) /\ S2.task = S3.task
      /\ Stopped(S2) \/ (Sound(S2) /\ CurrentIn(S2))
  BY <1>6, PickNext
<1>8. schedule(S, pending) = S2
  BY DEF schedule, S3, S1, t
<1> HIDE DEF S2, prev
<1>9. SameProcesses(S, S2) /\ \A q \in AllTask : S2.task[q].array # NULL => S.task[q].array # NULL
  BY <1>1, <1>4, <1>6, <1>7 DEF Settles, Reaches, SameProcesses
<1>10. S.task[prev].state = "ZOMBIE" => S2.task[prev].array = NULL
  BY <1>1, <1>2, <1>4, <1>6, <1>7 DEF Reaches
<1> QED BY <1>7, <1>8, <1>9, <1>10 DEF Settles, prev


-----------------------------------------------------------------------------
(* Every step keeps the invariant.                                         *)

Lands(S, ch, steps) == KernelType(S) /\ (Stopped(S) \/ Good(S, ch, steps))

\* Only the two fields of a kernel state matter.
LEMMA Whole ==
    ASSUME NEW S, NEW ch, NEW steps
    PROVE  LET K == [task |-> S.task, rq |-> S.rq]
           IN  /\ KernelType(S) => KernelType(K)
               /\ Stopped(S) => Stopped(K)
               /\ Good(S, ch, steps) => Good(K, ch, steps)
<1> DEFINE K == [task |-> S.task, rq |-> S.rq]
<1>1. K.task = S.task /\ K.rq = S.rq
  OBVIOUS
<1> HIDE DEF K
<1>2. (KernelType(S) => KernelType(K)) /\ (Stopped(S) => Stopped(K))
  BY <1>1 DEF KernelType, Stopped
<1>3. OnBut(K, {}) = OnBut(S, {}) /\ At(K) = At(S) /\ RunnableIn(K) = RunnableIn(S)
  BY <1>1 DEF OnBut, At, RunnableIn
<1>4. Sound(S) => Sound(K)
  BY <1>1, <1>2, <1>3 DEF Sound, Filed, Kin
<1>5. CurrentIn(S) => CurrentIn(K)
  BY <1>1, <1>3 DEF CurrentIn
<1>6. Family(S, ch) => Family(K, ch)
  BY <1>1 DEF Family, Alive
<1>7. Steps(S, ch, steps) => Steps(K, ch, steps)
  BY <1>1 DEF Steps, Alive
<1> QED BY <1>2, <1>4, <1>5, <1>6, <1>7 DEF Good, K

LEMMA Landing ==
    ASSUME NEW S, Becomes(S), Lands(S, child', pc'),
           pc' \in [AllTask -> KernelStep], child' \in [Task -> Task \cup {NoChild}]
    PROVE  IInv'
<1> DEFINE K == [task |-> S.task, rq |-> S.rq]
<1>1. Kernel' = K /\ task' = S.task /\ rq' = S.rq
  BY DEF Kernel, Becomes
<1>2. /\ KernelType(S) => KernelType(K)
      /\ Stopped(S) => Stopped(K)
      /\ Good(S, child', pc') => Good(K, child', pc')
  BY Whole
<1> HIDE DEF K
<1>3. KernelType(Kernel)'
  BY <1>1, <1>2 DEF Lands, KernelType
<1>4. TypeOK'
  BY <1>1 DEF TypeOK, Lands, KernelType, Tasks
<1>5. Stopped(S) => rq'.panic # "none" /\ Stopped(Kernel)'
  BY <1>1, <1>2 DEF Stopped
<1>6. Good(S, child', pc') => rq'.panic = "none" /\ Good(Kernel, child, pc)'
  BY <1>1, <1>2 DEF Good, Sound
<1>7. IInv' <=> /\ TypeOK' /\ KernelType(Kernel)'
                /\ (rq'.panic = "none" => Good(Kernel, child, pc)')
                /\ (rq'.panic # "none" => Stopped(Kernel)')
  BY DEF IInv
<1> QED BY <1>3, <1>4, <1>5, <1>6, <1>7 DEF Lands

\* Processes stay what they are and only those in W become runnable.
LEMMA FamilyKept ==
    ASSUME NEW S, NEW ch, Family(S, ch), NEW S2, NEW W,
           S.rq.curr \in AllTask, SameProcesses(S, S2),
           \A q \in AllTask : S2.task[q].array # NULL => S.task[q].array # NULL \/ q \in W,
           \A p \in Task : p \in W => Alive(S, p) /\ ~Built(ch, p),
           \/ S2.rq.curr = S.rq.curr
           \/ S.task[S.rq.curr].state = "ZOMBIE" => S2.task[S.rq.curr].array = NULL
    PROVE  Family(S2, ch)
<1>1. Task \subseteq AllTask /\ Reaper \in Task
  BY Constants DEF AllTask
<1>2. \A q \in AllTask : /\ Alive(S2, q) <=> Alive(S, q)
                         /\ S2.task[q].state = "UNUSED" <=> S.task[q].state = "UNUSED"
                         /\ S2.task[q].state = "ZOMBIE" <=> S.task[q].state = "ZOMBIE"
                         /\ S2.task[q].p_opptr = S.task[q].p_opptr
  BY DEF SameProcesses, Life, Alive
<1>3. \A q \in AllTask : S.task[q].state \in {"UNUSED", "ZOMBIE"} => ~Alive(S, q)
  BY DEF Alive, Life
<1>4. \A p \in Task : p \in W => S.task[p].state \notin {"UNUSED", "ZOMBIE"}
  BY <1>1, <1>3
<1>5. \A p \in Task : ch[p] \in Task =>
         /\ S2.task[ch[p]].array = NULL /\ Alive(S2, ch[p])
         /\ \A r \in Task : ch[r] = ch[p] => r = p
  <2> SUFFICES ASSUME NEW p \in Task, ch[p] \in Task
               PROVE  /\ S2.task[ch[p]].array = NULL /\ Alive(S2, ch[p])
                      /\ \A r \in Task : ch[r] = ch[p] => r = p
    OBVIOUS
  <2>1. ch[p] \notin W
    BY DEF Built
  <2> QED BY <1>1, <1>2, <2>1 DEF Family
<1>6. \A p \in Task : S2.task[p].p_opptr \in Task =>
         Alive(S2, S2.task[p].p_opptr) /\ ~Built(ch, S2.task[p].p_opptr)
  BY <1>1, <1>2 DEF Family
<1>7. \A p \in Task : S2.task[p].state = "UNUSED" =>
                          S2.task[p].array = NULL /\ S2.task[p].p_opptr = Idle
  BY <1>1, <1>2, <1>4 DEF Family
<1>8. \A p \in Task : S2.task[p].state = "ZOMBIE" /\ p # S2.rq.curr => S2.task[p].array = NULL
  BY <1>1, <1>2, <1>4 DEF Family
<1>9. Alive(S2, Reaper) /\ S2.task[Reaper].p_opptr = Idle /\ ~Built(ch, Reaper)
  BY <1>1, <1>2 DEF Family
<1> QED BY <1>5, <1>6, <1>7, <1>8, <1>9 DEF Family

\* A step of the tasks' progress that starts no do_fork().
NoNewFork(steps, steps2) ==
    steps2[Idle] = "user" /\ \A p \in Task : InFork(steps2[p]) => InFork(steps[p])

LEMMA StepsKept ==
    ASSUME NEW S, NEW ch, NEW steps, Steps(S, ch, steps),
           NEW S2, SameProcesses(S, S2), NEW steps2, NoNewFork(steps, steps2)
    PROVE  Steps(S2, ch, steps2)
  BY DEF Steps, SameProcesses, Alive, NoNewFork, AllTask

LEMMA ReachesLands ==
    ASSUME NEW S, NEW ch, NEW steps, Good(S, ch, steps), NEW S2, NEW W, Reaches(S, S2, W),
           \A p \in Task : p \in W => Alive(S, p) /\ ~Built(ch, p),
           NEW steps2, NoNewFork(steps, steps2)
    PROVE  Lands(S2, ch, steps2)
<1>1. CASE Stopped(S2)
  BY <1>1 DEF Lands, Reaches
<1>2. CASE ~Stopped(S2)
  <2>1. /\ KernelType(S2) /\ S2.rq.curr = S.rq.curr /\ Sound(S2) /\ SameProcesses(S, S2)
        /\ \A q \in AllTask : S2.task[q].array # NULL <=> S.task[q].array # NULL \/ q \in W
    BY <1>2 DEF Reaches
  <2>2. S.rq.curr \in AllTask
    BY Fields DEF Good, Sound, Filed
  <2>3. Family(S2, ch)
    BY <2>1, <2>2, FamilyKept DEF Good
  <2>4. Steps(S2, ch, steps2)
    BY <2>1, StepsKept DEF Good
  <2>5. CurrentIn(S2)
    BY <2>1, <2>2 DEF Good, CurrentIn, RunnableIn, AllTask
  <2> QED BY <2>1, <2>3, <2>4, <2>5 DEF Lands, Good
<1> QED BY <1>1, <1>2


\* What an action may assume, and what its new pc may be.
LEMMA Before ==
    ASSUME IInv, rq.panic = "none"
    PROVE  /\ Kernel.task = task /\ Kernel.rq = rq
           /\ Good(Kernel, child, pc) /\ Sound(Kernel) /\ CurrentIn(Kernel)
           /\ KernelType(Kernel)
           /\ current \in AllTask /\ Task \subseteq AllTask
           /\ pc \in [AllTask -> KernelStep] /\ child \in [Task -> Task \cup {NoChild}]
           /\ pc[current] # "user" => current \in Task /\ current \in RunnableIn(Kernel)
           /\ NoNewFork(pc, pc)
           /\ LET steps == [pc EXCEPT ![current] = "user"]
              IN  steps \in [AllTask -> KernelStep] /\ NoNewFork(pc, steps)
<1> DEFINE steps == [pc EXCEPT ![current] = "user"]
<1>1. /\ Kernel.task = task /\ Kernel.rq = rq
      /\ Good(Kernel, child, pc) /\ Sound(Kernel) /\ CurrentIn(Kernel) /\ KernelType(Kernel)
      /\ pc \in [AllTask -> KernelStep] /\ child \in [Task -> Task \cup {NoChild}]
      /\ rq \in runqueue
  BY DEF Kernel, IInv, TypeOK, Good
<1>2. current \in AllTask /\ Idle \in AllTask /\ Task \subseteq AllTask
  BY <1>1 DEF runqueue, current, AllTask
<1>3. pc[Idle] = "user"
  BY <1>1 DEF Good, Steps
<1>4. pc[current] # "user" => current \in Task /\ current \in RunnableIn(Kernel)
  BY <1>1, <1>3 DEF CurrentIn, RunnableIn, current
<1>5. NoNewFork(pc, pc)
  BY <1>3 DEF NoNewFork
<1>6. /\ steps \in [AllTask -> KernelStep]
      /\ \A q \in AllTask : steps[q] = IF q = current THEN "user" ELSE pc[q]
  BY <1>1, <1>2 DEF KernelStep
<1> HIDE DEF steps
<1>7. NoNewFork(pc, steps)
  BY <1>2, <1>3, <1>6 DEF NoNewFork, InFork
<1> QED BY <1>1, <1>2, <1>4, <1>5, <1>6, <1>7 DEF steps

\* Most actions: the kernel reaches S2, and only alive tasks that nobody is
\* building become runnable.
LEMMA ActionReaches ==
    ASSUME IInv, rq.panic = "none", NEW S2, NEW W, Reaches(Kernel, S2, W),
           \A p \in Task : p \in W => Alive(Kernel, p) /\ ~Built(child, p),
           Becomes(S2), UNCHANGED child, ReturnsToUser \/ UNCHANGED pc
    PROVE  IInv'
<1>1. /\ pc' \in [AllTask -> KernelStep] /\ NoNewFork(pc, pc')
      /\ child' \in [Task -> Task \cup {NoChild}] /\ child' = child
      /\ Good(Kernel, child, pc)
  BY Before DEF ReturnsToUser
<1>2. Lands(S2, child', pc')
  BY <1>1, ReachesLands
<1> QED BY <1>1, <1>2, Landing

LEMMA StepTick == IInv /\ Tick => IInv'
<1> SUFFICES ASSUME IInv, Tick PROVE IInv'
  OBVIOUS
<1>1. PICK b \in Bonuses, toExpired \in BOOLEAN : Becomes(scheduler_tick(Kernel, b, toExpired))
  BY DEF Tick
<1>2. rq.panic = "none" /\ UNCHANGED child /\ UNCHANGED pc
  BY DEF Tick, InterruptsOpen
<1>3. Sound(Kernel) /\ (Kernel.rq.curr # Idle => Kernel.rq.curr \in RunnableIn(Kernel))
  BY <1>2, Before DEF CurrentIn
<1>4. Reaches(Kernel, scheduler_tick(Kernel, b, toExpired), {})
  BY <1>3, TickReaches
<1> QED BY <1>1, <1>2, <1>4, ActionReaches

\* A task that can be found by its pid is nobody's unfinished child.
LEMMA HashedBuilt ==
    ASSUME NEW p \in Task, Hashed(p)
    PROVE  ~Built(child, p) /\ task[p].state # "UNUSED"
  BY DEF Hashed, Built

LEMMA StepWake == ASSUME NEW p \in Task PROVE IInv /\ Wake(p) => IInv'
<1> SUFFICES ASSUME IInv, Wake(p) PROVE IInv'
  OBVIOUS
<1>1. /\ rq.panic = "none" /\ UNCHANGED child /\ UNCHANGED pc /\ ~Built(child, p)
      /\ task[p].state \in {"INTERRUPTIBLE", "UNINTERRUPTIBLE"}
  BY HashedBuilt DEF Wake, InterruptsOpen
<1>2. PICK k \in activate_prios(task[p]) : Becomes(try_to_wake_up(Kernel, p, k))
  BY DEF Wake
<1>3. Sound(Kernel) /\ Alive(Kernel, p) /\ Life(Kernel.task[p]) = "alive"
  BY <1>1, Before DEF Alive, Life
<1>4. task[p] \in task_struct /\ task[p].prio \in Prio
  BY <1>1, Before, Fields
<1>5. k \in Prio
  BY <1>4, PrioTypes
<1>6. Reaches(Kernel, try_to_wake_up(Kernel, p, k), {p})
  BY <1>3, <1>5, WakeUp
<1> QED BY <1>1, <1>2, <1>3, <1>6, ActionReaches

LEMMA StepRenewShort ==
    ASSUME NEW p \in Task, NEW ms \in ReqTimes PROVE IInv /\ RenewShort(p, ms) => IInv'
<1> SUFFICES ASSUME IInv, RenewShort(p, ms) PROVE IInv'
  OBVIOUS
<1>1. /\ rq.panic = "none" /\ UNCHANGED child /\ ReturnsToUser
      /\ Becomes(renew_short(Kernel, p, ms)) /\ ms \in Int
  BY Constants DEF RenewShort, InKernel
<1>2. Reaches(Kernel, renew_short(Kernel, p, ms), {})
  BY <1>1, Before, RenewReaches
<1> QED BY <1>1, <1>2, ActionReaches

LEMMA StepMakeShort ==
    ASSUME NEW p \in Task, NEW ms \in ReqTimes PROVE IInv /\ MakeShort(p, ms) => IInv'
<1> SUFFICES ASSUME IInv, MakeShort(p, ms) PROVE IInv'
  OBVIOUS
<1>1. rq.panic = "none" /\ UNCHANGED child /\ ReturnsToUser /\ ms \in Int
  BY Constants DEF MakeShort, InKernel
<1>2. Kernel.task = task /\ Sound(Kernel)
  BY <1>1, Before
<1>3. PICK k \in activate_prios(as_short(Kernel.task[p], ms)) : Becomes(make_short(Kernel, p, ms, k))
  BY <1>2 DEF MakeShort
<1>4. Reaches(Kernel, make_short(Kernel, p, ms, k), {})
  BY <1>1, <1>2, MakeShortReaches
<1> QED BY <1>1, <1>3, <1>4, ActionReaches

LEMMA StepSetNormal ==
    ASSUME NEW p \in Task, NEW policy \in Policy, NEW prio \in Prio
    PROVE  IInv /\ SetNormal(p, policy, prio) => IInv'
<1> SUFFICES ASSUME IInv, SetNormal(p, policy, prio) PROVE IInv'
  OBVIOUS
<1>1. rq.panic = "none" /\ UNCHANGED child /\ ReturnsToUser
  BY DEF SetNormal, InKernel
<1>2. Kernel.task = task /\ Sound(Kernel)
  BY <1>1, Before
<1> DEFINE t == as_normal(Kernel.task[p], policy, prio)
<1>3. PICK k \in activate_prios(t) : Becomes(reactivate(Kernel, p, t, k))
  BY <1>2 DEF SetNormal
<1>4. Reaches(Kernel, reactivate(Kernel, p, t, k), {})
  BY <1>2, NormalReaches
<1> QED BY <1>1, <1>3, <1>4, ActionReaches

LEMMA StepSetNice ==
    ASSUME NEW p \in Task, NEW k \in UserPrio PROVE IInv /\ SetNice(p, k) => IInv'
<1> SUFFICES ASSUME IInv, SetNice(p, k) PROVE IInv'
  OBVIOUS
<1>1. /\ rq.panic = "none" /\ UNCHANGED child /\ ReturnsToUser /\ k \in Prio
      /\ Becomes(set_user_nice(Kernel, p, k))
  BY Constants DEF SetNice, InKernel
<1>2. Reaches(Kernel, set_user_nice(Kernel, p, k), {})
  BY <1>1, Before, NiceReaches
<1> QED BY <1>1, <1>2, ActionReaches


LEMMA StepSysEnter == IInv /\ SysEnter => IInv'
<1> SUFFICES ASSUME IInv, SysEnter PROVE IInv'
  OBVIOUS
<1>1. /\ rq.panic = "none" /\ current # Idle /\ task' = task /\ rq' = rq /\ child' = child
      /\ pc' = [pc EXCEPT ![current] = "kernel"]
  BY DEF SysEnter
<1>2. /\ Kernel.task = task /\ Kernel.rq = rq /\ Good(Kernel, child, pc) /\ Sound(Kernel)
      /\ current \in AllTask /\ Task \subseteq AllTask /\ Idle \in AllTask
      /\ pc \in [AllTask -> KernelStep] /\ child \in [Task -> Task \cup {NoChild}]
      /\ NoNewFork(pc, pc)
  BY <1>1, Before DEF AllTask
<1>3. /\ pc' \in [AllTask -> KernelStep]
      /\ \A q \in AllTask : pc'[q] = IF q = current THEN "kernel" ELSE pc[q]
  BY <1>1, <1>2 DEF KernelStep
<1>4. NoNewFork(pc, pc')
  BY <1>1, <1>2, <1>3 DEF NoNewFork, InFork
<1>5. Lands(Kernel, child', pc')
  BY <1>1, <1>2, <1>4, SoundReaches, ReachesLands
<1>6. Becomes(Kernel)
  BY <1>1, <1>2 DEF Becomes
<1> QED BY <1>1, <1>2, <1>3, <1>5, <1>6, Landing

LEMMA StepSysReturn == IInv /\ SysReturn => IInv'
<1> SUFFICES ASSUME IInv, SysReturn PROVE IInv'
  OBVIOUS
<1>1. /\ rq.panic = "none" /\ ReturnsToUser /\ UNCHANGED child /\ task' = task /\ rq' = rq
  BY DEF SysReturn, InKernel
<1>2. Reaches(Kernel, Kernel, {}) /\ Becomes(Kernel)
  BY <1>1, Before, SoundReaches DEF Becomes
<1> QED BY <1>1, <1>2, ActionReaches

LEMMA StepSetState == ASSUME NEW state \in State \ {"ZOMBIE", "UNUSED"}
                      PROVE  IInv /\ SetState(state) => IInv'
<1> SUFFICES ASSUME IInv, SetState(state) PROVE IInv'
  OBVIOUS
<1> DEFINE t == task[current]
           u == [t EXCEPT !.state = state]
           S2 == put_task(Kernel, current, u)
<1>1. /\ rq.panic = "none" /\ UNCHANGED child /\ UNCHANGED pc /\ rq' = rq
      /\ t.state # "ZOMBIE" /\ pc[current] # "user"
      /\ task' = [task EXCEPT ![current].state = state]
  BY DEF SetState
<1>2. /\ Kernel.task = task /\ Kernel.rq = rq /\ Good(Kernel, child, pc) /\ Sound(Kernel)
      /\ KernelType(Kernel) /\ current \in Task /\ current \in AllTask
      /\ current \in RunnableIn(Kernel)
  BY <1>1, Before
<1>3. t \in task_struct /\ t.prio \in Prio /\ current # Idle
  BY <1>2, Fields, Constants
<1>4. t.state # "UNUSED"
  BY <1>2 DEF Good, Family, RunnableIn
<1>5. Compatible(t, u) /\ u.prio = t.prio
  BY <1>1, <1>3, <1>4 DEF Compatible, Life, task_struct
<1>6. S2.task = [task EXCEPT ![current] = u] /\ S2.rq = rq
  BY <1>2 DEF put_task
<1>7. Becomes(S2)
  BY <1>1, <1>6 DEF Becomes
<1> HIDE DEF t, u
<1>8. Kernel.task[current] = t
  BY <1>2 DEF t
<1>9. Reaches(Kernel, S2, {})
  BY <1>2, <1>3, <1>5, <1>8, SoundReaches, ReachesPut
<1> HIDE DEF S2
<1> QED BY <1>1, <1>7, <1>9, ActionReaches

\* After schedule() and the return from the kernel.
LEMMA ActionSchedules ==
    ASSUME IInv, rq.panic = "none", NEW S, Reaches(Kernel, S, {}), Sound(S),
           NEW pending \in BOOLEAN, Becomes(schedule(S, pending)),
           UNCHANGED child, ReturnsToUser \/ UNCHANGED pc
    PROVE  IInv'
<1> DEFINE S2 == schedule(S, pending)
<1>1. /\ pc' \in [AllTask -> KernelStep] /\ NoNewFork(pc, pc')
      /\ child' \in [Task -> Task \cup {NoChild}] /\ child' = child
      /\ Good(Kernel, child, pc) /\ Kernel.rq.curr \in AllTask /\ Task \subseteq AllTask
  BY Before, Fields DEF ReturnsToUser
<1>2. ~Stopped(S)
  BY DEF Stopped, Sound
<1>3. /\ S.rq.curr = Kernel.rq.curr /\ SameProcesses(Kernel, S)
      /\ \A q \in AllTask : S.task[q].array # NULL <=> Kernel.task[q].array # NULL
  BY <1>2 DEF Reaches
<1>4. CurrentIn(S)
  BY <1>1, <1>3 DEF Good, CurrentIn, RunnableIn
<1>5. /\ KernelType(S2)
      /\ \/ Stopped(S2)
         \/ /\ Settles(S, S2) /\ CurrentIn(S2)
            /\ S.task[S.rq.curr].state = "ZOMBIE" => S2.task[S.rq.curr].array = NULL
  BY <1>4, Schedules
<1> HIDE DEF S2
<1>6. CASE Stopped(S2)
  BY <1>1, <1>5, <1>6, Landing DEF Lands, S2
<1>7. CASE ~Stopped(S2)
  <2>1. SameProcesses(Kernel, S2)
    BY <1>3, <1>5, <1>7 DEF Settles, SameProcesses
  <2>2. \A q \in AllTask : S2.task[q].array # NULL => Kernel.task[q].array # NULL
    BY <1>3, <1>5, <1>7 DEF Settles
  <2>3. Kernel.task[Kernel.rq.curr].state = "ZOMBIE" => S2.task[Kernel.rq.curr].array = NULL
    <3>1. Kernel.task[Kernel.rq.curr].state = "ZOMBIE" => S.task[S.rq.curr].state = "ZOMBIE"
      BY <1>1, <1>3 DEF SameProcesses, Life
    <3> QED BY <1>3, <1>5, <1>7, <3>1
  <2>4. Family(S2, child)
    <3> DEFINE W == {}
    <3>1. \A p \in Task : p \in W => Alive(Kernel, p) /\ ~Built(child, p)
      OBVIOUS
    <3>2. \A q \in AllTask : S2.task[q].array # NULL => Kernel.task[q].array # NULL \/ q \in W
      BY <2>2
    <3> HIDE DEF W
    <3> QED BY <1>1, <2>1, <2>3, <3>1, <3>2, FamilyKept DEF Good
  <2>5. Steps(S2, child, pc')
    BY <1>1, <2>1, StepsKept DEF Good
  <2>6. Lands(S2, child', pc')
    BY <1>1, <1>5, <1>7, <2>4, <2>5 DEF Lands, Good, Settles
  <2> QED BY <1>1, <2>6, Landing DEF S2
<1> QED BY <1>6, <1>7

LEMMA StepReschedule == IInv /\ Reschedule => IInv'
<1> SUFFICES ASSUME IInv, Reschedule PROVE IInv'
  OBVIOUS
<1>1. rq.panic = "none" /\ UNCHANGED child /\ UNCHANGED pc
  BY DEF Reschedule
<1>2. PICK pending \in BOOLEAN : Becomes(schedule(Kernel, pending))
  BY DEF Reschedule
<1>3. Sound(Kernel) /\ Reaches(Kernel, Kernel, {})
  BY <1>1, Before, SoundReaches
<1> QED BY <1>1, <1>2, <1>3, ActionSchedules

LEMMA StepYield == IInv /\ Yield => IInv'
<1> SUFFICES ASSUME IInv, Yield PROVE IInv'
  OBVIOUS
<1> DEFINE S == yield(Kernel, current)
<1>1. /\ rq.panic = "none" /\ UNCHANGED child /\ ReturnsToUser /\ pc[current] # "user"
      /\ Becomes(schedule(S, FALSE))
  BY DEF Yield, InKernel
<1>2. /\ Sound(Kernel) /\ current \in RunnableIn(Kernel) /\ Kernel.rq = rq
  BY <1>1, Before
<1>3. Reaches(Kernel, S, {})
  BY <1>2, YieldReaches
<1>4. S.rq.panic = Kernel.rq.panic
  <2> HIDE DEF S
  <2>1. \A x : [Kernel.rq EXCEPT !.arrays = x].panic = Kernel.rq.panic
    BY <1>1, Before DEF KernelType, runqueue
  <2>2. ASSUME NEW k, NEW bits, NEW q, S = yield_to(Kernel, current, k, bits, q)
        PROVE  S.rq.panic = Kernel.rq.panic
    <3> DEFINE array == Kernel.task[current].array
               arrays1 == unlink(Kernel.rq.arrays, array, Kernel.task[current].prio, current)
               x == array_relink(arrays1, array, k, bits, q)
    <3>1. S.rq = [Kernel.rq EXCEPT !.arrays = x]
      BY <2>2 DEF yield_to, put_rq, put_task
    <3> HIDE DEF x
    <3> QED BY <2>1, <3>1
  <2>3. \E k, bits, q : S = yield_to(Kernel, current, k, bits, q)
    BY DEF yield, S
  <2> QED BY <2>2, <2>3
<1>5. Sound(S)
  BY <1>1, <1>2, <1>3, <1>4 DEF Reaches, Stopped
<1> HIDE DEF S
<1> QED BY <1>1, <1>3, <1>5, ActionSchedules


\* A task_struct t takes the place of one that nobody uses: its task c is not
\* runnable and is nobody's parent.
LEMMA Replace ==
    ASSUME NEW S, Sound(S), CurrentIn(S), NEW ch, Family(S, ch),
           NEW c \in Task, S.task[c].array = NULL, c # Reaper, S.rq.curr # c,
           \A q \in Task : S.task[q].p_opptr # c,
           NEW t \in task_struct, t.prio \in Prio, t.array = NULL, t.p_opptr # c,
           t.p_opptr \in Task => Alive(S, t.p_opptr) /\ ~Built(ch, t.p_opptr),
           t.state = "UNUSED" => t.p_opptr = Idle,
           NEW ch2, \A q, r \in Task : ch2[q] \in Task /\ ch2[r] = ch2[q] => r = q,
           \A q \in Task : ch2[q] \in Task /\ ch2[q] # c => Built(ch, ch2[q]),
           Built(ch2, c) => Life(t) = "alive"
    PROVE  LET S2 == put_task(S, c, t)
           IN  /\ Sound(S2) /\ CurrentIn(S2) /\ Family(S2, ch2)
               /\ KernelType(S2) /\ S2.rq = S.rq
               /\ \A q \in AllTask : S2.task[q] = IF q = c THEN t ELSE S.task[q]
<1> DEFINE S2 == put_task(S, c, t)
<1>1. /\ KernelType(S) /\ Task \subseteq AllTask /\ Idle \in AllTask /\ c # Idle
      /\ Filed(S, {}) /\ {} \cup {c} = {c} /\ Reaper \in Task
  BY Constants DEF Sound, Filed, AllTask
<1>2. /\ KernelType(S2) /\ S2.rq = S.rq
      /\ \A q \in AllTask : S2.task[q] = IF q = c THEN t ELSE S.task[q]
      /\ Filed(S, {c}) => Filed(S2, {c})
  BY <1>1, PutTask
<1> HIDE DEF S2
<1>3. Filed(S2, {})
  BY <1>1, <1>2, OffOrInTransit
<1>4. RunnableIn(S2) = RunnableIn(S)
  BY <1>1, <1>2 DEF RunnableIn
<1>5. \A q \in Task : S2.task[q].p_opptr = IF q = c THEN t.p_opptr ELSE S.task[q].p_opptr
  BY <1>1, <1>2
<1>6. Kin(S2)
  BY <1>1, <1>2, <1>5 DEF Kin, Sound
<1>7. Sound(S2)
  BY <1>1, <1>2, <1>3, <1>4, <1>6 DEF Sound
<1>8. CurrentIn(S2)
  BY <1>2, <1>4 DEF CurrentIn
<1>9. \A q \in Task : q # c /\ Built(ch2, q) => Built(ch, q)
  BY DEF Built
<1>10. \A q \in Task : ch2[q] \in Task =>
          /\ S2.task[ch2[q]].array = NULL /\ Alive(S2, ch2[q])
          /\ \A r \in Task : ch2[r] = ch2[q] => r = q
  <2> SUFFICES ASSUME NEW q \in Task, ch2[q] \in Task
               PROVE  S2.task[ch2[q]].array = NULL /\ Alive(S2, ch2[q])
    OBVIOUS
  <2>1. CASE ch2[q] = c
    BY <1>1, <1>2, <2>1 DEF Built, Alive
  <2>2. CASE ch2[q] # c
    <3>1. PICK r \in Task : ch[r] = ch2[q]
      BY <2>2 DEF Built
    <3> QED BY <1>1, <1>2, <2>2, <3>1 DEF Family, Alive
  <2> QED BY <2>1, <2>2
<1>11. \A q \in Task : S2.task[q].p_opptr \in Task =>
          Alive(S2, S2.task[q].p_opptr) /\ ~Built(ch2, S2.task[q].p_opptr)
  BY <1>1, <1>2, <1>5, <1>9 DEF Family, Alive
<1>12. \A q \in Task : S2.task[q].state = "UNUSED" =>
          S2.task[q].array = NULL /\ S2.task[q].p_opptr = Idle
  BY <1>1, <1>2 DEF Family
<1>13. \A q \in Task : S2.task[q].state = "ZOMBIE" /\ q # S2.rq.curr => S2.task[q].array = NULL
  BY <1>1, <1>2 DEF Family
<1>14. Alive(S2, Reaper) /\ S2.task[Reaper].p_opptr = Idle /\ ~Built(ch2, Reaper)
  BY <1>1, <1>2, <1>9 DEF Family, Alive
<1>15. Family(S2, ch2)
  BY <1>10, <1>11, <1>12, <1>13, <1>14 DEF Family
<1> QED BY <1>2, <1>7, <1>8, <1>15 DEF S2

LEMMA UnusedType ==
    /\ UnusedTask \in task_struct /\ UnusedTask.prio \in Prio /\ UnusedTask.array = NULL
    /\ UnusedTask.p_opptr = Idle /\ UnusedTask.state = "UNUSED"
<1>1. /\ DefaultPrio \in Prio /\ DefaultPrio \in 0 .. MAX_PRIO /\ 0 \in Prio /\ 0 \in 0 .. UINT - 1
      /\ Idle \in AllTask
  BY Constants DEF Prio, AllTask
<1>2. NULL \in ArrayId \cup {NULL} /\ "UNUSED" \in State /\ "OTHER" \in Policy
  BY DEF State, Policy
<1> QED BY <1>1, <1>2 DEF UnusedTask, task_struct

\* A task in a system call.
LEMMA InCall ==
    ASSUME IInv, rq.panic = "none", pc[current] # "user"
    PROVE  /\ current \in Task /\ current \in AllTask /\ current # Idle
           /\ task[current] \in task_struct /\ task[current].prio \in Prio
           /\ task[current].array # NULL /\ task[current].state # "UNUSED"
           /\ Family(Kernel, child) /\ Steps(Kernel, child, pc)
           /\ Kernel.rq.curr = current /\ Kernel.task = task
           /\ \A c \in Task : task[c].array = NULL => c # current
<1>1. /\ Kernel.task = task /\ Kernel.rq = rq /\ Good(Kernel, child, pc) /\ KernelType(Kernel)
      /\ current \in Task /\ current \in AllTask /\ current \in RunnableIn(Kernel)
  BY Before
<1>2. task[current] \in task_struct /\ task[current].prio \in Prio /\ current # Idle
  BY <1>1, Fields, Constants
<1>3. task[current].array # NULL
  BY <1>1 DEF RunnableIn
<1>4. task[current].state # "UNUSED"
  BY <1>1, <1>3 DEF Good, Family
<1> QED BY <1>1, <1>2, <1>3, <1>4 DEF Good, current

LEMMA StepReap == ASSUME NEW p \in Task PROVE IInv /\ Reap(p) => IInv'
<1> SUFFICES ASSUME IInv, Reap(p) PROVE IInv'
  OBVIOUS
<1> DEFINE S1 == sched_exit(Kernel, p)
           S2 == put_task(S1, p, UnusedTask)
<1>1. /\ rq.panic = "none" /\ UNCHANGED child /\ ReturnsToUser /\ pc[current] # "user"
      /\ task[p].state = "ZOMBIE" /\ task[current].state = "RUNNING" /\ Becomes(S2)
  BY DEF Reap, InKernel
<1>2. /\ Kernel.task = task /\ Kernel.rq = rq /\ Good(Kernel, child, pc) /\ Sound(Kernel)
      /\ current \in Task /\ Kernel.rq.curr # Idle /\ Kernel.rq.curr = current
      /\ Task \subseteq AllTask /\ NoNewFork(pc, pc')
      /\ pc' \in [AllTask -> KernelStep] /\ child' \in [Task -> Task \cup {NoChild}]
  BY <1>1, Before, InCall DEF ReturnsToUser
<1>3. Reaches(Kernel, S1, {})
  BY <1>2, ExitReaches
<1>4. S1.rq = rq
  BY <1>2 DEF sched_exit, put_task
<1> HIDE DEF S1
<1>5. Lands(S1, child, pc')
  BY <1>2, <1>3, ReachesLands
<1>6. Good(S1, child, pc') /\ ~Stopped(S1) /\ SameProcesses(Kernel, S1)
  BY <1>1, <1>3, <1>4, <1>5 DEF Lands, Stopped, Reaches
<1>7. S1.task[p].state = "ZOMBIE"
  BY <1>1, <1>2, <1>6 DEF SameProcesses, Life
<1>8. p # current /\ S1.rq.curr = current
  BY <1>1, <1>4 DEF current
<1>9. S1.task[p].array = NULL
  BY <1>6, <1>7, <1>8 DEF Good, Family
<1>10. ~Alive(S1, p)
  BY <1>7 DEF Alive, Life
<1>11. p # Reaper /\ (\A q \in Task : S1.task[q].p_opptr # p) /\ ~Built(child, p)
  BY <1>6, <1>10 DEF Good, Family, Built
<1>12. /\ \A q, r \in Task : child[q] \in Task /\ child[r] = child[q] => r = q
       /\ \A q \in Task : child[q] \in Task /\ child[q] # p => Built(child, child[q])
  BY <1>6 DEF Good, Family, Built
<1>13. Idle # p /\ Idle \notin Task
  BY Constants
<1>14. /\ Sound(S2) /\ CurrentIn(S2) /\ Family(S2, child) /\ KernelType(S2)
       /\ \A q \in AllTask : S2.task[q] = IF q = p THEN UnusedTask ELSE S1.task[q]
  BY <1>6, <1>8, <1>9, <1>11, <1>12, <1>13, UnusedType, Replace DEF Good
<1> HIDE DEF S2
<1>15. \A q \in Task : InFork(pc'[q]) => q # p
  BY <1>6, <1>10 DEF Good, Steps
<1>16. Steps(S2, child, pc')
  BY <1>2, <1>6, <1>14, <1>15 DEF Good, Steps, Alive
<1>17. Lands(S2, child', pc')
  BY <1>1, <1>14, <1>16 DEF Lands, Good
<1> QED BY <1>1, <1>2, <1>17, Landing


LEMMA StepForkCopy == ASSUME NEW c \in Task PROVE IInv /\ ForkCopy(c) => IInv'
<1> SUFFICES ASSUME IInv, ForkCopy(c) PROVE IInv'
  OBVIOUS
<1> DEFINE p == current
           t == fork_copy(task[p])
           S2 == put_task(Kernel, c, t)
           step == "fork_copied"
<1>1. /\ rq.panic = "none" /\ pc[p] # "user" /\ task[p].state = "RUNNING"
      /\ task[c].state = "UNUSED"
      /\ task' = [task EXCEPT ![c] = t] /\ rq' = rq
      /\ child' = [child EXCEPT ![p] = c]
      /\ pc' = [pc EXCEPT ![p] = step, ![c] = "user"]
  BY DEF ForkCopy, InKernel
<1>2. /\ Kernel.task = task /\ Kernel.rq = rq /\ Good(Kernel, child, pc) /\ Sound(Kernel)
      /\ CurrentIn(Kernel) /\ Task \subseteq AllTask /\ KernelType(Kernel)
      /\ pc \in [AllTask -> KernelStep] /\ child \in [Task -> Task \cup {NoChild}]
  BY <1>1, Before
<1>3. /\ p \in Task /\ p # Idle /\ task[p] \in task_struct /\ task[p].prio \in Prio
      /\ Family(Kernel, child) /\ Steps(Kernel, child, pc) /\ Kernel.rq.curr = p
      /\ \A q \in Task : task[q].array = NULL => q # p
  BY <1>1, InCall
<1>4. task[c].array = NULL /\ c # p /\ ~Alive(Kernel, c)
  BY <1>1, <1>2, <1>3 DEF Family, Alive, Life
<1>5. c # Reaper /\ (\A q \in Task : task[q].p_opptr # c) /\ ~Built(child, c)
  BY <1>2, <1>3, <1>4 DEF Family, Built
<1>6. /\ t \in task_struct /\ t.prio = task[p].prio /\ t.array = NULL
      /\ t.p_opptr = task[p].p_opptr /\ t.state = "UNINTERRUPTIBLE"
  BY <1>3 DEF fork_copy, task_struct, State
<1> HIDE DEF t
<1>7. \A q \in Task : child'[q] = IF q = p THEN c ELSE child[q]
  BY <1>1, <1>2, <1>3
<1>8. \A q, r \in Task : child'[q] \in Task /\ child'[r] = child'[q] => r = q
  BY <1>3, <1>5, <1>7 DEF Family, Built
<1>9. \A q \in Task : child'[q] \in Task /\ child'[q] # c => Built(child, child'[q])
  BY <1>7 DEF Built
<1>10. t.p_opptr \in Task => Alive(Kernel, t.p_opptr) /\ ~Built(child, t.p_opptr)
  BY <1>2, <1>3, <1>6 DEF Family
<1>11. Life(t) = "alive" /\ t.p_opptr # c /\ (t.state = "UNUSED" => t.p_opptr = Idle)
  BY <1>3, <1>5, <1>6 DEF Life
<1> DEFINE ch2 == child'
<1> HIDE DEF ch2
<1>12. /\ Sound(S2) /\ CurrentIn(S2) /\ Family(S2, ch2) /\ KernelType(S2) /\ S2.rq = rq
       /\ \A q \in AllTask : S2.task[q] = IF q = c THEN t ELSE task[q]
  <2>1. \A q, r \in Task : ch2[q] \in Task /\ ch2[r] = ch2[q] => r = q
    BY <1>8 DEF ch2
  <2>2. \A q \in Task : ch2[q] \in Task /\ ch2[q] # c => Built(child, ch2[q])
    BY <1>9 DEF ch2
  <2>3. Kernel.rq.curr # c
    BY <1>3, <1>4
  <2>4. /\ Kernel.task[c].array = NULL /\ \A q \in Task : Kernel.task[q].p_opptr # c
        /\ t.prio \in Prio
    BY <1>2, <1>3, <1>4, <1>5, <1>6
  <2>5. /\ Sound(S2) /\ CurrentIn(S2) /\ Family(S2, ch2) /\ KernelType(S2) /\ S2.rq = Kernel.rq
        /\ \A q \in AllTask : S2.task[q] = IF q = c THEN t ELSE Kernel.task[q]
    <3>1. Sound(Kernel) /\ CurrentIn(Kernel) /\ Family(Kernel, child)
      BY <1>2, <1>3
    <3>2. /\ c # Reaper /\ t \in task_struct /\ t.array = NULL /\ t.p_opptr # c
          /\ t.state = "UNUSED" => t.p_opptr = Idle
          /\ Built(ch2, c) => Life(t) = "alive"
      BY <1>5, <1>6, <1>11
    <3> HIDE DEF p, step, S2
    <3> QED BY <1>10, <2>1, <2>2, <2>3, <2>4, <3>1, <3>2, Replace DEF S2
  <2> QED BY <1>2, <2>5
<1>13. /\ pc' \in [AllTask -> KernelStep]
       /\ \A q \in AllTask : pc'[q] = IF q = c THEN "user" ELSE IF q = p THEN step ELSE pc[q]
  BY <1>1, <1>2, <1>3 DEF KernelStep
<1>18. ~Built(child, p)
  BY <1>2, <1>3 DEF Family, Built
<1>14. Steps(S2, ch2, pc')
  <2>1. Idle \in AllTask /\ c \in AllTask /\ c # Idle /\ pc[Idle] = "user"
    BY <1>3, Constants DEF AllTask, Steps
  <2>2. pc'[Idle] = "user"
    BY <1>3, <1>13, <2>1
  <2>3. \A q \in Task : InFork(pc'[q]) => ch2[q] \in Task /\ Alive(S2, q) /\ ~Built(ch2, q)
    <3> SUFFICES ASSUME NEW q \in Task, InFork(pc'[q])
                 PROVE  ch2[q] \in Task /\ Alive(S2, q) /\ ~Built(ch2, q)
      OBVIOUS
    <3>1. q # c
      BY <1>2, <1>13 DEF InFork
    <3>2. S2.task[q] = task[q]
      BY <1>2, <1>12, <3>1
    <3>3. CASE q = p
      BY <1>1, <1>3, <1>7, <1>18, <3>1, <3>2, <3>3 DEF Alive, Life, Built, ch2
    <3>4. CASE q # p
      BY <1>2, <1>3, <1>7, <1>13, <3>1, <3>2, <3>4 DEF Steps, Alive, Built, ch2
    <3> QED BY <3>3, <3>4
  <2> QED BY <2>2, <2>3 DEF Steps
<1>15. Lands(S2, child', pc')
  BY <1>12, <1>14 DEF Lands, Good, ch2
<1>16. Becomes(S2)
  BY <1>1, <1>2 DEF Becomes, put_task
<1>17. child' \in [Task -> Task \cup {NoChild}]
  BY <1>1, <1>2
<1> QED BY <1>13, <1>15, <1>16, <1>17, Landing

\* The task under construction of a task in do_fork().
LEMMA InForkCall ==
    ASSUME IInv, rq.panic = "none", InFork(pc[current])
    PROVE  LET c == child[current]
               ch2 == [child EXCEPT ![current] = NoChild]
           IN  /\ pc[current] # "user"
               /\ c \in Task \ {current} /\ c # Reaper /\ Kernel.rq.curr # c
               /\ task[c].array = NULL /\ Life(task[c]) = "alive"
               /\ \A q \in Task : task[q].p_opptr # c
               /\ ch2 \in [Task -> Task \cup {NoChild}]
               /\ ~Built(ch2, c)
               /\ \A q, r \in Task : ch2[q] \in Task /\ ch2[r] = ch2[q] => r = q
               /\ \A q \in Task : ch2[q] \in Task /\ ch2[q] # c => Built(child, ch2[q])
               /\ ~Built(child, current) /\ Alive(Kernel, current)
<1> DEFINE c == child[current]
           ch2 == [child EXCEPT ![current] = NoChild]
<1>1. pc[current] # "user"
  BY DEF InFork
<1>2. /\ Kernel.task = task /\ child \in [Task -> Task \cup {NoChild}]
      /\ current \in Task /\ Family(Kernel, child) /\ Steps(Kernel, child, pc)
      /\ Kernel.rq.curr = current /\ task[current].array # NULL
      /\ \A q \in Task : task[q].array = NULL => q # current
  BY <1>1, Before, InCall
<1>3. c \in Task /\ Alive(Kernel, current)
  BY <1>2 DEF Steps
<1>4. task[c].array = NULL /\ Alive(Kernel, c) /\ Built(child, c)
  BY <1>2, <1>3 DEF Family, Built
<1>5. c # current /\ c # Reaper /\ \A q \in Task : task[q].p_opptr # c
  BY <1>2, <1>3, <1>4 DEF Family
<1>6. NoChild \notin Task
  BY Constants
<1>7. /\ ch2 \in [Task -> Task \cup {NoChild}]
      /\ \A q \in Task : ch2[q] = IF q = current THEN NoChild ELSE child[q]
  BY <1>2
<1> HIDE DEF ch2
<1>8. ~Built(ch2, c)
  BY <1>2, <1>3, <1>6, <1>7 DEF Built, Family
<1>9. \A q, r \in Task : ch2[q] \in Task /\ ch2[r] = ch2[q] => r = q
  BY <1>2, <1>6, <1>7 DEF Family
<1>10. \A q \in Task : ch2[q] \in Task /\ ch2[q] # c => Built(child, ch2[q])
  BY <1>6, <1>7 DEF Built
<1>11. ~Built(child, current)
  BY <1>2 DEF Built, Family
<1> QED BY <1>1, <1>2, <1>3, <1>4, <1>5, <1>7, <1>8, <1>9, <1>10, <1>11 DEF Alive, ch2

\* The end of a do_fork().
LEMMA ForkKept ==
    ASSUME NEW S, NEW c \in Task, NEW p \in Task, c = child[p], Steps(S, child, pc),
           Built(child, c), NEW S2, \A q \in Task : q # c => S2.task[q] = S.task[q],
           NEW steps, steps[Idle] = "user",
           \A q \in Task : InFork(steps[q]) => q # p /\ InFork(pc[q]),
           NEW ch2, ch2 = [child EXCEPT ![p] = NoChild],
           child \in [Task -> Task \cup {NoChild}]
    PROVE  Steps(S2, ch2, steps)
<1>1. \A q \in Task : ch2[q] = IF q = p THEN NoChild ELSE child[q]
  OBVIOUS
<1>2. NoChild \notin Task
  BY Constants
<1>3. ASSUME NEW q \in Task, InFork(steps[q])
      PROVE  ch2[q] \in Task /\ Alive(S2, q) /\ ~Built(ch2, q)
  <2>1. q # p /\ child[q] \in Task /\ Alive(S, q) /\ ~Built(child, q)
    BY <1>3 DEF Steps
  <2>2. q # c
    BY <2>1
  <2> QED BY <1>1, <1>2, <2>1, <2>2 DEF Built, Alive
<1> QED BY <1>3 DEF Steps

LEMMA StepForkFail == IInv /\ ForkFail => IInv'
<1> SUFFICES ASSUME IInv, ForkFail PROVE IInv'
  OBVIOUS
<1> DEFINE c == child[current]
           ch2 == [child EXCEPT ![current] = NoChild]
           S2 == put_task(Kernel, c, UnusedTask)
<1>1. /\ rq.panic = "none" /\ InFork(pc[current]) /\ rq' = rq
      /\ task' = [task EXCEPT ![c] = UnusedTask] /\ child' = ch2 /\ ReturnsToUser
  BY DEF ForkFail, InFork
<1>2. /\ Kernel.task = task /\ Kernel.rq = rq /\ Good(Kernel, child, pc) /\ Sound(Kernel)
      /\ CurrentIn(Kernel) /\ Task \subseteq AllTask /\ Family(Kernel, child)
      /\ pc' \in [AllTask -> KernelStep] /\ NoNewFork(pc, pc')
      /\ current \in AllTask /\ pc \in [AllTask -> KernelStep]
  BY <1>1, Before DEF ReturnsToUser, Good
<1>3. /\ c \in Task /\ c # current /\ c # Reaper /\ Kernel.rq.curr # c /\ task[c].array = NULL
      /\ \A q \in Task : task[q].p_opptr # c
      /\ ch2 \in [Task -> Task \cup {NoChild}] /\ ~Built(ch2, c)
      /\ \A q, r \in Task : ch2[q] \in Task /\ ch2[r] = ch2[q] => r = q
      /\ \A q \in Task : ch2[q] \in Task /\ ch2[q] # c => Built(child, ch2[q])
  BY <1>1, InForkCall
<1>4. Idle \notin Task
  BY Constants
<1>5. \A q \in Task : InFork(pc'[q]) => q # current /\ InFork(pc[q])
  BY <1>1, <1>2 DEF ReturnsToUser, InFork, NoNewFork
<1>6. /\ Sound(S2) /\ CurrentIn(S2) /\ Family(S2, ch2) /\ KernelType(S2)
      /\ \A q \in AllTask : S2.task[q] = IF q = c THEN UnusedTask ELSE task[q]
  <2> HIDE DEF c, ch2
  <2> QED BY <1>2, <1>3, <1>4, UnusedType, Replace
<1>7. Steps(S2, ch2, pc')
  <2>1. Steps(Kernel, child, pc) /\ current \in Task /\ Built(child, c)
    BY <1>1, <1>2, InForkCall, Before DEF Good, Built
  <2>2. pc'[Idle] = "user" /\ \A q \in Task : q # c => S2.task[q] = Kernel.task[q]
    BY <1>2, <1>6 DEF NoNewFork
  <2>3. child \in [Task -> Task \cup {NoChild}]
    BY <1>1, Before
  <2>4. ch2 = [child EXCEPT ![current] = NoChild] /\ c = child[current] /\ c \in Task
    BY <1>3
  <2>5. pc'[Idle] = "user"
    BY <2>2
  <2> HIDE DEF S2, ch2, c
  <2>6. \A steps : /\ steps[Idle] = "user"
                   /\ \A q \in Task : InFork(steps[q]) => q # current /\ InFork(pc[q])
                   => Steps(S2, ch2, steps)
    BY <2>1, <2>2, <2>3, <2>4, ForkKept
  <2> QED BY <1>5, <2>5, <2>6
<1>8. Lands(S2, child', pc')
  BY <1>1, <1>6, <1>7 DEF Lands, Good
<1>9. Becomes(S2)
  BY <1>1, <1>2 DEF Becomes, put_task
<1> HIDE DEF S2
<1> QED BY <1>1, <1>2, <1>3, <1>8, <1>9, Landing


LEMMA StepForkSplit == IInv /\ ForkSplit => IInv'
<1> SUFFICES ASSUME IInv, ForkSplit PROVE IInv'
  OBVIOUS
<1> DEFINE step == "fork_split"
<1>1. /\ rq.panic = "none" /\ InFork(pc[current]) /\ UNCHANGED child
      /\ pc' = [pc EXCEPT ![current] = step]
  BY DEF ForkSplit, InFork
<1>2. PICK b \in Bonuses, toExpired \in BOOLEAN :
         Becomes(fork_split(Kernel, current, child[current], b, toExpired))
  BY DEF ForkSplit
<1>3. /\ Kernel.task = task /\ Good(Kernel, child, pc) /\ Sound(Kernel)
      /\ pc \in [AllTask -> KernelStep] /\ child \in [Task -> Task \cup {NoChild}]
      /\ NoNewFork(pc, pc) /\ Task \subseteq AllTask
  BY <1>1, Before
<1>4. /\ pc[current] # "user" /\ child[current] \in Task \ {current}
      /\ Kernel.task[child[current]].array = NULL
  BY <1>1, <1>3, InForkCall
<1>5. current \in RunnableIn(Kernel) /\ Kernel.rq.curr = current /\ current \in AllTask
  BY <1>1, <1>4, Before, InCall
<1>6. Reaches(Kernel, fork_split(Kernel, current, child[current], b, toExpired), {})
  BY <1>3, <1>4, <1>5, SplitReaches
<1>7. /\ pc' \in [AllTask -> KernelStep]
      /\ \A q \in AllTask : pc'[q] = IF q = current THEN step ELSE pc[q]
  BY <1>1, <1>3, <1>5 DEF KernelStep
<1>8. NoNewFork(pc, pc')
  <2>1. Idle \in AllTask /\ Idle # current
    BY <1>5, Constants DEF RunnableIn, AllTask
  <2> HIDE DEF step
  <2> QED BY <1>1, <1>3, <1>7, <2>1 DEF NoNewFork
<1>9. Lands(fork_split(Kernel, current, child[current], b, toExpired), child', pc')
  BY <1>1, <1>3, <1>6, <1>8, ReachesLands
<1> QED BY <1>1, <1>2, <1>3, <1>7, <1>9, Landing

LEMMA StepForkWake ==
    ASSUME NEW clone_parent \in BOOLEAN PROVE IInv /\ ForkWake(clone_parent) => IInv'
<1> SUFFICES ASSUME IInv, ForkWake(clone_parent) PROVE IInv'
  OBVIOUS
<1> DEFINE p == current
           c == child[p]
           ch2 == [child EXCEPT ![p] = NoChild]
           parent == parent_of(Kernel, p, clone_parent)
           u == linked(Kernel, c, parent)
           S0 == put_task(Kernel, c, u)
<1>1. /\ rq.panic = "none" /\ InFork(pc[p]) /\ child' = ch2 /\ ReturnsToUser
  BY DEF ForkWake, InFork
<1>2. PICK k \in forked_prios(task[c]) : Becomes(fork_wake(Kernel, p, c, clone_parent, k))
  BY DEF ForkWake
<1> DEFINE S2 == fork_wake(Kernel, p, c, clone_parent, k)
<1>3. /\ Kernel.task = task /\ Good(Kernel, child, pc) /\ Sound(Kernel)
      /\ CurrentIn(Kernel) /\ Family(Kernel, child) /\ KernelType(Kernel)
      /\ Steps(Kernel, child, pc) /\ child \in [Task -> Task \cup {NoChild}]
      /\ pc' \in [AllTask -> KernelStep] /\ NoNewFork(pc, pc')
      /\ pc \in [AllTask -> KernelStep]
  BY <1>1, Before DEF ReturnsToUser, Good
<1>4. /\ c \in Task \ {p} /\ c # Reaper /\ Kernel.rq.curr # c
      /\ task[c].array = NULL /\ Life(task[c]) = "alive"
      /\ \A q \in Task : task[q].p_opptr # c
      /\ ch2 \in [Task -> Task \cup {NoChild}] /\ ~Built(ch2, c)
      /\ \A q, r \in Task : ch2[q] \in Task /\ ch2[r] = ch2[q] => r = q
      /\ \A q \in Task : ch2[q] \in Task /\ ch2[q] # c => Built(child, ch2[q])
      /\ ~Built(child, p) /\ Alive(Kernel, p) /\ pc[p] # "user"
  BY <1>1, InForkCall
<1>5. p \in Task /\ p \in AllTask /\ Task \subseteq AllTask
  BY <1>1, <1>4, Before
<1>6. parent \in AllTask /\ parent # c
      /\ (parent \in Task => /\ task[parent].p_opptr # c
                             /\ Alive(Kernel, parent) /\ ~Built(child, parent))
  <2>1. task[p].p_opptr \in AllTask
    BY <1>3, <1>5, Fields
  <2>2. task[p].p_opptr \in Task => Alive(Kernel, task[p].p_opptr) /\ ~Built(child, task[p].p_opptr)
    BY <1>3, <1>5 DEF Family
  <2>3. parent = IF clone_parent THEN task[p].p_opptr ELSE p
    BY <1>3 DEF parent_of
  <2> HIDE DEF parent
  <2> QED BY <1>3, <1>4, <1>5, <2>1, <2>2, <2>3
<1>7. /\ Sound(S0)
      /\ u.p_opptr = parent /\ u.array = NULL /\ Life(u) = "alive"
      /\ Reaches(S0, S2, {c})
  <2>1. /\ k \in forked_prios(Kernel.task[c]) /\ Kernel.task[c].array = NULL
        /\ Life(Kernel.task[c]) = "alive"
        /\ parent \in Task => Kernel.task[parent].p_opptr # c
        /\ \A q \in Task : Kernel.task[q].p_opptr # c
    BY <1>3, <1>4, <1>6
  <2>2. parent \in AllTask /\ parent # c /\ c \in Task \ {p} /\ p \in Task /\ Sound(Kernel)
    BY <1>3, <1>4, <1>5, <1>6
  <2> HIDE DEF p, c, parent
  <2>3. parent = parent_of(Kernel, p, clone_parent)
    BY DEF parent
  <2> HIDE DEF u, S0
  <2>4. /\ Sound(put_task(Kernel, c, linked(Kernel, c, parent)))
        /\ linked(Kernel, c, parent).p_opptr = parent
        /\ linked(Kernel, c, parent).array = NULL
        /\ Life(linked(Kernel, c, parent)) = "alive"
        /\ Reaches(put_task(Kernel, c, linked(Kernel, c, parent)),
                   fork_wake(Kernel, p, c, clone_parent, k), {c})
    <3> HIDE DEF S2
    <3> QED BY <2>1, <2>2, <2>3, ForkWakes
  <2> QED BY <2>4 DEF u, S0
<1>8. u \in task_struct /\ u.prio \in Prio /\ u.state = "RUNNING"
  <2>1. Kernel.task[c] \in task_struct /\ Kernel.task[c].prio \in Prio
    BY <1>3, <1>4, <1>5, Fields
  <2> HIDE DEF c, parent
  <2> QED BY <1>6, <2>1 DEF linked, task_struct, State
<1> HIDE DEF u, S2
<1>9. /\ Sound(S0) /\ CurrentIn(S0) /\ Family(S0, ch2)
      /\ \A q \in AllTask : S0.task[q] = IF q = c THEN u ELSE Kernel.task[q]
  <2>1. /\ Kernel.task[c].array = NULL /\ (\A q \in Task : Kernel.task[q].p_opptr # c)
        /\ u.p_opptr # c /\ c \in Task /\ u.state # "UNUSED"
        /\ u.p_opptr \in Task => Alive(Kernel, u.p_opptr) /\ ~Built(child, u.p_opptr)
        /\ \A q, r \in Task : ch2[q] \in Task /\ ch2[r] = ch2[q] => r = q
        /\ \A q \in Task : ch2[q] \in Task /\ ch2[q] # c => Built(child, ch2[q])
        /\ Kernel.rq.curr # c /\ c # Reaper /\ u.array = NULL /\ Life(u) = "alive"
        /\ Sound(Kernel) /\ CurrentIn(Kernel) /\ Family(Kernel, child)
    BY <1>3, <1>4, <1>6, <1>7, <1>8
  <2> HIDE DEF p, c, ch2, parent, S0
  <2> QED BY <1>8, <2>1, Replace, SMTT(40) DEF S0
<1>10. Steps(S0, ch2, pc')
  <2>1. /\ \A q \in Task : InFork(pc'[q]) => q # p /\ InFork(pc[q])
        /\ pc'[Idle] = "user" /\ Built(child, c)
        /\ \A q \in Task : q # c => S0.task[q] = Kernel.task[q]
    BY <1>1, <1>3, <1>5, <1>9 DEF ReturnsToUser, InFork, NoNewFork, Built
  <2>2. c \in Task /\ ch2 = [child EXCEPT ![p] = NoChild] /\ c = child[p]
    BY <1>4
  <2> HIDE DEF S0, p, c, ch2
  <2>3. \A steps : /\ steps[Idle] = "user"
                   /\ \A q \in Task : InFork(steps[q]) => q # p /\ InFork(pc[q])
                   => Steps(S0, ch2, steps)
    BY <1>3, <1>5, <2>1, <2>2, ForkKept
  <2> QED BY <2>1, <2>3
<1>11. Good(S0, ch2, pc')
  BY <1>9, <1>10 DEF Good
<1>12. Alive(S0, c)
  BY <1>4, <1>5, <1>7, <1>9 DEF Alive
<1>13. NoNewFork(pc', pc')
  BY <1>3 DEF NoNewFork
<1> HIDE DEF S0, c, p, ch2
<1>14. Lands(S2, ch2, pc')
  BY <1>4, <1>7, <1>11, <1>12, <1>13, ReachesLands
<1> QED BY <1>1, <1>2, <1>3, <1>4, <1>14, Landing DEF S2


LEMMA StepExit == IInv /\ Exit => IInv'
<1> SUFFICES ASSUME IInv, Exit PROVE IInv'
  OBVIOUS
<1> DEFINE p == current
           zombie == "ZOMBIE"
           dead(q) == [task[q] EXCEPT !.state = zombie]
           orphan(q) == [task[q] EXCEPT !.p_opptr = Reaper]
           adopted(q) == q # Idle /\ task[q].state # "UNUSED" /\ task[q].p_opptr = p
           S2 == [task |-> task', rq |-> rq]
<1>1. /\ rq.panic = "none" /\ pc[p] # "user" /\ pc[p] = "kernel" /\ p # Reaper
      /\ UNCHANGED <<rq, pc, child>>
      /\ task' = [q \in AllTask |-> IF q = p THEN dead(q) ELSE IF adopted(q) THEN orphan(q)
                                    ELSE task[q]]
  BY DEF Exit, InKernel
<1>2. /\ Kernel.task = task /\ Kernel.rq = rq /\ Good(Kernel, child, pc) /\ Sound(Kernel)
      /\ CurrentIn(Kernel) /\ Task \subseteq AllTask /\ KernelType(Kernel)
      /\ pc \in [AllTask -> KernelStep] /\ child \in [Task -> Task \cup {NoChild}]
      /\ NoNewFork(pc, pc)
  BY <1>1, Before
<1>3. /\ p \in Task /\ p # Idle /\ p \in AllTask /\ Family(Kernel, child)
      /\ Steps(Kernel, child, pc) /\ Kernel.rq.curr = p /\ task[p].array # NULL
  BY <1>1, InCall
<1>4. /\ \A q \in AllTask : task[q] \in task_struct
      /\ \A q \in Task : task[q].prio \in Prio
      /\ Reaper \in Task /\ Reaper \in AllTask /\ Idle \in AllTask /\ Idle \notin Task
  BY <1>2, Fields, Constants
<1>5. /\ \A q \in AllTask : /\ dead(q) \in task_struct /\ dead(q).state = "ZOMBIE"
                            /\ dead(q).p_opptr = task[q].p_opptr /\ dead(q).array = task[q].array
                            /\ dead(q).prio = task[q].prio
                            /\ dead(q).justGotForked = task[q].justGotForked
      /\ \A q \in AllTask : /\ orphan(q) \in task_struct /\ orphan(q).state = task[q].state
                            /\ orphan(q).p_opptr = Reaper /\ orphan(q).array = task[q].array
                            /\ orphan(q).prio = task[q].prio
                            /\ orphan(q).justGotForked = task[q].justGotForked
  BY <1>4 DEF task_struct, State
<1> HIDE DEF dead, orphan
<1>6. /\ \A q \in AllTask : /\ task'[q] \in task_struct
                            /\ task'[q].array = task[q].array /\ task'[q].prio = task[q].prio
                            /\ task'[q].justGotForked = task[q].justGotForked
                            /\ task'[q].state = IF q = p THEN "ZOMBIE" ELSE task[q].state
                            /\ task'[q].p_opptr = IF q # p /\ adopted(q) THEN Reaper
                                                  ELSE task[q].p_opptr
      /\ task' \in Tasks
  BY <1>1, <1>4, <1>5 DEF Tasks
<1>7. S2.task = task' /\ S2.rq = rq
  OBVIOUS
<1> HIDE DEF S2
<1>8. KernelType(S2)
  BY <1>2, <1>4, <1>6, <1>7 DEF KernelType
<1>9. OnBut(S2, {}) = OnBut(Kernel, {}) /\ At(S2) = At(Kernel) /\ RunnableIn(S2) = RunnableIn(Kernel)
  BY <1>2, <1>6, <1>7 DEF OnBut, At, RunnableIn
<1>10. Filed(S2, {})
  BY <1>2, <1>7, <1>8, <1>9 DEF Sound, Filed
\* Who had a parent keeps it, or gets Reaper instead of p.
<1>11. \A q \in Task : task[q].p_opptr \in Task => task[q].state # "UNUSED"
  BY <1>2, <1>3, <1>4 DEF Family
<1>12. task[p].p_opptr # p /\ \A q \in Task : task'[q].p_opptr =
          IF task[q].p_opptr = p THEN Reaper ELSE task[q].p_opptr
  <2>1. task[p].p_opptr # p
    BY <1>2, <1>3 DEF Sound, Kin
  <2> QED BY <1>2, <1>3, <1>4, <1>6, <1>11, <2>1
<1>13. task'[Reaper].p_opptr = Idle
  BY <1>2, <1>3, <1>4, <1>12 DEF Family
<1>14. Kin(S2)
  <2>1. ~task'[Idle].justGotForked
    BY <1>2, <1>4, <1>6 DEF Sound, Kin
  <2>2. ASSUME NEW q \in Task PROVE task'[q].p_opptr # q
    BY <1>2, <1>4, <1>12, <1>13 DEF Sound, Kin
  <2>3. ASSUME NEW q \in Task, task'[q].p_opptr \in Task
        PROVE  task'[task'[q].p_opptr].p_opptr # q
    <3>1. CASE task'[q].p_opptr = Reaper
      BY <1>4, <1>13, <3>1
    <3>2. CASE task'[q].p_opptr # Reaper
      <4>1. task'[q].p_opptr = task[q].p_opptr
        BY <1>12, <3>2
      <4>2. task[task[q].p_opptr].p_opptr # q
        BY <1>2, <2>3, <4>1 DEF Sound, Kin
      <4>3. q # Reaper
        BY <1>4, <1>13, <2>3
      <4> QED BY <1>12, <2>3, <4>1, <4>2, <4>3
    <3> QED BY <3>1, <3>2
  <2> QED BY <1>7, <2>1, <2>2, <2>3 DEF Kin
<1>15. Sound(S2) /\ CurrentIn(S2)
  BY <1>2, <1>3, <1>4, <1>6, <1>7, <1>9, <1>10, <1>14 DEF Sound, CurrentIn
<1>16. \A q \in Task : q # p => (Alive(S2, q) <=> Alive(Kernel, q))
  BY <1>2, <1>6, <1>7 DEF Alive, Life
<1>17. Family(S2, child)
  <2>1. \A q \in Task : child[q] \in Task => /\ S2.task[child[q]].array = NULL
                                             /\ Alive(S2, child[q])
                                             /\ \A r \in Task : child[r] = child[q] => r = q
    BY <1>2, <1>3, <1>6, <1>7, <1>16 DEF Family
  <2>2. \A q \in Task : S2.task[q].p_opptr \in Task =>
                           Alive(S2, S2.task[q].p_opptr) /\ ~Built(child, S2.task[q].p_opptr)
    <3> SUFFICES ASSUME NEW q \in Task, task'[q].p_opptr \in Task
                 PROVE  Alive(S2, task'[q].p_opptr) /\ ~Built(child, task'[q].p_opptr)
      BY <1>7
    <3>1. CASE task[q].p_opptr = p
      BY <1>1, <1>3, <1>4, <1>12, <1>16, <3>1 DEF Family
    <3>2. CASE task[q].p_opptr # p
      BY <1>2, <1>3, <1>12, <1>16, <3>2 DEF Family
    <3> QED BY <3>1, <3>2
  <2>3. \A q \in Task : S2.task[q].state = "UNUSED" =>
                           S2.task[q].array = NULL /\ S2.task[q].p_opptr = Idle
    BY <1>2, <1>3, <1>4, <1>6, <1>7, <1>12 DEF Family
  <2>4. \A q \in Task : S2.task[q].state = "ZOMBIE" /\ q # S2.rq.curr => S2.task[q].array = NULL
    BY <1>2, <1>3, <1>6, <1>7 DEF Family
  <2>5. Alive(S2, Reaper) /\ S2.task[Reaper].p_opptr = Idle /\ ~Built(child, Reaper)
    BY <1>1, <1>3, <1>4, <1>7, <1>13, <1>16 DEF Family
  <2> QED BY <2>1, <2>2, <2>3, <2>4, <2>5 DEF Family
<1>18. Steps(S2, child, pc)
  BY <1>1, <1>3, <1>16 DEF Steps, InFork
<1>19. Lands(S2, child', pc') /\ Becomes(S2)
  BY <1>1, <1>7, <1>8, <1>15, <1>17, <1>18 DEF Lands, Good, Becomes
<1> QED BY <1>1, <1>2, <1>19, Landing


LEMMA SliceRange ==
    ASSUME NEW m \in Nat, NEW d \in Nat, d > 0, NEW x \in 0 .. d
    PROVE  (m * x) \div d \in 0 .. m
<1> DEFINE n == m * x
           q == n \div d
<1>1. n \in Nat /\ m * d \in Nat
  OBVIOUS
<1>2. n <= m * d
  <2>1. d - x \in Nat /\ m * (d - x) \in Nat
    OBVIOUS
  <2>2. m * (d - x) = m * d - m * x
    OBVIOUS
  <2> QED BY <1>1, <2>1, <2>2
<1> HIDE DEF n
<1>3. q \in Nat /\ q * d <= n
  BY <1>1
<1> HIDE DEF q
<1>4. CASE q > m
  <2>1. q - m - 1 \in Nat
    BY <1>3, <1>4
  <2>2. (q - m - 1) * d \in Nat
    BY <2>1
  <2>3. (q - m - 1) * d = q * d - m * d - d
    BY <1>3
  <2>4. q * d \in Int
    BY <1>3
  <2> QED BY <1>1, <1>2, <1>3, <2>2, <2>3, <2>4
<1> QED BY <1>3, <1>4 DEF q, n

LEMMA BootType ==
    ASSUME NEW p \in Task
    PROVE  LET t == BootTask(p)
           IN  /\ t \in task_struct /\ t.prio = DefaultPrio /\ t.array = "array0"
               /\ t.state = "RUNNING" /\ t.p_opptr = IF p = Reaper THEN Idle ELSE Reaper
               /\ ~t.justGotForked
<1> DEFINE slice == TASK_TIMESLICE(UnusedTask)
           parent == IF p = Reaper THEN Idle ELSE Reaper
           a == "array0"
           running == "RUNNING"
<1>1. slice \in 0 .. UINT - 1
  <2> DEFINE m == MAX_TIMESLICE - MIN_TIMESLICE
             d == MAX_PRIO - MAX_RT_PRIO - 1
             x == MAX_PRIO - 1 - DefaultPrio
  <2>1. m \in Nat /\ d \in Nat /\ d > 0 /\ x \in 0 .. d
    BY SchedAssumption, MaxPrioAssumption
  <2>2. (m * x) \div d \in 0 .. m
    <3> HIDE DEF m, d, x
    <3> QED BY <2>1, SliceRange
  <2>3. slice = MIN_TIMESLICE + (m * x) \div d
    BY DEF TASK_TIMESLICE, UnusedTask
  <2> DEFINE y == (m * x) \div d
  <2> HIDE DEF y, slice
  <2> QED BY <2>2, <2>3, SchedAssumption DEF y
<1>2. parent \in AllTask
  BY Constants DEF AllTask
<1>3. a \in ArrayId \cup {NULL} /\ running \in State
  BY Nulls DEF State
<1>4. UnusedTask \in task_struct /\ UnusedTask.prio = DefaultPrio /\ ~UnusedTask.justGotForked
  BY UnusedType DEF UnusedTask
<1>5. BootTask(p) = [UnusedTask EXCEPT !.state = running, !.array = a, !.time_slice = slice,
                                       !.p_opptr = parent]
  BY DEF BootTask
<1> HIDE DEF slice, parent, a, running
<1>6. LET t == [UnusedTask EXCEPT !.state = running, !.array = a, !.time_slice = slice,
                                  !.p_opptr = parent]
      IN  /\ t \in task_struct /\ t.prio = DefaultPrio /\ t.array = a
          /\ t.state = running /\ t.p_opptr = parent /\ ~t.justGotForked
  BY <1>1, <1>2, <1>3, <1>4 DEF task_struct
<1> QED BY <1>5, <1>6 DEF parent, a, running

LEMMA IdleType ==
    /\ IdleTask \in task_struct /\ IdleTask.array = NULL /\ IdleTask.state = "RUNNING"
    /\ IdleTask.p_opptr = Idle /\ ~IdleTask.justGotForked
<1>1. MAX_PRIO \in 0 .. MAX_PRIO /\ "RUNNING" \in State
  BY Constants DEF State
<1>2. UnusedTask \in task_struct /\ UnusedTask.array = NULL /\ UnusedTask.p_opptr = Idle
      /\ ~UnusedTask.justGotForked
  BY UnusedType DEF UnusedTask
<1>3. IdleTask = [UnusedTask EXCEPT !.state = "RUNNING", !.prio = MAX_PRIO, !.need_resched = TRUE]
  BY DEF IdleTask
<1> DEFINE running == "RUNNING"
<1>4. running \in State
  BY <1>1
<1> HIDE DEF running
<1>5. LET t == [UnusedTask EXCEPT !.state = running, !.prio = MAX_PRIO, !.need_resched = TRUE]
      IN  /\ t \in task_struct /\ t.array = NULL /\ t.state = running
          /\ t.p_opptr = Idle /\ ~t.justGotForked
  BY <1>1, <1>2, <1>4 DEF task_struct
<1> QED BY <1>3, <1>5 DEF running


-----------------------------------------------------------------------------
(* The theorems.                                                           *)

LEMMA InitIInv == Init => IInv
<1> SUFFICES ASSUME Init PROVE IInv
  OBVIOUS
<1>1. /\ task = [p \in AllTask |-> IF p = Idle THEN IdleTask
                                   ELSE IF p \in InitTasks THEN BootTask(p) ELSE UnusedTask]
      /\ pc = [p \in AllTask |-> "user"]
      /\ child = [p \in Task |-> NoChild]
  BY DEF Init
<1> DEFINE n == Cardinality(InitTasks)
<1>2. PICK q \in BootOrders :
        rq = [curr |-> Idle, nr_running |-> n, nr_uninterruptible |-> 0,
              active |-> "array0", misfiled |-> FALSE, panic |-> "none",
              arrays |-> [a \in ArrayId |->
                  IF a = "array0" THEN [nr_active |-> n, bitmap |-> {DefaultPrio},
                                        queue |-> [EmptyArray.queue EXCEPT ![DefaultPrio] = q]]
                  ELSE EmptyArray]]
  BY DEF Init
<1>3. /\ Idle \in AllTask /\ Idle \notin Task /\ Task \subseteq AllTask /\ NoChild \notin Task
      /\ DefaultPrio \in Prio /\ Reaper \in InitTasks /\ InitTasks \subseteq Task
      /\ AllTask = Task \cup {Idle}
  BY Constants, SchedAssumption DEF AllTask
<1>4. n \in Nat /\ n > 0
  <2>1. IsFiniteSet(InitTasks)
    BY <1>3, TaskAssumption, FS_Subset
  <2> QED BY <1>3, <2>1, FS_CardinalityType, FS_EmptySet
<1>5. /\ q \in [1 .. n -> InitTasks] /\ IsInjective(q)
      /\ \A p \in InitTasks : InList(q, p)
  BY DEF BootOrders
<1> HIDE DEF n
<1>6. /\ q \in Seq(Task) /\ Len(q) = n /\ q # << >>
      /\ \A p \in Task : InList(q, p) <=> p \in InitTasks
  <2>1. q \in Seq(Task) /\ Len(q) = n
    BY <1>3, <1>4, <1>5
  <2>2. q # << >>
    BY <1>4, <2>1
  <2>3. \A i \in 1 .. n : q[i] \in InitTasks
    BY <1>5
  <2> QED BY <1>5, <2>1, <2>2, <2>3 DEF InList
\* The tasks.
<1>7. /\ \A p \in InitTasks : task[p] = BootTask(p)
      /\ \A p \in Task \ InitTasks : task[p] = UnusedTask
      /\ task[Idle] = IdleTask
  BY <1>1, <1>3
<1>8. /\ \A p \in InitTasks : /\ task[p] \in task_struct /\ task[p].prio = DefaultPrio
                              /\ task[p].array = "array0" /\ task[p].state = "RUNNING"
                              /\ task[p].p_opptr = IF p = Reaper THEN Idle ELSE Reaper
      /\ \A p \in Task \ InitTasks : /\ task[p] \in task_struct /\ task[p].prio \in Prio
                                     /\ task[p].array = NULL /\ task[p].state = "UNUSED"
                                     /\ task[p].p_opptr = Idle
      /\ task[Idle] \in task_struct /\ task[Idle].array = NULL /\ task[Idle].state = "RUNNING"
      /\ ~task[Idle].justGotForked
  BY <1>3, <1>7, BootType, UnusedType, IdleType
<1>9. task \in Tasks /\ \A p \in Task : task[p].prio \in Prio
  BY <1>1, <1>3, <1>8 DEF Tasks
\* The runqueue.
<1> DEFINE empty == EmptyArray
           lists == [EmptyArray.queue EXCEPT ![DefaultPrio] = q]
           full == [nr_active |-> n, bitmap |-> {DefaultPrio}, queue |-> lists]
           arrays == [a \in ArrayId |-> IF a = "array0" THEN full ELSE empty]
<1>10. /\ empty \in prio_array /\ empty.nr_active = 0 /\ empty.bitmap = {}
       /\ \A k \in Prio : empty.queue[k] = << >>
  BY DEF EmptyArray, prio_array
<1>11. /\ lists \in [Prio -> Seq(Task)]
       /\ \A k \in Prio : lists[k] = IF k = DefaultPrio THEN q ELSE << >>
  <2> DEFINE f == EmptyArray.queue
  <2>1. f = [k \in Prio |-> << >>] /\ << >> \in Seq(Task)
    BY DEF EmptyArray
  <2> HIDE DEF f
  <2>2. f \in [Prio -> Seq(Task)] /\ \A k \in Prio : f[k] = << >>
    BY <2>1
  <2>3. lists = [f EXCEPT ![DefaultPrio] = q]
    BY DEF f
  <2> HIDE DEF lists
  <2> QED BY <1>3, <1>6, <2>2, <2>3
<1> HIDE DEF empty, lists
<1>12. full \in prio_array /\ full.nr_active = n /\ full.bitmap = {DefaultPrio} /\ full.queue = lists
  BY <1>3, <1>4, <1>11 DEF prio_array
<1> HIDE DEF full
<1>13. /\ arrays \in [ArrayId -> prio_array]
       /\ arrays["array0"] = full
       /\ \A a \in ArrayId : a # "array0" => arrays[a] = empty
  BY <1>10, <1>12, Nulls
<1>14. rq = [curr |-> Idle, nr_running |-> n, nr_uninterruptible |-> 0,
             active |-> "array0", misfiled |-> FALSE, panic |-> "none", arrays |-> arrays]
  BY <1>2 DEF arrays, full, lists, empty
<1> HIDE DEF arrays
<1>15. /\ rq \in runqueue /\ rq.curr = Idle /\ rq.nr_running = n /\ rq.panic = "none"
       /\ rq.arrays = arrays
  BY <1>3, <1>4, <1>13, <1>14 DEF runqueue
<1>16. Kernel.task = task /\ Kernel.rq = rq
  BY DEF Kernel
<1>17. KernelType(Kernel)
  BY <1>9, <1>15, <1>16 DEF KernelType
\* They agree.
<1> DEFINE on == OnBut(Kernel, {})
           at == At(Kernel)
<1>18. /\ \A p \in InitTasks : on[p] = "array0" /\ at[p] = DefaultPrio
       /\ \A p \in Task \ InitTasks : on[p] = NULL
  BY <1>3, <1>8, <1>16 DEF OnBut, At
<1> HIDE DEF on, at
<1>19. ListsExact(on, at, arrays)
  <2> SUFFICES ASSUME NEW a \in ArrayId, NEW k \in Prio
               PROVE  /\ IsInjective(arrays[a].queue[k])
                      /\ \A p \in Task : InList(arrays[a].queue[k], p) <=> on[p] = a /\ at[p] = k
    BY DEF ListsExact
  <2>1. CASE a = "array0" /\ k = DefaultPrio
    BY <1>5, <1>6, <1>11, <1>12, <1>13, <1>18, <2>1, Nulls
  <2>2. CASE ~(a = "array0" /\ k = DefaultPrio)
    <3>1. arrays[a].queue[k] = << >>
      BY <1>10, <1>11, <1>12, <1>13, <2>2
    <3>2. IsInjective(<< >>) /\ \A p \in Task : ~InList(<< >>, p)
      BY DEF IsInjective, InList
    <3>3. \A p \in Task : ~(on[p] = a /\ at[p] = k)
      BY <1>18, <2>2, Nulls
    <3> QED BY <3>1, <3>2, <3>3
  <2> QED BY <2>1, <2>2
<1>20. BitmapsExact(arrays)
  <2> SUFFICES ASSUME NEW a \in ArrayId, NEW k \in Prio
               PROVE  k \in arrays[a].bitmap <=> arrays[a].queue[k] # << >>
    BY DEF BitmapsExact
  <2>1. CASE a = "array0"
    BY <1>6, <1>11, <1>12, <1>13, <2>1
  <2>2. CASE a # "array0"
    BY <1>10, <1>13, <2>2
  <2> QED BY <2>1, <2>2
<1>21. CountersExact(on, arrays)
  <2> SUFFICES ASSUME NEW a \in ArrayId
               PROVE  arrays[a].nr_active = Cardinality(OnArray(on, a))
    BY DEF CountersExact
  <2>1. CASE a = "array0"
    <3>1. OnArray(on, a) = InitTasks
      BY <1>3, <1>18, <2>1, Nulls DEF OnArray
    <3> QED BY <1>12, <1>13, <2>1, <3>1 DEF n
  <2>2. CASE a # "array0"
    <3>1. OnArray(on, a) = {}
      BY <1>18, <2>2, Nulls DEF OnArray
    <3> QED BY <1>10, <1>13, <2>2, <3>1, FS_EmptySet
  <2> QED BY <2>1, <2>2
<1>22. RunnableIn(Kernel) = InitTasks
  BY <1>3, <1>8, <1>16, Nulls DEF RunnableIn
<1>23. Kin(Kernel)
  <2>1. \A p \in Task : task[p].p_opptr \in Task => task[p].p_opptr = Reaper /\ p # Reaper
    BY <1>3, <1>8
  <2>2. task[Reaper].p_opptr = Idle
    BY <1>3, <1>8
  <2>3. \A p \in Task : task[p].p_opptr # p
    BY <2>1
  <2> QED BY <1>3, <1>8, <1>16, <2>1, <2>2, <2>3 DEF Kin
<1>24. Sound(Kernel)
  BY <1>8, <1>15, <1>16, <1>17, <1>19, <1>20, <1>21, <1>22, <1>23 DEF Sound, Filed, on, at, n
<1>25. \A p \in Task : ~Built(child, p)
  BY <1>1, <1>3 DEF Built
<1>26. Family(Kernel, child)
  <2>1. \A p \in Task : child[p] \notin Task
    BY <1>1, <1>3
  <2>2. \A p \in Task : task[p].p_opptr \in Task => task[p].p_opptr = Reaper
    BY <1>3, <1>8
  <2>3. Alive(Kernel, Reaper) /\ task[Reaper].p_opptr = Idle
    BY <1>3, <1>8, <1>16 DEF Alive, Life
  <2>4. \A p \in Task : /\ task[p].state = "UNUSED" => task[p].array = NULL /\ task[p].p_opptr = Idle
                        /\ task[p].state # "ZOMBIE"
    BY <1>3, <1>8
  <2> QED BY <1>3, <1>16, <1>25, <2>1, <2>2, <2>3, <2>4 DEF Family
<1>27. Steps(Kernel, child, pc) /\ CurrentIn(Kernel)
  BY <1>1, <1>3, <1>15, <1>16 DEF Steps, InFork, CurrentIn
<1>28. TypeOK
  BY <1>1, <1>9, <1>15 DEF TypeOK, Tasks, KernelStep
<1> QED BY <1>15, <1>17, <1>24, <1>26, <1>27, <1>28 DEF IInv, Good


LEMMA StepNext == IInv /\ Next => IInv'
<1> SUFFICES ASSUME IInv, Next PROVE IInv'
  OBVIOUS
<1>1. CASE Tick
  BY <1>1, StepTick
<1>2. CASE Reschedule
  BY <1>2, StepReschedule
<1>3. CASE SysEnter
  BY <1>3, StepSysEnter
<1>4. CASE SysReturn
  BY <1>4, StepSysReturn
<1>5. CASE Yield
  BY <1>5, StepYield
<1>6. CASE \E s \in {"RUNNING", "INTERRUPTIBLE", "UNINTERRUPTIBLE"} : SetState(s)
  <2>1. {"RUNNING", "INTERRUPTIBLE", "UNINTERRUPTIBLE"} = State \ {"ZOMBIE", "UNUSED"}
    BY DEF State
  <2> QED BY <1>6, <2>1, StepSetState
<1>7. ASSUME NEW p \in Task,
             \/ Wake(p) \/ Reap(p) \/ ForkCopy(p)
             \/ \E ms \in ReqTimes : RenewShort(p, ms) \/ MakeShort(p, ms)
             \/ \E k \in UserPrio : SetNice(p, k)
             \/ SetNormal(p, "OTHER", DefaultPrio)
             \/ \E policy \in {"FIFO", "RR"}, k \in 0 .. MAX_RT_PRIO - 2 : SetNormal(p, policy, k)
      PROVE  IInv'
  <2>1. CASE Wake(p)
    BY <2>1, StepWake
  <2>2. CASE Reap(p)
    BY <2>2, StepReap
  <2>3. CASE ForkCopy(p)
    BY <2>3, StepForkCopy
  <2>4. CASE \E ms \in ReqTimes : RenewShort(p, ms) \/ MakeShort(p, ms)
    BY <2>4, StepRenewShort, StepMakeShort
  <2>5. CASE \E k \in UserPrio : SetNice(p, k)
    BY <2>5, StepSetNice
  <2>6. CASE SetNormal(p, "OTHER", DefaultPrio)
    BY <2>6, StepSetNormal, Constants DEF Policy
  <2>7. ASSUME NEW policy \in {"FIFO", "RR"}, NEW k \in 0 .. MAX_RT_PRIO - 2,
               SetNormal(p, policy, k)
        PROVE  IInv'
    <3>1. policy \in Policy /\ k \in Prio
      BY Constants DEF Policy, Prio
    <3> QED BY <2>7, <3>1, StepSetNormal
  <2> QED BY <1>7, <2>1, <2>2, <2>3, <2>4, <2>5, <2>6, <2>7
<1>8. CASE ForkFail
  BY <1>8, StepForkFail
<1>9. CASE ForkSplit
  BY <1>9, StepForkSplit
<1>10. CASE \E cp \in BOOLEAN : ForkWake(cp)
  BY <1>10, StepForkWake
<1>11. CASE Exit
  BY <1>11, StepExit
<1> QED BY <1>1, <1>2, <1>3, <1>4, <1>5, <1>6, <1>7, <1>8, <1>9, <1>10, <1>11 DEF Next

LEMMA StepStutter == IInv /\ UNCHANGED vars => IInv'
<1> SUFFICES ASSUME IInv, UNCHANGED vars PROVE IInv'
  OBVIOUS
<1>1. task' = task /\ rq' = rq /\ pc' = pc /\ child' = child
  BY DEF vars
<1>2. Kernel' = Kernel /\ TypeOK'
  BY <1>1 DEF Kernel, IInv, TypeOK
<1>3. Good(Kernel, child, pc)' = Good(Kernel, child, pc)
  BY <1>1, <1>2
<1>4. KernelType(Kernel)' /\ (Stopped(Kernel)' = Stopped(Kernel))
  BY <1>2 DEF IInv
<1> QED BY <1>1, <1>2, <1>3, <1>4 DEF IInv

\* The invariant is inductive.
LEMMA Inductive == Spec => []IInv
<1>1. Init => IInv
  BY InitIInv
<1>2. IInv /\ [Next]_vars => IInv'
  BY StepNext, StepStutter
<1> QED BY <1>1, <1>2, PTL DEF Spec

(***************************************************************************)
(* Every variable keeps its type: in particular no priority leaves the     *)
(* bitmap and no slice leaves the range of an unsigned int.                *)
(***************************************************************************)
THEOREM TypeCorrect == Spec => []TypeOK
<1>1. IInv => TypeOK
  BY DEF IInv
<1> QED BY <1>1, Inductive, PTL

(***************************************************************************)
(* The lists, bitmaps and counters of the four arrays agree with each      *)
(* other and with the task_structs after every system call and interrupt,  *)
(* as long as no dequeue_task() named an array its task was not on.        *)
(***************************************************************************)
THEOREM RunqueueCorrect == Spec => []RunqueueExact
<1>1. IInv => RunqueueExact
  <2> SUFFICES ASSUME IInv, rq.panic = "none", ~rq.misfiled
               PROVE  /\ ArraysExact(On(Kernel), At(Kernel), rq.arrays)
                      /\ rq.nr_running = Cardinality(Runnable)
    BY DEF RunqueueExact
  <2>1. Sound(Kernel) /\ Kernel.task = task /\ Kernel.rq = rq
    BY Before
  <2>2. OnBut(Kernel, {}) = On(Kernel) /\ RunnableIn(Kernel) = Runnable
    BY <2>1 DEF OnBut, On, RunnableIn, Runnable
  <2> QED BY <2>1, <2>2 DEF Sound, Filed, ArraysExact
<1> QED BY <1>1, Inductive, PTL

(***************************************************************************)
(* schedule() takes a list entry that is no task only after a task was     *)
(* misfiled.                                                               *)
(***************************************************************************)
THEOREM PickCorrect == Spec => []PickIsATask
<1>1. IInv => PickIsATask
  BY DEF IInv, Stopped, Kernel, PickIsATask
<1> QED BY <1>1, Inductive, PTL

(***************************************************************************)
(* The current task is on the runqueue after every system call and         *)
(* interrupt, even after a task was misfiled.                              *)
(***************************************************************************)
THEOREM CurrentCorrect == Spec => []CurrentOnRunqueue
<1>1. IInv => CurrentOnRunqueue
  <2> SUFFICES ASSUME IInv, rq.panic = "none", current # Idle PROVE current \in Runnable
    BY DEF CurrentOnRunqueue
  <2>1. CurrentIn(Kernel) /\ Kernel.rq = rq /\ Kernel.task = task
    BY Before
  <2> QED BY <2>1 DEF CurrentIn, RunnableIn, Runnable, current
<1> QED BY <1>1, Inductive, PTL

(***************************************************************************)
(* A task that is not the current one and has exited, or does not exist,   *)
(* is on no list.                                                          *)
(***************************************************************************)
THEOREM DeadUnlinked == Spec => []DeadNotLinked
<1>1. IInv => DeadNotLinked
  <2> SUFFICES ASSUME IInv, rq.panic = "none", NEW p \in Runnable \ {current}
               PROVE  task[p].state \notin {"ZOMBIE", "UNUSED"}
    BY DEF DeadNotLinked
  <2>1. Family(Kernel, child) /\ Kernel.rq = rq /\ Kernel.task = task
    BY Before DEF Good
  <2>2. p \in Task /\ task[p].array # NULL /\ p # Kernel.rq.curr
    BY <2>1 DEF Runnable, current
  <2> QED BY <2>1, <2>2 DEF Family
<1> QED BY <1>1, Inductive, PTL

-----------------------------------------------------------------------------
(***************************************************************************)
(* Theorems about Sched that are about the policy alone: who is in which   *)
(* class, with which nice value and how much time.  They need nothing of   *)
(* the lists, so the kernel functions are described by what they do to     *)
(* the account of a task, the fields of its task_struct the policy is made *)
(* of, whether or not the lists are in order.                              *)
(***************************************************************************)

Account(t) ==
    <<t.state = "UNUSED", t.policy, t.iAmOverdue, t.static_prio, t.overdue_static_prio,
      t.iWasShort, t.requestedTime, t.time_slice, t.first_time_slice>>

IsStruct(t) ==
    DOMAIN t = {"state", "policy", "prio", "static_prio", "array", "time_slice",
                "first_time_slice", "need_resched", "p_opptr", "requestedTime", "iAmOverdue",
                "iWasShort", "overdue_static_prio", "justGotForked"}

IsRunqueue(r) ==
    DOMAIN r = {"curr", "nr_running", "nr_uninterruptible", "active", "arrays", "misfiled",
                "panic"}

\* S is made of records with all their fields.
Records(S) ==
    /\ DOMAIN S.task = AllTask
    /\ \A q \in AllTask : IsStruct(S.task[q])
    /\ IsRunqueue(S.rq)

\* Every account is as before.
Keeps(S, S2) ==
    /\ Records(S2) /\ S2.rq.panic \in {S.rq.panic, "list"}
    /\ \A q \in AllTask : Account(S2.task[q]) = Account(S.task[q])

Still(S, S2) == Keeps(S, S2) /\ S2.rq.curr = S.rq.curr

\* The account of p becomes that of t; the others are as before.
Changes(S, S2, p, t) ==
    /\ Records(S2) /\ S2.rq.panic \in {S.rq.panic, "list"} /\ S2.rq.curr = S.rq.curr
    /\ \A q \in AllTask : Account(S2.task[q]) = IF q = p THEN Account(t) ELSE Account(S.task[q])

\* The type of the kernel's state gives its records their fields.
LEMMA KernelRecords == ASSUME NEW S, KernelType(S) PROVE Records(S)
<1>1. S.task \in [AllTask -> task_struct] /\ S.rq \in runqueue
  BY DEF KernelType, Tasks
<1>2. \A t \in task_struct : IsStruct(t)
  BY DEF task_struct, IsStruct
<1>3. \A r \in runqueue : IsRunqueue(r)
  BY DEF runqueue, IsRunqueue
<1> QED BY <1>1, <1>2, <1>3 DEF Records

LEMMA StillRefl == ASSUME NEW S, Records(S) PROVE Still(S, S)
  BY DEF Still, Keeps

LEMMA StillTrans ==
    ASSUME NEW S, NEW S1, NEW S2, Still(S, S1), Still(S1, S2)
    PROVE  Still(S, S2)
  BY DEF Still, Keeps

\* A change, and what comes before and after it.
LEMMA ChangesTrans ==
    ASSUME NEW S, NEW S1, NEW S2, NEW S3, NEW p, NEW t,
           Still(S, S1), Changes(S1, S2, p, t), Still(S2, S3)
    PROVE  Changes(S, S3, p, t)
  BY DEF Still, Keeps, Changes

LEMMA StillChanges ==
    ASSUME NEW S, NEW S2, NEW p, NEW t
    PROVE  /\ Account(t) = Account(S.task[p]) => (Still(S, S2) <=> Changes(S, S2, p, t))
  BY DEF Still, Keeps, Changes

\* One task_struct is replaced.
LEMMA ChangesPut ==
    ASSUME NEW S, Records(S), NEW p, NEW t, p \in AllTask => IsStruct(t)
    PROVE  LET S2 == put_task(S, p, t)
           IN  /\ Changes(S, S2, p, t)
               /\ S2.rq = S.rq
               /\ \A q \in AllTask : S2.task[q] = IF q = p THEN t ELSE S.task[q]
<1> DEFINE S2 == put_task(S, p, t)
<1>1. S2.rq = S.rq /\ S2.task = [S.task EXCEPT ![p] = t]
  BY DEF put_task
<1> HIDE DEF S2
<1>2. /\ DOMAIN S2.task = AllTask
      /\ \A q \in AllTask : S2.task[q] = IF q = p THEN t ELSE S.task[q]
  BY <1>1 DEF Records
<1>3. Records(S2)
  BY <1>1, <1>2 DEF Records
<1> QED BY <1>1, <1>2, <1>3 DEF Changes, S2

LEMMA StillRq ==
    ASSUME NEW S, Records(S), NEW r, IsRunqueue(r), r.curr = S.rq.curr,
           r.panic \in {S.rq.panic, "list"}
    PROVE  Still(S, put_rq(S, r))
<1>1. put_rq(S, r).rq = r /\ put_rq(S, r).task = S.task
  BY DEF put_rq
<1> QED BY <1>1 DEF Still, Keeps, Records

\* The changes of a task_struct that its account does not see.
LEMMA NoAccount ==
    ASSUME NEW t, IsStruct(t), NEW a
    PROVE  /\ LET u == [t EXCEPT !.array = a] IN IsStruct(u) /\ Account(u) = Account(t)
           /\ LET u == [t EXCEPT !.prio = a] IN IsStruct(u) /\ Account(u) = Account(t)
           /\ LET u == [t EXCEPT !.need_resched = a] IN IsStruct(u) /\ Account(u) = Account(t)
           /\ LET u == [t EXCEPT !.justGotForked = a] IN IsStruct(u) /\ Account(u) = Account(t)
           /\ a # "UNUSED" /\ t.state # "UNUSED" =>
                LET u == [t EXCEPT !.state = a] IN IsStruct(u) /\ Account(u) = Account(t)
<1>1. LET u == [t EXCEPT !.array = a] IN IsStruct(u) /\ Account(u) = Account(t)
  BY DEF IsStruct, Account
<1>2. LET u == [t EXCEPT !.prio = a] IN IsStruct(u) /\ Account(u) = Account(t)
  BY DEF IsStruct, Account
<1>3. LET u == [t EXCEPT !.need_resched = a] IN IsStruct(u) /\ Account(u) = Account(t)
  BY DEF IsStruct, Account
<1>4. LET u == [t EXCEPT !.justGotForked = a] IN IsStruct(u) /\ Account(u) = Account(t)
  BY DEF IsStruct, Account
<1>5. a # "UNUSED" /\ t.state # "UNUSED" =>
        LET u == [t EXCEPT !.state = a] IN IsStruct(u) /\ Account(u) = Account(t)
  BY DEF IsStruct, Account
<1> QED BY <1>1, <1>2, <1>3, <1>4, <1>5

LEMMA StillPut ==
    ASSUME NEW S, Records(S), NEW p, NEW t,
           p \in AllTask => IsStruct(t) /\ Account(t) = Account(S.task[p])
    PROVE  Still(S, put_task(S, p, t))
<1> DEFINE S2 == put_task(S, p, t)
<1>1. Changes(S, S2, p, t)
  BY ChangesPut
<1> QED BY <1>1 DEF Still, Keeps, Changes

-----------------------------------------------------------------------------
(* The functions that move tasks leave every account alone.                *)

LEMMA StillResched == ASSUME NEW S, Records(S) PROVE Still(S, set_need_resched(S))
<1>1. \A q \in AllTask : IsStruct(S.task[q])
  BY DEF Records
<1> QED BY <1>1, StillPut, NoAccount DEF set_need_resched

\* The list operations, the wakeup and the switch leave every account alone:
\* one lemma per function of sched.c.
LEMMA StillDequeue ==
    ASSUME NEW S, Records(S), NEW p, NEW array
    PROVE  Still(S, dequeue_task(S, p, array))
<1> DEFINE t == S.task[p]
           r1 == [S.rq EXCEPT !.panic = "list", !.misfiled = TRUE]
           r2 == [S.rq EXCEPT !.arrays = array_dequeue(@, t.array, array, t.prio, p),
                              !.misfiled = @ \/ t.array # array]
<1>1. IsRunqueue(r1) /\ r1.curr = S.rq.curr /\ r1.panic \in {S.rq.panic, "list"}
  BY DEF Records, IsRunqueue
<1>2. IsRunqueue(r2) /\ r2.curr = S.rq.curr /\ r2.panic \in {S.rq.panic, "list"}
  BY DEF Records, IsRunqueue
<1>3. Still(S, put_rq(S, r1)) /\ Still(S, put_rq(S, r2))
  BY <1>1, <1>2, StillRq
<1> QED BY <1>3 DEF dequeue_task

LEMMA StillEnqueueWith ==
    ASSUME NEW S, Records(S), NEW p, NEW array, NEW q
    PROVE  Still(S, enqueue_with(S, p, array, q))
<1> DEFINE t == [S.task[p] EXCEPT !.array = array]
           S1 == put_task(S, p, t)
           r == [S.rq EXCEPT !.arrays = array_enqueue(@, array, S.task[p].prio, q)]
<1>1. Still(S, S1) /\ S1.rq = S.rq
  <2>1. p \in AllTask => IsStruct(t) /\ Account(t) = Account(S.task[p])
    BY NoAccount DEF Records
  <2> QED BY <2>1, StillPut DEF put_task
<1>2. IsRunqueue(r) /\ r.curr = S.rq.curr /\ r.panic \in {S.rq.panic, "list"}
  BY DEF Records, IsRunqueue
<1> HIDE DEF S1, r
<1>3. Still(S1, put_rq(S1, r))
  BY <1>1, <1>2, StillRq DEF Still, Keeps
<1>4. Still(S, put_rq(S1, r))
  BY <1>1, <1>3, StillTrans
<1> QED BY <1>4 DEF enqueue_with, S1, r

LEMMA StillEnqueueEnds ==
    ASSUME NEW S, Records(S), NEW p, NEW array
    PROVE  Still(S, enqueue_head(S, p, array)) /\ Still(S, enqueue_tail(S, p, array))
  BY StillEnqueueWith DEF enqueue_head, enqueue_tail

LEMMA StillDequeueParent ==
    ASSUME NEW S, Records(S), NEW p, NEW array
    PROVE  Still(S, dequeue_parent(S, p, array))
<1> DEFINE parent == S.task[p].p_opptr
           t == [S.task[parent] EXCEPT !.justGotForked = FALSE]
           S1 == put_task(S, parent, t)
           S2 == dequeue_task(S1, parent, array)
<1>1. Still(S, S1)
  <2>1. parent \in AllTask => IsStruct(t) /\ Account(t) = Account(S.task[parent])
    BY NoAccount DEF Records
  <2> HIDE DEF t, parent
  <2> QED BY <2>1, StillPut
<1> HIDE DEF S1, parent
<1>2. Still(S1, S2)
  BY <1>1, StillDequeue DEF Still, Keeps
<1> HIDE DEF S2
<1>3. Still(S, S2)
  BY <1>1, <1>2, StillTrans
<1> QED BY <1>3 DEF dequeue_parent, S2, S1, parent

LEMMA StillEnqueueAncestor ==
    ASSUME NEW S, Records(S), NEW p, NEW array
    PROVE  Still(S, enqueue_ancestor(S, p, array))
<1> DEFINE S1 == dequeue_parent(S, p, array)
           S2 == enqueue_tail(S1, S.task[p].p_opptr, array)
           S3 == enqueue_head(S2, p, array)
<1>1. Still(S, S1)
  BY StillDequeueParent
<1> HIDE DEF S1
<1>2. Still(S1, S2)
  BY <1>1, StillEnqueueEnds DEF Still, Keeps
<1> HIDE DEF S2
<1>3. Still(S2, S3)
  BY <1>2, StillEnqueueEnds DEF Still, Keeps
<1> HIDE DEF S3
<1>4. Still(S, S3)
  BY <1>1, <1>2, <1>3, StillTrans
<1>5. Still(S, enqueue_tail(S, p, array))
  BY StillEnqueueEnds
<1>6. enqueue_ancestor(S, p, array) \in {S1, S3, enqueue_tail(S, p, array)}
  BY DEF enqueue_ancestor, enqueue_child, S1, S2, S3
<1> QED BY <1>1, <1>4, <1>5, <1>6

LEMMA StillEnqueue ==
    ASSUME NEW S, Records(S), NEW p, NEW array
    PROVE  Still(S, enqueue_task(S, p, array))
<1> DEFINE S1 == dequeue_parent(S, p, array)
           S2 == enqueue_ancestor(S1, S.task[p].p_opptr, array)
           S3 == enqueue_head(S2, p, array)
<1>1. Still(S, S1)
  BY StillDequeueParent
<1> HIDE DEF S1
<1>2. Still(S1, S2)
  BY <1>1, StillEnqueueAncestor DEF Still, Keeps
<1> HIDE DEF S2
<1>3. Still(S2, S3)
  BY <1>2, StillEnqueueEnds DEF Still, Keeps
<1> HIDE DEF S3
<1>4. Still(S, S3)
  BY <1>1, <1>2, <1>3, StillTrans
<1>5. Still(S, enqueue_tail(S, p, array))
  BY StillEnqueueEnds
<1>6. enqueue_task(S, p, array) \in {S1, S3, enqueue_tail(S, p, array)}
  BY DEF enqueue_task, enqueue_child, S1, S2, S3
<1> QED BY <1>1, <1>4, <1>5, <1>6

LEMMA StillActivate ==
    ASSUME NEW S, Records(S), NEW p, NEW k
    PROVE  Still(S, activate_task(S, p, k))
<1> DEFINE array == pointer_to_my_active_prio_array(S.task[p], S)
           t == [S.task[p] EXCEPT !.prio = k]
           S0 == put_task(S, p, t)
           S1 == enqueue_task(S0, p, array)
           r == [S1.rq EXCEPT !.nr_running = @ + 1]
<1>1. Still(S, S0)
  <2>1. p \in AllTask => IsStruct(t) /\ Account(t) = Account(S.task[p])
    BY NoAccount DEF Records
  <2> HIDE DEF t
  <2> QED BY <2>1, StillPut
<1> HIDE DEF S0, array
<1>2. Still(S0, S1)
  BY <1>1, StillEnqueue DEF Still, Keeps
<1> HIDE DEF S1
<1>3. IsRunqueue(r) /\ r.curr = S1.rq.curr /\ r.panic \in {S1.rq.panic, "list"}
  BY <1>2 DEF Still, Keeps, Records, IsRunqueue
<1> HIDE DEF r
<1>4. Still(S1, put_rq(S1, r))
  BY <1>2, <1>3, StillRq DEF Still, Keeps
<1>5. Still(S, put_rq(S1, r))
  BY <1>1, <1>2, <1>4, StillTrans
<1> QED BY <1>5 DEF activate_task, r, S1, S0, array

LEMMA StillDeactivate ==
    ASSUME NEW S, Records(S), NEW p
    PROVE  Still(S, deactivate_task(S, p))
<1> DEFINE r == [S.rq EXCEPT !.nr_running = @ - 1,
                             !.nr_uninterruptible = @ + uninterruptible(S.task[p])]
           S1 == put_rq(S, r)
           S2 == dequeue_task(S1, p, S.task[p].array)
           t == [S2.task[p] EXCEPT !.array = NULL]
           S3 == put_task(S2, p, t)
<1>1. IsRunqueue(r) /\ r.curr = S.rq.curr /\ r.panic \in {S.rq.panic, "list"}
  BY DEF Records, IsRunqueue
<1> HIDE DEF r
<1>2. Still(S, S1)
  BY <1>1, StillRq
<1> HIDE DEF S1
<1>3. Still(S1, S2)
  BY <1>2, StillDequeue DEF Still, Keeps
<1> HIDE DEF S2
<1>4. Still(S2, S3)
  <2>1. p \in AllTask => IsStruct(t) /\ Account(t) = Account(S2.task[p])
    BY <1>3, NoAccount DEF Still, Keeps, Records
  <2> HIDE DEF t
  <2> QED BY <1>3, <2>1, StillPut DEF Still, Keeps
<1> HIDE DEF S3
<1>5. Still(S, S3)
  BY <1>2, <1>3, <1>4, StillTrans
<1> QED BY <1>5 DEF deactivate_task, S3, t, S2, S1, r

\* A task that exists becomes TASK_RUNNING.
LEMMA StillRunning ==
    ASSUME NEW S, Records(S), NEW p, p \in AllTask => S.task[p].state # "UNUSED"
    PROVE  Still(S, set_running(S, p))
<1>1. p \in AllTask => IsStruct(S.task[p])
  BY DEF Records
<1>2. p \in AllTask => LET t == [S.task[p] EXCEPT !.state = "RUNNING"]
                       IN  IsStruct(t) /\ Account(t) = Account(S.task[p])
  BY <1>1, NoAccount
<1> QED BY <1>2, StillPut DEF set_running

LEMMA StillWakeUp ==
    ASSUME NEW S, Records(S), NEW p \in AllTask, S.task[p].state # "UNUSED", NEW k
    PROVE  Still(S, try_to_wake_up(S, p, k))
<1> DEFINE r == [S.rq EXCEPT !.nr_uninterruptible = @ - uninterruptible(S.task[p])]
           S1 == put_rq(S, r)
           S2 == activate_task(S1, p, k)
           S3 == set_need_resched(S2)
<1>1. IsRunqueue(r) /\ r.curr = S.rq.curr /\ r.panic \in {S.rq.panic, "list"}
  BY DEF Records, IsRunqueue
<1> HIDE DEF r
<1>2. Still(S, S1)
  BY <1>1, StillRq
<1> HIDE DEF S1
<1>3. Still(S1, S2)
  BY <1>2, StillActivate DEF Still, Keeps
<1> HIDE DEF S2
<1>4. Still(S2, S3)
  BY <1>3, StillResched DEF Still, Keeps
<1> HIDE DEF S3
<1>5. ASSUME NEW S4, Still(S, S4) PROVE Still(S, set_running(S4, p))
  <2>1. S4.task[p].state # "UNUSED" /\ Records(S4)
    BY <1>5 DEF Still, Keeps, Account
  <2>2. Still(S4, set_running(S4, p))
    BY <2>1, StillRunning
  <2> QED BY <1>5, <2>2, StillTrans
<1>6. Still(S, S) /\ Still(S, S2) /\ Still(S, S3)
  BY <1>2, <1>3, <1>4, StillTrans, StillRefl
<1>7. try_to_wake_up(S, p, k) \in {set_running(S4, p) : S4 \in {S, S2, S3}}
  BY DEF try_to_wake_up, S3, S2, S1, r
<1> QED BY <1>5, <1>6, <1>7

-----------------------------------------------------------------------------
(* The timer interrupt.                                                    *)

tick_spent(t) == [t EXCEPT !.time_slice = (@ - 1) % UINT]

\* u is t after a tick, as far as its account goes.
Ticked(t, u, bonus) ==
    LET spent == tick_spent(t) IN
    \/ u = t
    \/ u = spent /\ spent.time_slice # 0
    \/ t.policy = "RR" /\ u = [spent EXCEPT !.time_slice = TASK_TIMESLICE(spent) % UINT,
                                            !.first_time_slice = FALSE, !.need_resched = TRUE]
    \/ spent.time_slice = 0 /\ u = refill(spent, bonus)

LEMMA RefillStruct ==
    ASSUME NEW t, IsStruct(t), NEW bonus
    PROVE  IsStruct(refill(t, bonus))
<1>1. IsStruct(lapse(t))
  BY DEF lapse, IsStruct
<1> QED BY <1>1 DEF refill, IsStruct

\* expire() changes the account of the task it moves to that of a refill.
LEMMA ExpireChanges ==
    ASSUME NEW S, Records(S), NEW p \in AllTask, NEW bonus, NEW toExpired
    PROVE  Changes(S, expire(S, p, bonus, toExpired), p, refill(S.task[p], bonus))
<1> DEFINE array == pointer_to_my_active_prio_array(S.task[p], S)
           u == refill(S.task[p], bonus)
           A1 == dequeue_task(S, p, array)
           A2 == put_task(A1, p, u)
           array2 == IF other_task(u) /\ toExpired THEN expired(A2)
                     ELSE pointer_to_my_active_prio_array(u, A2)
           A3 == enqueue_task(A2, p, array2)
<1>1. IsStruct(u)
  BY RefillStruct DEF Records
<1>2. expire(S, p, bonus, toExpired) = A3
  BY DEF expire
<1> HIDE DEF u, array
<1>3. Still(S, A1)
  BY StillDequeue
<1> HIDE DEF A1
<1>4. Changes(A1, A2, p, u)
  BY <1>1, <1>3, ChangesPut DEF Still, Keeps
<1> HIDE DEF A2, array2
<1>5. Still(A2, A3)
  BY <1>4, StillEnqueue DEF Changes
<1> HIDE DEF A3
<1>6. Changes(S, A3, p, u)
  BY <1>3, <1>4, <1>5 DEF Changes, Still, Keeps
<1> QED BY <1>2, <1>6 DEF u

\* A tick changes the account of the task it is taken from, and no other.
LEMMA TickChanges ==
    ASSUME NEW S, Records(S), S.rq.curr \in AllTask, NEW bonus, NEW toExpired
    PROVE  LET p == S.rq.curr
           IN  \E u : Ticked(S.task[p], u, bonus)
                      /\ Changes(S, scheduler_tick(S, bonus, toExpired), p, u)
<1> DEFINE p == S.rq.curr
           t == S.task[p]
           spent == tick_spent(t)
           S1 == spend_tick(S, p)
           S2 == scheduler_tick(S, bonus, toExpired)
<1>1. IsStruct(t) /\ IsStruct(spent) /\ spent.policy = t.policy
  BY DEF Records, IsStruct, tick_spent
<1>2. /\ Changes(S, S1, p, spent) /\ S1.rq = S.rq
      /\ \A q \in AllTask : S1.task[q] = IF q = p THEN spent ELSE S.task[q]
  <2>1. S1 = put_task(S, p, spent)
    BY DEF spend_tick, tick_spent
  <2> HIDE DEF S1, p, spent
  <2> QED BY <1>1, <2>1, ChangesPut
<1>3. Still(S, S) /\ Still(S, set_need_resched(S))
  BY StillRefl, StillResched
<1> DEFINE t2 == [spent EXCEPT !.time_slice = TASK_TIMESLICE(spent) % UINT,
                               !.first_time_slice = FALSE, !.need_resched = TRUE]
           R == requeue_rr(S1, p)
           E == expire(S1, p, bonus, toExpired)
<1>4. Changes(S, R, p, t2)
  <2> DEFINE array == pointer_to_my_active_prio_array(S1.task[p], S1)
             A1 == put_task(S1, p, t2)
             A2 == dequeue_task(A1, p, array)
             A3 == enqueue_task(A2, p, array)
  <2>1. IsStruct(t2) /\ S1.task[p] = spent /\ Records(S1) /\ S1.rq.curr = S.rq.curr
    BY <1>1, <1>2 DEF IsStruct, Changes
  <2>2. R = A3
    BY <2>1 DEF requeue_rr
  <2> HIDE DEF t2, array, p, spent, R, S1
  <2>3. Changes(S1, A1, p, t2)
    BY <2>1, ChangesPut
  <2> HIDE DEF A1
  <2>4. Still(A1, A2)
    BY <2>3, StillDequeue DEF Changes
  <2> HIDE DEF A2
  <2>5. Still(A2, A3)
    BY <2>4, StillEnqueue DEF Still, Keeps
  <2> HIDE DEF A3
  <2>6. Changes(S, A3, p, t2)
    BY <1>2, <2>3, <2>4, <2>5 DEF Changes, Still, Keeps
  <2> QED BY <2>2, <2>6
<1>5. Changes(S, E, p, refill(spent, bonus))
  <2>1. S1.task[p] = spent /\ Records(S1) /\ p \in AllTask
    BY <1>2 DEF Changes
  <2> HIDE DEF S1, spent, p
  <2>2. Changes(S1, E, p, refill(S1.task[p], bonus))
    BY <2>1, ExpireChanges
  <2> QED BY <1>2, <2>1, <2>2 DEF Changes
<1>6. \/ S2 \in {S, set_need_resched(S)}
      \/ S2 = S1 /\ spent.time_slice # 0
      \/ S2 = R /\ t.policy = "RR"
      \/ S2 = E /\ spent.time_slice = 0
  BY <1>2 DEF scheduler_tick
<1> HIDE DEF S1, R, E, S2, spent
<1>7. CASE S2 \in {S, set_need_resched(S)}
  <2>1. Changes(S, S2, p, t)
    BY <1>3, <1>7, StillChanges
  <2> QED BY <2>1 DEF Ticked, S2
<1>8. CASE S2 = S1 /\ spent.time_slice # 0
  BY <1>2, <1>8 DEF Ticked, S2, spent
<1>9. CASE S2 = R /\ t.policy = "RR"
  BY <1>4, <1>9 DEF Ticked, S2, spent
<1>10. CASE S2 = E /\ spent.time_slice = 0
  BY <1>5, <1>10 DEF Ticked, S2, spent
<1> QED BY <1>6, <1>7, <1>8, <1>9, <1>10

-----------------------------------------------------------------------------
(* schedule() and the system calls.                                        *)

LEMMA StillYield ==
    ASSUME NEW S, Records(S), NEW p
    PROVE  Still(S, yield(S, p))
<1>1. ASSUME NEW k, NEW bitmap, NEW q
      PROVE  Still(S, yield_to(S, p, k, bitmap, q))
  <2> DEFINE t == [S.task[p] EXCEPT !.prio = k]
             S1 == put_task(S, p, t)
             arrays2 == array_relink(unlink(S.rq.arrays, S.task[p].array, S.task[p].prio, p),
                                     S.task[p].array, k, bitmap, q)
             r == [S.rq EXCEPT !.arrays = arrays2]
  <2> HIDE DEF arrays2
  <2>1. p \in AllTask => IsStruct(t) /\ Account(t) = Account(S.task[p])
    BY NoAccount DEF Records
  <2> HIDE DEF t
  <2>2. Still(S, S1)
    BY <2>1, StillPut
  <2>3. S1.rq = S.rq
    BY DEF put_task
  <2>4. IsRunqueue(r) /\ r.curr = S.rq.curr /\ r.panic \in {S.rq.panic, "list"}
    BY DEF Records, IsRunqueue
  <2> HIDE DEF S1, r
  <2>5. Still(S1, put_rq(S1, r))
    BY <2>2, <2>3, <2>4, StillRq DEF Still, Keeps
  <2>6. Still(S, put_rq(S1, r))
    BY <2>2, <2>5, StillTrans
  <2> QED BY <2>6 DEF yield_to, S1, r, t, arrays2
<1>2. \E k, bitmap, q : yield(S, p) = yield_to(S, p, k, bitmap, q)
  <2> DEFINE t == S.task[p]
             array == S.rq.arrays[t.array]
             others(k) == unlink(S.rq.arrays, t.array, t.prio, p)[t.array].queue[k]
             k1 == yield_level(array.bitmap, t.prio)
             bitmap1 == (array.bitmap \ {t.prio}) \cup {k1}
             q1 == list_add_tail(others(t.prio), p)
             q2 == list_add_second(others(t.prio), p)
             q3 == list_add_second(others(k1), p)
  <2>1. \/ yield(S, p) = yield_to(S, p, t.prio, array.bitmap, q1)
        \/ yield(S, p) = yield_to(S, p, t.prio, array.bitmap, q2)
        \/ yield(S, p) = yield_to(S, p, k1, bitmap1, q3)
    BY DEF yield
  <2> HIDE DEF t, array, k1, bitmap1, q1, q2, q3
  <2> QED BY <2>1
<1> QED BY <1>1, <1>2

\* schedule() gives the CPU away.
LEMMA KeepsSchedule ==
    ASSUME NEW S, Records(S), S.rq.curr \in AllTask, NEW pending
    PROVE  Keeps(S, schedule(S, pending))
<1> DEFINE prev == S.rq.curr
           S1 == put_prev(S, pending)
           t == [S1.task[prev] EXCEPT !.need_resched = FALSE]
           S2 == put_task(S1, prev, t)
<1>1. Still(S, S1)
  <2>1. Still(S, S)
    BY StillRefl
  <2>2. S.task[prev].state = "INTERRUPTIBLE" => Still(S, set_running(S, prev))
    BY StillRunning
  <2>3. Still(S, deactivate_task(S, prev))
    BY StillDeactivate
  <2> QED BY <2>1, <2>2, <2>3 DEF put_prev
<1> HIDE DEF S1
<1>2. IsStruct(S1.task[prev])
  BY <1>1 DEF Still, Keeps, Records
<1>3. IsStruct(t) /\ Account(t) = Account(S1.task[prev])
  BY <1>2, NoAccount
<1> HIDE DEF t, prev
<1>4. Still(S1, S2)
  BY <1>1, <1>3, StillPut DEF Still, Keeps
<1>5. schedule(S, pending) = pick_next(S2)
  BY DEF schedule, S2, t, S1, prev
<1> HIDE DEF S2
<1>6. Records(S2) /\ Keeps(S, S2)
  BY <1>1, <1>4 DEF Still, Keeps
<1>7. ASSUME NEW r, IsRunqueue(r), r.panic \in {S2.rq.panic, "list"}
      PROVE  Keeps(S, put_rq(S2, r))
  <2>1. put_rq(S2, r).task = S2.task /\ put_rq(S2, r).rq = r
    BY DEF put_rq
  <2> QED BY <1>6, <1>7, <2>1 DEF Keeps, Records
<1> DEFINE r1 == [S2.rq EXCEPT !.curr = Idle]
           r2 == [S2.rq EXCEPT !.panic = "list"]
           r3 == [S2.rq EXCEPT !.curr = Head(pick_list(S2)),
                               !.active = IF pick_array(S2) = expired(S2) THEN expired(S2) ELSE @]
<1>8. /\ IsRunqueue(r1) /\ IsRunqueue(r2) /\ IsRunqueue(r3)
      /\ r1.panic = S2.rq.panic /\ r2.panic = "list" /\ r3.panic = S2.rq.panic
  BY <1>6 DEF Records, IsRunqueue
<1>9. pick_next(S2) \in {put_rq(S2, r1), put_rq(S2, r2), put_rq(S2, r3)}
  BY DEF pick_next
<1> HIDE DEF r1, r2, r3
<1> QED BY <1>5, <1>7, <1>8, <1>9

LEMMA ReactivateChanges ==
    ASSUME NEW S, Records(S), NEW p \in AllTask, NEW t, IsStruct(t), NEW k
    PROVE  Changes(S, reactivate(S, p, t, k), p, t)
<1> DEFINE S1 == deactivate_task(S, p)
           u == [t EXCEPT !.array = NULL]
           S2 == put_task(S1, p, u)
           S3 == activate_task(S2, p, k)
<1>1. Changes(S, put_task(S, p, t), p, t)
  BY ChangesPut
<1>2. Still(S, S1)
  BY StillDeactivate
<1> HIDE DEF S1
<1>3. IsStruct(u) /\ Account(u) = Account(t)
  BY NoAccount
<1> HIDE DEF u
<1>4. Changes(S1, S2, p, u)
  BY <1>2, <1>3, ChangesPut DEF Still, Keeps
<1> HIDE DEF S2
<1>5. Still(S2, S3)
  BY <1>4, StillActivate DEF Changes
<1> HIDE DEF S3
<1>6. Changes(S, S3, p, t)
  BY <1>2, <1>3, <1>4, <1>5 DEF Changes, Still, Keeps
<1> QED BY <1>1, <1>6 DEF reactivate, S3, S2, u, S1

\* A change followed by set_need_resched().
LEMMA ChangesResched ==
    ASSUME NEW S, NEW S1, NEW p, NEW t, Changes(S, S1, p, t)
    PROVE  Changes(S, set_need_resched(S1), p, t)
<1> DEFINE S2 == set_need_resched(S1)
<1>1. Still(S1, S2)
  BY StillResched DEF Changes
<1> HIDE DEF S2
<1> QED BY <1>1 DEF Changes, Still, Keeps, S2

renewed(t, ms) ==
    LET j == CHANGE_MS_TO_JIFFIS(ms)
    IN  [t EXCEPT !.requestedTime = j, !.time_slice = (@ + j - t.requestedTime) % UINT]

\* Each system call changes the account of its target alone.
LEMMA RenewChanges ==
    ASSUME NEW S, Records(S), NEW p \in AllTask, NEW ms
    PROVE  Changes(S, renew_short(S, p, ms), p, renewed(S.task[p], ms))
<1> DEFINE u == renewed(S.task[p], ms)
<1>1. IsStruct(u)
  BY DEF renewed, Records, IsStruct
<1>2. renew_short(S, p, ms) = set_need_resched(put_task(S, p, u))
  BY DEF renew_short, renewed
<1> HIDE DEF u
<1> QED BY <1>1, <1>2, ChangesPut, ChangesResched DEF u

LEMMA MakeShortChanges ==
    ASSUME NEW S, Records(S), NEW p \in AllTask, NEW ms, NEW k
    PROVE  Changes(S, make_short(S, p, ms, k), p, as_short(S.task[p], ms))
<1> DEFINE u == as_short(S.task[p], ms)
<1>1. IsStruct(u)
  BY DEF as_short, Records, IsStruct
<1> HIDE DEF u
<1>2. Changes(S, reactivate(S, p, u, k), p, u)
  BY <1>1, ReactivateChanges
<1> QED BY <1>2, ChangesResched DEF make_short, u

\* u is t with another nice value.
Reniced(t, u, static) ==
    u \in {t, [t EXCEPT !.static_prio = static], [t EXCEPT !.overdue_static_prio = static]}

LEMMA NiceChanges ==
    ASSUME NEW S, Records(S), NEW p \in AllTask, NEW static
    PROVE  \E u : Reniced(S.task[p], u, static) /\ Changes(S, set_user_nice(S, p, static), p, u)
<1> DEFINE t == S.task[p]
           u1 == [t EXCEPT !.static_prio = static, !.prio = static]
           u2 == [t EXCEPT !.static_prio = static]
           u3 == [t EXCEPT !.overdue_static_prio = static]
           S1 == dequeue_task(S, p, t.array)
           S2 == put_task(S1, p, u1)
           S3 == enqueue_task(S2, p, t.array)
<1>1. IsStruct(t)
  BY DEF Records
<1>2. IsStruct(u1) /\ IsStruct(u2) /\ IsStruct(u3) /\ Account(u1) = Account(u2)
  BY <1>1 DEF IsStruct, Account
<1>3. set_user_nice(S, p, static) \in
        {S, put_task(S, p, u1), put_task(S, p, u2), put_task(S, p, u3), S3, set_need_resched(S3)}
  BY DEF set_user_nice
<1>4. Reniced(t, t, static) /\ Reniced(t, u2, static) /\ Reniced(t, u3, static)
  BY DEF Reniced
<1> HIDE DEF u1, u2, u3
<1>5. Changes(S, S, p, t)
  BY StillRefl, StillChanges
<1>6. Changes(S, put_task(S, p, u1), p, u2)
  <2>1. Changes(S, put_task(S, p, u1), p, u1)
    BY <1>2, ChangesPut
  <2> QED BY <1>2, <2>1 DEF Changes
<1>7. Changes(S, put_task(S, p, u2), p, u2) /\ Changes(S, put_task(S, p, u3), p, u3)
  BY <1>2, ChangesPut
<1>8. Changes(S, S3, p, u2)
  <2>1. Still(S, S1)
    BY StillDequeue
  <2> HIDE DEF S1
  <2>2. Changes(S1, S2, p, u1)
    BY <1>2, <2>1, ChangesPut DEF Still, Keeps
  <2> HIDE DEF S2
  <2>3. Still(S2, S3)
    BY <2>2, StillEnqueue DEF Changes
  <2> HIDE DEF S3
  <2>4. Changes(S, S3, p, u1)
    BY <2>1, <2>2, <2>3, ChangesTrans
  <2> QED BY <1>2, <2>4 DEF Changes
<1> HIDE DEF S3
<1>9. Changes(S, set_need_resched(S3), p, u2)
  BY <1>8, ChangesResched
<1> QED BY <1>3, <1>4, <1>5, <1>6, <1>7, <1>8, <1>9

\* What the parent t has after it has collected u.
given_back(t, u) ==
    LET sum == (t.time_slice + u.time_slice) % UINT
    IN  IF ~u.first_time_slice THEN t.time_slice
        ELSE IF sum > MAX_TIMESLICE THEN MAX_TIMESLICE ELSE sum

LEMMA ExitChanges ==
    ASSUME NEW S, Records(S), NEW p, S.rq.curr \in AllTask
    PROVE  LET t == S.task[S.rq.curr]
           IN  Changes(S, sched_exit(S, p), S.rq.curr,
                       [t EXCEPT !.time_slice = given_back(t, S.task[p])])
<1> DEFINE c == S.rq.curr
           t == S.task[c]
           slice == given_back(t, S.task[p])
           u == [t EXCEPT !.time_slice = slice]
<1>1. IsStruct(t)
  BY DEF Records
<1>2. IsStruct(u) /\ (slice = t.time_slice => Account(u) = Account(t))
  BY <1>1 DEF IsStruct, Account
<1>3. IF S.task[p].first_time_slice THEN sched_exit(S, p) = put_task(S, c, u)
      ELSE sched_exit(S, p) = S /\ slice = t.time_slice
  BY DEF sched_exit, given_back
<1> HIDE DEF slice, u, t, c
<1>4. CASE S.task[p].first_time_slice
  <2>1. Changes(S, put_task(S, c, u), c, u)
    BY <1>2, ChangesPut
  <2> QED BY <1>3, <1>4, <2>1 DEF u, slice, t, c
<1>5. CASE ~S.task[p].first_time_slice
  <2>1. Changes(S, S, c, u)
    BY <1>2, <1>3, <1>5, StillRefl, StillChanges DEF t
  <2> QED BY <1>3, <1>5, <2>1 DEF u, slice, t, c
<1> QED BY <1>4, <1>5

\* Both accounts of a fork change: the child's becomes that of v, the
\* parent's that of u.
Splits2(S, S2, p, c, u, v) ==
    /\ Records(S2) /\ S2.rq.panic \in {S.rq.panic, "list"} /\ S2.rq.curr = S.rq.curr
    /\ \A q \in AllTask : Account(S2.task[q]) = IF q = p THEN Account(u)
                                                ELSE IF q = c THEN Account(v)
                                                ELSE Account(S.task[q])

last_tick(t) == [parent_slice(t) EXCEPT !.justGotForked = FALSE, !.time_slice = 1]

\* Sharing a slice in do_fork() changes the accounts of the two tasks.
LEMMA SplitChanges ==
    ASSUME NEW S, Records(S), NEW p \in AllTask, p = S.rq.curr, NEW c \in AllTask \ {p},
           NEW bonus, NEW toExpired
    PROVE  LET t == S.task[p]
               S2 == fork_split(S, p, c, bonus, toExpired)
           IN  \/ t.time_slice = 0 /\ S2 = put_rq(S, [S.rq EXCEPT !.panic = "BUG"])
               \/ \E u : /\ \/ u = parent_slice(t) /\ u.time_slice # 0
                            \/ Ticked(last_tick(t), u, bonus)
                         /\ Splits2(S, S2, p, c, u, child_slice(t, S.task[c]))
<1> DEFINE t == S.task[p]
           v == child_slice(t, S.task[c])
           u1 == parent_slice(t)
           u2 == last_tick(t)
           S0 == put_task(S, c, v)
           S1 == put_task(S0, p, u1)
           S3 == put_task(S1, p, u2)
           S4 == scheduler_tick(S3, bonus, toExpired)
           r == [S.rq EXCEPT !.panic = "BUG"]
           S2 == fork_split(S, p, c, bonus, toExpired)
<1>1. IsStruct(t) /\ IsStruct(S.task[c])
  BY DEF Records
<1>2. IsStruct(v)
  BY <1>1 DEF child_slice, IsStruct
<1>3. IsStruct(u1)
  BY <1>1 DEF parent_slice, IsStruct
<1>4. IsStruct(u2)
  BY <1>3 DEF last_tick, IsStruct
<1> HIDE DEF v, u1, u2, t
<1>5. Changes(S, S0, c, v)
  BY <1>2, ChangesPut
<1> HIDE DEF S0
<1>6. Changes(S0, S1, p, u1) /\ S1.task[p] = u1
  BY <1>3, <1>5, ChangesPut DEF Changes
<1> HIDE DEF S1
<1>7. Changes(S1, S3, p, u2) /\ S3.task[p] = u2
  BY <1>4, <1>6, ChangesPut DEF Changes
<1>8. S3.rq.curr = p
  BY <1>5, <1>6, <1>7 DEF Changes
<1>9. S2 = IF t.time_slice = 0 THEN put_rq(S, r) ELSE IF u1.time_slice # 0 THEN S1 ELSE S4
  <2> DEFINE last == [S1.task[p] EXCEPT !.justGotForked = FALSE, !.time_slice = 1]
  <2>1. S2 = IF t.time_slice = 0 THEN put_rq(S, r)
             ELSE IF S1.task[p].time_slice # 0 THEN S1
             ELSE scheduler_tick(put_task(S1, p, last), bonus, toExpired)
    BY DEF fork_split, S1, S0, u1, v, t
  <2>2. last = u2
    BY <1>6 DEF u2, u1, last_tick
  <2> HIDE DEF last, S2, r
  <2> QED BY <1>6, <2>1, <2>2 DEF S4, S3
<1> HIDE DEF S3, S2
<1>10. Splits2(S, S1, p, c, u1, v)
  BY <1>5, <1>6 DEF Changes, Splits2
<1>11. \E u : Ticked(u2, u, bonus) /\ Splits2(S, S4, p, c, u, v)
  <2>1. PICK u : Ticked(u2, u, bonus) /\ Changes(S3, S4, p, u)
    BY <1>7, <1>8, TickChanges DEF Changes
  <2> HIDE DEF S4
  <2>2. Splits2(S, S4, p, c, u, v)
    BY <1>5, <1>6, <1>7, <2>1 DEF Changes, Splits2
  <2> QED BY <2>1, <2>2
<1> HIDE DEF S4
<1>12. S2 = fork_split(S, p, c, bonus, toExpired)
  BY DEF S2
<1> QED BY <1>9, <1>10, <1>11, <1>12 DEF v, u1, u2, t

LEMMA StillForkWake ==
    ASSUME NEW S, Records(S), NEW p, NEW c \in AllTask, S.task[c].state # "UNUSED",
           NEW clone_parent, NEW k
    PROVE  Still(S, fork_wake(S, p, c, clone_parent, k))
<1> DEFINE parent == IF clone_parent THEN S.task[p].p_opptr ELSE p
           u == [S.task[c] EXCEPT !.p_opptr = parent, !.state = "RUNNING"]
           S1 == put_task(S, c, u)
           S2 == activate_task(S1, c, k)
<1>1. IsStruct(u) /\ Account(u) = Account(S.task[c])
  BY DEF Records, IsStruct, Account
<1> HIDE DEF u
<1>2. Still(S, S1)
  BY <1>1, StillPut
<1> HIDE DEF S1
<1>3. Still(S1, S2)
  BY <1>2, StillActivate DEF Still, Keeps
<1> HIDE DEF S2
<1>4. Still(S2, set_need_resched(S2))
  BY <1>3, StillResched DEF Still, Keeps
<1>5. Still(S, S2) /\ Still(S, set_need_resched(S2))
  BY <1>2, <1>3, <1>4, StillTrans
<1>6. fork_wake(S, p, c, clone_parent, k) \in {S2, set_need_resched(S2)}
  BY DEF fork_wake, S2, S1, u
<1> QED BY <1>5, <1>6

-----------------------------------------------------------------------------
(* What the policy sees of a task.                                         *)

SameFace(t, u) ==
    Class(t) = Class(u) /\ UserNice(t) = UserNice(u) /\ t.iWasShort = u.iWasShort

Marked(t) == t.iAmOverdue => t.policy = "SHORT"

\* Tasks with equal accounts look the same to ShortPolicy.
LEMMA AccountFace ==
    ASSUME NEW t, NEW u, Account(t) = Account(u)
    PROVE  SameFace(t, u) /\ t.policy = u.policy /\ (Marked(t) <=> Marked(u))
<1>1. /\ (t.state = "UNUSED") = (u.state = "UNUSED") /\ t.policy = u.policy
      /\ t.iAmOverdue = u.iAmOverdue /\ t.static_prio = u.static_prio
      /\ t.overdue_static_prio = u.overdue_static_prio /\ t.iWasShort = u.iWasShort
  BY DEF Account
<1> QED BY <1>1 DEF SameFace, Class, UserNice, short_task, overdue_task, other_task, Marked

\* What a lapse looks like from outside.
Lapses(t, u) ==
    /\ \/ Class(u) = Class(t)
       \/ Class(t) = "short" /\ Class(u) = "overdue"
       \/ Class(t) = "overdue" /\ Class(u) = "other"
    /\ UserNice(u) = UserNice(t) /\ u.iWasShort = t.iWasShort
    /\ u.policy = "SHORT" => t.policy = "SHORT"
    /\ Marked(u)

\* What a tick does to a task is to ShortPolicy a lapse, or nothing.
LEMMA TickedLapses ==
    ASSUME NEW t, IsStruct(t), t.iAmOverdue \in BOOLEAN, Marked(t), NEW u, NEW bonus,
           Ticked(t, u, bonus)
    PROVE  Lapses(t, u)
<1> DEFINE spent == tick_spent(t)
           slice == TASK_TIMESLICE(spent) % UINT
           again == [spent EXCEPT !.time_slice = slice, !.first_time_slice = FALSE,
                                  !.need_resched = TRUE]
<1>1. /\ IsStruct(spent) /\ spent.state = t.state /\ spent.policy = t.policy
      /\ spent.iAmOverdue = t.iAmOverdue /\ spent.static_prio = t.static_prio
      /\ spent.overdue_static_prio = t.overdue_static_prio /\ spent.iWasShort = t.iWasShort
  BY DEF tick_spent, IsStruct
<1> HIDE DEF spent, slice
<1>2. \A w : /\ w.state = t.state /\ w.policy = t.policy
             /\ w.iAmOverdue = t.iAmOverdue /\ w.static_prio = t.static_prio
             /\ w.overdue_static_prio = t.overdue_static_prio /\ w.iWasShort = t.iWasShort
             => Lapses(t, w)
  BY DEF Lapses, Class, UserNice, short_task, overdue_task, other_task, Marked
<1>3. CASE u = t
  BY <1>2, <1>3
<1>4. CASE u = spent
  BY <1>1, <1>2, <1>4
<1>5. CASE u = again
  <2>1. /\ again.state = spent.state /\ again.policy = spent.policy
        /\ again.iAmOverdue = spent.iAmOverdue /\ again.static_prio = spent.static_prio
        /\ again.overdue_static_prio = spent.overdue_static_prio
        /\ again.iWasShort = spent.iWasShort
    BY <1>1 DEF IsStruct
  <2> QED BY <1>1, <1>2, <1>5, <2>1
<1>6. CASE u = refill(spent, bonus)
  <2> DEFINE w == lapse(spent)
  <2>1. /\ u.state = w.state /\ u.policy = w.policy
        /\ u.iAmOverdue = w.iAmOverdue /\ u.static_prio = w.static_prio
        /\ u.overdue_static_prio = w.overdue_static_prio /\ u.iWasShort = w.iWasShort
    <3>1. IsStruct(w)
      BY <1>1 DEF lapse, IsStruct
    <3> HIDE DEF w
    <3> QED BY <1>6, <3>1 DEF refill, IsStruct, w
  <2>2. CASE overdue_task(spent)
    <3>1. /\ w.state = t.state /\ w.policy = "OTHER" /\ w.iAmOverdue = FALSE
          /\ w.static_prio = t.overdue_static_prio /\ w.iWasShort = t.iWasShort
      BY <1>1, <2>2 DEF lapse, IsStruct
    <3> QED BY <1>1, <2>1, <2>2, <3>1
          DEF Lapses, Class, UserNice, short_task, overdue_task, other_task, Marked
  <2>3. CASE short_task(spent)
    <3>1. /\ w.state = t.state /\ w.policy = "SHORT" /\ w.iAmOverdue = TRUE
          /\ w.overdue_static_prio = t.static_prio /\ w.iWasShort = t.iWasShort
      BY <1>1, <2>3 DEF lapse, IsStruct, short_task, overdue_task
    <3> QED BY <1>1, <2>1, <2>3, <3>1
          DEF Lapses, Class, UserNice, short_task, overdue_task, other_task, Marked
  <2>4. CASE ~overdue_task(spent) /\ ~short_task(spent)
    <3>1. w = spent
      BY <2>4 DEF lapse
    <3> QED BY <1>1, <1>2, <2>1, <3>1
  <2> QED BY <2>2, <2>3, <2>4
<1> QED BY <1>3, <1>4, <1>5, <1>6 DEF Ticked, spent, slice

-----------------------------------------------------------------------------
(* The invariant: nobody is overdue but SHORT tasks, a do_fork() that has  *)
(* begun keeps the CPU, and the child it copied is SHORT if it is itself.  *)

\* The flag of overdue tasks is only ever set under SCHED_SHORT.
AllMarked == \A q \in AllTask : Marked(task[q])

\* Without waiting in do_fork(), only the task on the CPU is inside it ...
ForkAlone == \A q \in Task : InFork(pc[q]) => q = current

\* ... and the child it copied has the policy the parent has when it is shared out.
CopyFollows ==
    \A q \in Task : pc[q] = "fork_copied" /\ task[q].policy = "SHORT"
                        => task[child[q]].policy = "SHORT"

Policies == AllMarked /\ ForkAlone /\ CopyFollows

LEMMA Base ==
    ASSUME IInv
    PROVE  /\ Records(Kernel) /\ Kernel.task = task /\ Kernel.rq = rq
           /\ current \in AllTask /\ current = rq.curr /\ Kernel.rq.curr = current
           /\ Task \subseteq AllTask /\ Idle \in AllTask /\ Idle \notin Task
           /\ AllTask = Task \cup {Idle}
           /\ \A q \in AllTask : /\ task[q] \in task_struct /\ IsStruct(task[q])
                                 /\ task[q].iAmOverdue \in BOOLEAN
<1>1. /\ KernelType(Kernel) /\ Kernel.task = task /\ Kernel.rq = rq
      /\ task \in [AllTask -> task_struct] /\ rq \in runqueue
  BY DEF IInv, TypeOK, Kernel
<1>2. Records(Kernel)
  BY <1>1, KernelRecords
<1> QED BY <1>1, <1>2, Constants DEF Records, runqueue, current, AllTask, task_struct

\* What an action that changes one account does to the faces.
LEMMA Seen ==
    ASSUME IInv, NEW S2, Becomes(S2), NEW p, NEW u, Changes(Kernel, S2, p, u)
    PROVE  /\ rq'.curr = rq.curr
           /\ \A q \in AllTask : LET t == IF q = p THEN u ELSE task[q]
                                 IN  /\ SameFace(task'[q], t) /\ task'[q].policy = t.policy
                                     /\ Marked(task'[q]) <=> Marked(t)
<1>1. task' = S2.task /\ rq' = S2.rq /\ Kernel.task = task /\ Kernel.rq = rq
  BY Base DEF Becomes
<1>2. \A q \in AllTask : Account(task'[q]) = Account(IF q = p THEN u ELSE task[q])
  BY <1>1 DEF Changes
<1>3. rq'.curr = rq.curr
  BY <1>1 DEF Changes
<1> QED BY <1>2, <1>3, AccountFace

\* What a step has to show for Policies to be preserved.
LEMMA PoliciesKept ==
    ASSUME IInv, Policies, rq.panic = "none", NEW S2, Becomes(S2),
           NEW p, NEW u, Changes(Kernel, S2, p, u), p \in AllTask => Marked(u),
           UNCHANGED child, UNCHANGED pc \/ ReturnsToUser,
           pc[current] = "fork_copied" =>
                p = current /\ (u.policy = "SHORT" => task[p].policy = "SHORT")
    PROVE  Policies'
<1>1. AllMarked'
  <2>1. \A q \in AllTask : Marked(task'[q])
    BY Seen DEF Policies, AllMarked
  <2> QED BY <2>1 DEF AllMarked, Marked
<1>2. rq'.curr = rq.curr /\ current' = current /\ child' = child
  BY Seen DEF current
<1>3. \A q \in Task : InFork(pc'[q]) => pc'[q] = pc[q]
  BY Before, Base DEF ReturnsToUser, InFork
<1>4. ForkAlone'
  <2>1. \A q \in Task : InFork(pc'[q]) => q = current'
    BY <1>2, <1>3 DEF Policies, ForkAlone
  <2> QED BY <2>1 DEF ForkAlone, InFork
<1>5. CopyFollows'
  <2> SUFFICES ASSUME NEW q \in Task, pc'[q] = "fork_copied", task'[q].policy = "SHORT"
               PROVE  task'[child[q]].policy = "SHORT"
    BY <1>2 DEF CopyFollows
  <2>1. pc[q] = "fork_copied" /\ q = current /\ InFork(pc[q])
    BY <1>3 DEF Policies, ForkAlone, InFork
  <2>2. child[q] \in Task \ {current}
    BY <2>1, InForkCall
  <2>3. task'[q].policy = u.policy /\ p = q
    BY <2>1, Base, Seen
  <2>4. task'[child[q]].policy = task[child[q]].policy
    BY <2>1, <2>2, <2>3, Base, Seen
  <2> QED BY <2>1, <2>3, <2>4 DEF Policies, CopyFollows
<1> QED BY <1>1, <1>4, <1>5 DEF Policies

\* The same for an action that changes no account.
LEMMA PoliciesStill ==
    ASSUME IInv, Policies, rq.panic = "none", NEW S2, Becomes(S2), Still(Kernel, S2),
           UNCHANGED child, UNCHANGED pc \/ ReturnsToUser
    PROVE  Policies'
<1>1. Changes(Kernel, S2, current, task[current])
  BY Base, StillChanges
<1>2. Marked(task[current])
  BY Base DEF Policies, AllMarked
<1> QED BY <1>1, <1>2, PoliciesKept

FacesUpdate(p, u) ==
    \A q \in Task : SameFace(task'[q], IF q = p THEN u ELSE task[q])

LEMMA Stutter ==
    ASSUME rq'.curr = rq.curr, \A q \in Task : SameFace(task'[q], task[q])
    PROVE  UNCHANGED Lifecycle!vars
<1>1. [q \in Task |-> Class(task[q])]' = [q \in Task |-> Class(task[q])]
  BY DEF SameFace
<1>2. [q \in Task |-> UserNice(task[q])]' = [q \in Task |-> UserNice(task[q])]
  BY DEF SameFace
<1>3. [q \in Task |-> task[q].iWasShort]' = [q \in Task |-> task[q].iWasShort]
  BY DEF SameFace
<1> QED BY <1>1, <1>2, <1>3 DEF Lifecycle!vars

\* A step that changes one task implements a step of ShortPolicy if that task does.
LEMMA Update ==
    ASSUME NEW p \in Task, NEW u, FacesUpdate(p, u)
    PROVE  /\ [q \in Task |-> Class(task[q])]'
                = [[q \in Task |-> Class(task[q])] EXCEPT ![p] = Class(u)]
           /\ [q \in Task |-> UserNice(task[q])]'
                = [[q \in Task |-> UserNice(task[q])] EXCEPT ![p] = UserNice(u)]
           /\ [q \in Task |-> task[q].iWasShort]'
                = [[q \in Task |-> task[q].iWasShort] EXCEPT ![p] = u.iWasShort]
<1>1. \A q \in Task : /\ Class(task'[q]) = IF q = p THEN Class(u) ELSE Class(task[q])
                      /\ UserNice(task'[q]) = IF q = p THEN UserNice(u) ELSE UserNice(task[q])
                      /\ task'[q].iWasShort = IF q = p THEN u.iWasShort ELSE task[q].iWasShort
  BY DEF FacesUpdate, SameFace
<1>2. [q \in Task |-> Class(task[q])]'
        = [[q \in Task |-> Class(task[q])] EXCEPT ![p] = Class(u)]
  BY <1>1
<1>3. [q \in Task |-> UserNice(task[q])]'
        = [[q \in Task |-> UserNice(task[q])] EXCEPT ![p] = UserNice(u)]
  BY <1>1
<1>4. [q \in Task |-> task[q].iWasShort]'
        = [[q \in Task |-> task[q].iWasShort] EXCEPT ![p] = u.iWasShort]
  BY <1>1
<1> QED BY <1>2, <1>3, <1>4

-----------------------------------------------------------------------------
(* The actions.                                                            *)

\* What each action has to show.
Refines == Policies' /\ [Lifecycle!Next]_(Lifecycle!vars)

LEMMA StillRefines ==
    ASSUME IInv, Policies, rq.panic = "none", NEW S2, Becomes(S2), Still(Kernel, S2),
           UNCHANGED child, UNCHANGED pc \/ ReturnsToUser
    PROVE  Refines
<1>1. Policies'
  BY PoliciesStill
<1>2. Changes(Kernel, S2, current, task[current])
  BY Base, StillChanges
<1>3. rq'.curr = rq.curr /\ \A q \in Task : SameFace(task'[q], task[q])
  BY <1>2, Base, Seen
<1> QED BY <1>1, <1>3, Stutter DEF Refines

\* A lapse of the running process.
LEMMA LapseRefines ==
    ASSUME IInv, rq'.curr = rq.curr, NEW u, Lapses(task[current], u), FacesUpdate(current, u)
    PROVE  [Lifecycle!Next]_(Lifecycle!vars)
<1>1. CASE Class(u) = Class(task[current])
  <2>1. SameFace(u, task[current])
    BY <1>1 DEF Lapses, SameFace
  <2>2. \A q \in Task : SameFace(task'[q], task[q])
    BY <2>1 DEF FacesUpdate, SameFace
  <2> QED BY <2>2, Stutter
<1>2. CASE Class(u) # Class(task[current]) /\ current \in Task
  <2>1. /\ UserNice(u) = UserNice(task[current]) /\ u.iWasShort = task[current].iWasShort
        /\ \/ Class(task[current]) = "short" /\ Class(u) = "overdue"
           \/ Class(task[current]) = "overdue" /\ Class(u) = "other"
    BY <1>2 DEF Lapses
  <2> DEFINE c == [q \in Task |-> Class(task[q])]
             n == [q \in Task |-> UserNice(task[q])]
             w == [q \in Task |-> task[q].iWasShort]
  <2>2. c' = [c EXCEPT ![current] = Class(u)]
    BY <1>2, Update
  <2>3. n' = n
    <3>1. n' = [n EXCEPT ![current] = UserNice(u)]
      BY <1>2, Update
    <3> QED BY <1>2, <2>1, <3>1
  <2>4. w' = w
    <3>1. w' = [w EXCEPT ![current] = u.iWasShort]
      BY <1>2, Update
    <3> QED BY <1>2, <2>1, <3>1
  <2>5. c[current] = Class(task[current])
    BY <1>2
  <2>6. rq.curr = current
    BY DEF current
  <2>7. Lifecycle!Lapse(current)
    <3> HIDE DEF c, n, w
    <3>1. \/ c[current] = "short" /\ c' = [c EXCEPT ![current] = "overdue"]
          \/ c[current] = "overdue" /\ c' = [c EXCEPT ![current] = "other"]
      BY <2>1, <2>2, <2>5
    <3>2. n' = n /\ w' = w /\ rq'.curr = rq.curr
      BY <2>3, <2>4
    <3> QED BY <2>6, <3>1, <3>2 DEF Lifecycle!Lapse, c, n, w
  <2> QED BY <1>2, <2>7 DEF Lifecycle!Next
<1>3. CASE current \notin Task
  <2>1. \A q \in Task : SameFace(task'[q], task[q])
    BY <1>3 DEF FacesUpdate
  <2> QED BY <2>1, Stutter
<1> QED BY <1>1, <1>2, <1>3

\* One lemma per action: it preserves Policies and implements a step of
\* ShortPolicy or no step.
LEMMA TickRefines == ASSUME IInv, Policies, Tick PROVE Refines
<1>1. PICK b \in Bonuses, toExpired \in BOOLEAN : Becomes(scheduler_tick(Kernel, b, toExpired))
  BY DEF Tick
<1>2. rq.panic = "none" /\ UNCHANGED child /\ UNCHANGED pc
  BY DEF Tick, InterruptsOpen
<1> DEFINE S2 == scheduler_tick(Kernel, b, toExpired)
<1>3. PICK u : Ticked(task[current], u, b) /\ Changes(Kernel, S2, current, u)
  BY Base, TickChanges
<1>4. Becomes(S2)
  BY <1>1
<1> HIDE DEF S2
<1>5. Lapses(task[current], u)
  BY <1>3, Base, TickedLapses DEF Policies, AllMarked
<1>6. Policies'
  BY <1>2, <1>3, <1>4, <1>5, PoliciesKept DEF Lapses
<1>7. rq'.curr = rq.curr /\ FacesUpdate(current, u)
  BY <1>3, <1>4, Base, Seen DEF FacesUpdate
<1> QED BY <1>5, <1>6, <1>7, LapseRefines DEF Refines

LEMMA WakeRefines == ASSUME IInv, Policies, NEW p \in Task, Wake(p) PROVE Refines
<1>1. /\ rq.panic = "none" /\ UNCHANGED child /\ UNCHANGED pc
      /\ task[p].state # "UNUSED"
  BY DEF Wake, InterruptsOpen
<1>2. PICK k : Becomes(try_to_wake_up(Kernel, p, k))
  BY DEF Wake
<1>3. Still(Kernel, try_to_wake_up(Kernel, p, k))
  BY <1>1, Base, StillWakeUp
<1> QED BY <1>1, <1>2, <1>3, StillRefines

\* A context switch: no do_fork() is under way.
LEMMA SwitchRefines ==
    ASSUME IInv, IInv', Policies, rq.panic = "none", ~InFork(pc[current]),
           NEW S2, Keeps(Kernel, S2), Becomes(S2), UNCHANGED pc \/ ReturnsToUser
    PROVE  Refines
<1>1. \A q \in AllTask : Account(task'[q]) = Account(task[q])
  BY Base DEF Keeps, Becomes
<1>2. \A q \in AllTask : SameFace(task'[q], task[q]) /\ (Marked(task'[q]) <=> Marked(task[q]))
  BY <1>1, AccountFace
<1>3. \A q \in Task : ~InFork(pc'[q])
  <2>1. \A q \in Task : ~InFork(pc[q])
    BY DEF Policies, ForkAlone
  <2> QED BY <2>1, Before, Base DEF ReturnsToUser, InFork
<1>4. Policies'
  <2>1. AllMarked'
    BY <1>2 DEF Policies, AllMarked, Marked
  <2>2. ForkAlone' /\ CopyFollows'
    BY <1>3 DEF ForkAlone, CopyFollows, InFork
  <2> QED BY <2>1, <2>2 DEF Policies
<1>5. Lifecycle!Switch
  <2>1. rq'.curr \in Task \cup {Idle}
    BY Base DEF IInv, TypeOK, runqueue
  <2>2. [q \in Task |-> Class(task[q])]' = [q \in Task |-> Class(task[q])]
    BY <1>2, Base DEF SameFace
  <2>3. [q \in Task |-> UserNice(task[q])]' = [q \in Task |-> UserNice(task[q])]
    BY <1>2, Base DEF SameFace
  <2>4. [q \in Task |-> task[q].iWasShort]' = [q \in Task |-> task[q].iWasShort]
    BY <1>2, Base DEF SameFace
  <2> QED BY <2>1, <2>2, <2>3, <2>4 DEF Lifecycle!Switch
<1> QED BY <1>4, <1>5 DEF Refines, Lifecycle!Next

LEMMA RescheduleRefines ==
    ASSUME IInv, IInv', Policies, "fork_block" \notin Workload, Reschedule PROVE Refines
<1>1. PICK pending : Becomes(schedule(Kernel, pending))
  BY DEF Reschedule
<1>2. rq.panic = "none" /\ UNCHANGED pc /\ ~InFork(pc[current])
  BY DEF Reschedule, InFork
<1>3. Keeps(Kernel, schedule(Kernel, pending))
  BY Base, KeepsSchedule
<1> QED BY <1>1, <1>2, <1>3, SwitchRefines

LEMMA YieldRefines == ASSUME IInv, IInv', Policies, Yield PROVE Refines
<1> DEFINE S1 == yield(Kernel, current)
           S2 == schedule(S1, FALSE)
<1>1. rq.panic = "none" /\ ReturnsToUser /\ ~InFork(pc[current]) /\ Becomes(S2)
  BY DEF Yield, InKernel, InFork
<1>2. Still(Kernel, S1)
  BY Base, StillYield
<1> HIDE DEF S1
<1>3. Keeps(S1, S2)
  BY <1>2, Base, KeepsSchedule DEF Still, Keeps
<1> HIDE DEF S2
<1>4. Keeps(Kernel, S2)
  BY <1>2, <1>3 DEF Still, Keeps
<1> QED BY <1>1, <1>4, SwitchRefines

LEMMA SysEnterRefines == ASSUME IInv, Policies, SysEnter PROVE Refines
<1>1. /\ task' = task /\ rq' = rq /\ child' = child /\ pc' = [pc EXCEPT ![current] = "kernel"]
  BY DEF SysEnter
<1>2. pc \in [AllTask -> KernelStep]
  BY DEF IInv, TypeOK
<1>3. \A q \in Task : InFork(pc'[q]) => pc'[q] = pc[q]
  BY <1>1, <1>2, Base DEF InFork
<1>4. Policies'
  BY <1>1, <1>3 DEF Policies, AllMarked, Marked, ForkAlone, CopyFollows, InFork, current
<1>5. UNCHANGED Lifecycle!vars
  BY <1>1, Stutter DEF SameFace
<1> QED BY <1>4, <1>5 DEF Refines

LEMMA SysReturnRefines == ASSUME IInv, Policies, SysReturn PROVE Refines
<1>1. /\ rq.panic = "none" /\ ReturnsToUser /\ UNCHANGED child /\ Becomes(Kernel)
  BY Base DEF SysReturn, InKernel, Becomes
<1>2. Still(Kernel, Kernel)
  BY Base, StillRefl
<1> QED BY <1>1, <1>2, StillRefines

LEMMA SetStateRefines ==
    ASSUME IInv, Policies, NEW s \in State \ {"ZOMBIE", "UNUSED"}, SetState(s)
    PROVE  Refines
<1> DEFINE t == [task[current] EXCEPT !.state = s]
           S2 == put_task(Kernel, current, t)
<1>1. /\ rq.panic = "none" /\ UNCHANGED child /\ UNCHANGED pc /\ pc[current] # "user"
      /\ task' = [task EXCEPT ![current].state = s] /\ rq' = rq
  BY DEF SetState
<1>2. Becomes(S2)
  BY <1>1, Base DEF Becomes, put_task
<1>3. task[current].state # "UNUSED"
  BY <1>1, InCall
<1>4. Still(Kernel, S2)
  <2>1. IsStruct(task[current]) /\ s # "UNUSED" /\ Kernel.task[current] = task[current]
    BY Base
  <2>2. IsStruct(t) /\ Account(t) = Account(task[current])
    BY <2>1, <1>3, NoAccount
  <2>3. IsStruct(t) /\ Account(t) = Account(Kernel.task[current])
    BY <2>1, <2>2
  <2> HIDE DEF t
  <2> QED BY <2>3, Base, StillPut
<1> HIDE DEF S2
<1> QED BY <1>1, <1>2, <1>4, StillRefines

\* A system call: it changes one account, at most, and returns.
LEMMA CallKeeps ==
    ASSUME IInv, Policies, rq.panic = "none", pc[current] = "kernel",
           NEW S2, Becomes(S2), NEW p \in Task, NEW u, Changes(Kernel, S2, p, u), Marked(u),
           UNCHANGED child, ReturnsToUser
    PROVE  Policies' /\ FacesUpdate(p, u) /\ rq'.curr = rq.curr
<1>1. Policies'
  BY PoliciesKept
<1> QED BY <1>1, Base, Seen DEF FacesUpdate

\* What the caller of a system call is.
LEMMA Caller ==
    ASSUME IInv, InKernel
    PROVE  rq.panic = "none" /\ pc[current] = "kernel" /\ current \in Task /\ rq.curr # Idle
           /\ rq.curr = current /\ task[current].state = "RUNNING"
  BY InCall, Base DEF InKernel

LEMMA RenewShortRefines ==
    ASSUME IInv, Policies, NEW p \in Task, NEW ms \in ReqTimes, RenewShort(p, ms)
    PROVE  Refines
<1> DEFINE S2 == renew_short(Kernel, p, ms)
           u == renewed(task[p], ms)
<1>1. UNCHANGED child /\ ReturnsToUser /\ Becomes(S2) /\ InKernel
  BY DEF RenewShort
<1>2. Changes(Kernel, S2, p, u)
  BY Base, RenewChanges
<1>3. SameFace(u, task[p]) /\ (Marked(u) <=> Marked(task[p]))
  BY Base DEF renewed, IsStruct, SameFace, Class, UserNice, short_task, overdue_task,
              other_task, Marked
<1>4. Marked(u)
  BY <1>3, Base DEF Policies, AllMarked
<1> HIDE DEF S2, u
<1>5. Policies' /\ FacesUpdate(p, u) /\ rq'.curr = rq.curr
  BY <1>1, <1>2, <1>4, Caller, CallKeeps
<1>6. \A q \in Task : SameFace(task'[q], task[q])
  BY <1>3, <1>5 DEF FacesUpdate, SameFace
<1> QED BY <1>5, <1>6, Stutter DEF Refines

LEMMA MakeShortRefines ==
    ASSUME IInv, Policies, NEW p \in Task, NEW ms \in ReqTimes, MakeShort(p, ms)
    PROVE  Refines
<1> DEFINE u == as_short(task[p], ms)
<1>1. /\ UNCHANGED child /\ ReturnsToUser /\ InKernel
      /\ task[p].policy = "OTHER" /\ task[p].state # "UNUSED"
  BY DEF MakeShort, Hashed
<1>2. PICK k : Becomes(make_short(Kernel, p, ms, k))
  BY DEF MakeShort
<1>3. Changes(Kernel, make_short(Kernel, p, ms, k), p, u)
  BY Base, MakeShortChanges
<1>4. ~task[p].iAmOverdue
  BY <1>1, Base DEF Policies, AllMarked, Marked
<1>5. /\ u.state = task[p].state /\ u.policy = "SHORT" /\ u.iAmOverdue = task[p].iAmOverdue
      /\ u.static_prio = task[p].static_prio /\ u.iWasShort = TRUE
  BY Base DEF as_short, IsStruct
<1> HIDE DEF u
<1>6. /\ Class(task[p]) = "other" /\ Class(u) = "short" /\ UserNice(u) = UserNice(task[p])
      /\ Marked(u)
  BY <1>1, <1>4, <1>5 DEF Class, UserNice, short_task, overdue_task, other_task, Marked
<1>7. Policies' /\ FacesUpdate(p, u) /\ rq'.curr = rq.curr
  BY <1>1, <1>2, <1>3, <1>6, Caller, CallKeeps
<1> DEFINE c == [q \in Task |-> Class(task[q])]
           n == [q \in Task |-> UserNice(task[q])]
           w == [q \in Task |-> task[q].iWasShort]
<1>8. /\ c' = [c EXCEPT ![p] = Class(u)] /\ w' = [w EXCEPT ![p] = u.iWasShort]
      /\ n' = [n EXCEPT ![p] = UserNice(u)]
  BY <1>7, Update
<1>9. n' = n /\ c[p] = "other"
  BY <1>6, <1>8
<1>10. c' = [c EXCEPT ![p] = "short"] /\ w' = [w EXCEPT ![p] = TRUE]
  <2> HIDE DEF c, n, w
  <2> QED BY <1>5, <1>6, <1>8
<1>11. Lifecycle!BecomeShort(p)
  <2> HIDE DEF c, n, w
  <2>1. rq.curr # Idle
    BY <1>1, Caller
  <2> QED BY <1>7, <1>9, <1>10, <2>1 DEF Lifecycle!BecomeShort, c, n, w
<1> QED BY <1>7, <1>11 DEF Refines, Lifecycle!Next

LEMMA SetNormalRefines ==
    ASSUME IInv, Policies, NEW p \in Task, NEW policy \in {"OTHER", "FIFO", "RR"}, NEW prio,
           SetNormal(p, policy, prio)
    PROVE  Refines
<1> DEFINE u == as_normal(task[p], policy, prio)
<1>1. /\ UNCHANGED child /\ ReturnsToUser /\ InKernel
      /\ task[p].policy # "SHORT" /\ task[p].state # "UNUSED"
  BY DEF SetNormal, Hashed
<1>2. PICK k : Becomes(reactivate(Kernel, p, u, k))
  BY DEF SetNormal
<1>3. IsStruct(u)
  BY Base DEF as_normal, IsStruct
<1>4. /\ u.state = task[p].state /\ u.policy = policy /\ u.iAmOverdue = task[p].iAmOverdue
      /\ u.static_prio = task[p].static_prio /\ u.iWasShort = task[p].iWasShort
  BY Base DEF as_normal, IsStruct
<1> HIDE DEF u
<1>5. Changes(Kernel, reactivate(Kernel, p, u, k), p, u)
  BY <1>3, Base, ReactivateChanges
<1>6. ~task[p].iAmOverdue
  BY <1>1, Base DEF Policies, AllMarked, Marked
<1>7. /\ Class(task[p]) \in {"other", "rt"} /\ Class(u) \in {"other", "rt"}
      /\ UserNice(u) = UserNice(task[p]) /\ Marked(u)
  BY <1>1, <1>4, <1>6, Base
    DEF Class, UserNice, short_task, overdue_task, other_task, Marked, task_struct, Policy
<1>8. Policies' /\ FacesUpdate(p, u) /\ rq'.curr = rq.curr
  BY <1>1, <1>2, <1>5, <1>7, Caller, CallKeeps
<1> DEFINE c == [q \in Task |-> Class(task[q])]
           n == [q \in Task |-> UserNice(task[q])]
           w == [q \in Task |-> task[q].iWasShort]
<1>9. /\ c' = [c EXCEPT ![p] = Class(u)] /\ w' = [w EXCEPT ![p] = u.iWasShort]
      /\ n' = [n EXCEPT ![p] = UserNice(u)]
  BY <1>8, Update
<1>10. n' = n /\ w' = w /\ c[p] \in {"other", "rt"}
  BY <1>4, <1>7, <1>9
<1>11. Lifecycle!SetNormal(p)
  <2> HIDE DEF c, n, w
  <2>1. rq.curr # Idle
    BY <1>1, Caller
  <2> QED BY <1>7, <1>8, <1>9, <1>10, <2>1 DEF Lifecycle!SetNormal, c, n, w
<1> QED BY <1>8, <1>11 DEF Refines, Lifecycle!Next

LEMMA SetNiceRefines ==
    ASSUME IInv, Policies, NEW p \in Task, NEW static \in Prio, SetNice(p, static)
    PROVE  Refines
<1> DEFINE S2 == set_user_nice(Kernel, p, static)
<1>1. /\ UNCHANGED child /\ ReturnsToUser /\ InKernel /\ Becomes(S2)
      /\ task[p].state # "UNUSED"
  BY DEF SetNice, Hashed
<1>2. PICK u : Reniced(task[p], u, static) /\ Changes(Kernel, S2, p, u)
  BY Base, NiceChanges
<1> HIDE DEF S2
<1>3. /\ u.state = task[p].state /\ u.policy = task[p].policy
      /\ u.iAmOverdue = task[p].iAmOverdue /\ u.iWasShort = task[p].iWasShort
      /\ u.static_prio \in Prio /\ u.overdue_static_prio \in Prio
  <2>1. task[p].static_prio \in Prio /\ task[p].overdue_static_prio \in Prio /\ IsStruct(task[p])
    BY Base DEF task_struct
  <2>2. CASE u = task[p]
    BY <2>1, <2>2
  <2>3. CASE u = [task[p] EXCEPT !.static_prio = static]
    BY <2>1, <2>3 DEF IsStruct
  <2>4. CASE u = [task[p] EXCEPT !.overdue_static_prio = static]
    BY <2>1, <2>4 DEF IsStruct
  <2> QED BY <1>2, <2>2, <2>3, <2>4 DEF Reniced
<1>4. /\ Class(u) = Class(task[p]) /\ Class(u) # "none" /\ UserNice(u) \in Prio
      /\ (Marked(u) <=> Marked(task[p]))
  BY <1>1, <1>3 DEF Class, UserNice, short_task, overdue_task, other_task, Marked
<1>5. Policies' /\ FacesUpdate(p, u) /\ rq'.curr = rq.curr
  <2>1. Marked(u)
    BY <1>4, Base DEF Policies, AllMarked
  <2> QED BY <1>1, <1>2, <2>1, Caller, CallKeeps
<1> DEFINE c == [q \in Task |-> Class(task[q])]
           n == [q \in Task |-> UserNice(task[q])]
           w == [q \in Task |-> task[q].iWasShort]
<1>6. /\ c' = [c EXCEPT ![p] = Class(u)] /\ w' = [w EXCEPT ![p] = u.iWasShort]
      /\ n' = [n EXCEPT ![p] = UserNice(u)]
  BY <1>5, Update
<1>7. c' = c /\ w' = w /\ c[p] # "none"
  BY <1>3, <1>4, <1>6
<1>8. Lifecycle!Renice(p)
  <2> HIDE DEF c, n, w
  <2>1. rq.curr # Idle
    BY <1>1, Caller
  <2>2. \E k \in Prio : n' = [n EXCEPT ![p] = k]
    BY <1>4, <1>6
  <2> QED BY <1>5, <1>7, <2>1, <2>2 DEF Lifecycle!Renice, c, n, w
<1> QED BY <1>5, <1>8 DEF Refines, Lifecycle!Next

\* After an action that leaves no do_fork() under way.
LEMMA NobodyForks ==
    ASSUME IInv, Policies, rq.panic = "none", AllMarked',
           ReturnsToUser \/ (UNCHANGED pc /\ ~InFork(pc[current]))
    PROVE  Policies'
<1>1. \A q \in Task : ~InFork(pc'[q])
  BY Before, Base DEF ReturnsToUser, InFork, Policies, ForkAlone
<1>2. ForkAlone' /\ CopyFollows'
  BY <1>1 DEF ForkAlone, CopyFollows, InFork
<1> QED BY <1>2 DEF Policies

\* The child copied is a new process of its parent's class.
LEMMA ForkCopyRefines ==
    ASSUME IInv, Policies, NEW c \in Task, ForkCopy(c) PROVE Refines
<1> DEFINE u == fork_copy(task[current])
           class == [q \in Task |-> Class(task[q])]
           nice == [q \in Task |-> UserNice(task[q])]
           was == [q \in Task |-> task[q].iWasShort]
<1>1. /\ InKernel /\ task[c].state = "UNUSED" /\ task' = [task EXCEPT ![c] = u]
      /\ child' = [child EXCEPT ![current] = c] /\ rq' = rq
      /\ pc' = [pc EXCEPT ![current] = "fork_copied", ![c] = "user"]
  BY DEF ForkCopy
<1>2. /\ rq.panic = "none" /\ current \in Task /\ rq.curr # Idle /\ rq.curr = current
      /\ current # c /\ task[current].state = "RUNNING" /\ IsStruct(task[current])
      /\ task \in [AllTask -> task_struct] /\ pc \in [AllTask -> KernelStep]
      /\ child \in [Task -> Task \cup {NoChild}]
  BY <1>1, Caller, Base DEF IInv, TypeOK
<1>3. /\ u.state = "UNINTERRUPTIBLE" /\ u.policy = task[current].policy
      /\ u.iAmOverdue = task[current].iAmOverdue /\ u.static_prio = task[current].static_prio
      /\ u.overdue_static_prio = task[current].overdue_static_prio
      /\ u.iWasShort = task[current].iWasShort
  BY <1>2 DEF fork_copy, IsStruct
<1> HIDE DEF u
<1>4. SameFace(u, task[current]) /\ (Marked(u) <=> Marked(task[current]))
  BY <1>2, <1>3 DEF SameFace, Class, UserNice, short_task, overdue_task, other_task, Marked
<1>5. \A q \in AllTask : task'[q] = IF q = c THEN u ELSE task[q]
  BY <1>1, <1>2
<1>6. \A q \in AllTask : pc'[q] = IF q = c THEN "user"
                                  ELSE IF q = current THEN "fork_copied" ELSE pc[q]
  BY <1>1, <1>2, Base
<1>7. Policies'
  <2>1. AllMarked'
    <3>1. \A q \in AllTask : Marked(task'[q])
      BY <1>2, <1>4, <1>5, Base DEF Policies, AllMarked
    <3> QED BY <3>1 DEF AllMarked, Marked
  <2>2. current' = current
    BY <1>1 DEF current
  <2>3. \A q \in Task : InFork(pc'[q]) => q = current
    BY <1>6, Base DEF Policies, ForkAlone, InFork
  <2>4. ForkAlone'
    BY <2>2, <2>3 DEF ForkAlone, InFork
  <2>5. task'[current].policy = task'[c].policy /\ child'[current] = c
    BY <1>1, <1>2, <1>3, <1>5, Base
  <2>6. CopyFollows'
    BY <2>3, <2>5 DEF CopyFollows, InFork
  <2> QED BY <2>1, <2>4, <2>6 DEF Policies
<1>8. FacesUpdate(c, u)
  BY <1>5, Base DEF FacesUpdate, SameFace
<1>9. /\ class' = [class EXCEPT ![c] = Class(u)] /\ nice' = [nice EXCEPT ![c] = UserNice(u)]
      /\ was' = [was EXCEPT ![c] = u.iWasShort]
  BY <1>8, Update
<1>10. /\ class[c] = "none" /\ Class(u) = class[current] /\ UserNice(u) = nice[current]
       /\ u.iWasShort = was[current]
  <2>1. class[c] = "none"
    BY <1>1 DEF Class
  <2> QED BY <1>2, <1>4, <2>1 DEF SameFace
<1>11. Lifecycle!Fork(c)
  <2> HIDE DEF class, nice, was
  <2>1. /\ class' = [class EXCEPT ![c] = class[rq.curr]]
        /\ nice' = [nice EXCEPT ![c] = nice[rq.curr]]
        /\ was' = [was EXCEPT ![c] = was[rq.curr]]
    BY <1>2, <1>9, <1>10
  <2> QED BY <1>1, <1>2, <1>10, <2>1 DEF Lifecycle!Fork, class, nice, was
<1> QED BY <1>7, <1>11 DEF Refines, Lifecycle!Next

\* A process that is not there any more.
LEMMA Removed ==
    ASSUME NEW p \in Task, rq'.curr = rq.curr, rq.curr \notin {Idle, p},
           task[p].state # "UNUSED", FacesUpdate(p, UnusedTask)
    PROVE  Lifecycle!Remove(p)
<1> DEFINE class == [q \in Task |-> Class(task[q])]
           nice == [q \in Task |-> UserNice(task[q])]
           was == [q \in Task |-> task[q].iWasShort]
<1>1. Class(UnusedTask) = "none" /\ UnusedTask.iWasShort = FALSE
      /\ UserNice(UnusedTask) \in Prio
  BY Constants DEF UnusedTask, Class, UserNice, overdue_task
<1>2. class[p] # "none"
  BY DEF Class
<1>3. /\ class' = [class EXCEPT ![p] = Class(UnusedTask)]
      /\ nice' = [nice EXCEPT ![p] = UserNice(UnusedTask)]
      /\ was' = [was EXCEPT ![p] = UnusedTask.iWasShort]
  BY Update
<1> HIDE DEF class, nice, was
<1>4. /\ class' = [class EXCEPT ![p] = "none"] /\ was' = [was EXCEPT ![p] = FALSE]
      /\ \E n \in Prio : nice' = [nice EXCEPT ![p] = n]
  BY <1>1, <1>3
<1> QED BY <1>2, <1>4 DEF Lifecycle!Remove, class, nice, was

LEMMA MarkedUnused == Marked(UnusedTask)
  BY DEF Marked, UnusedTask

LEMMA ForkFailRefines == ASSUME IInv, Policies, ForkFail PROVE Refines
<1>1. PICK c : c = child[current]
  OBVIOUS
<1>2. /\ rq.panic = "none" /\ InFork(pc[current]) /\ ReturnsToUser /\ rq' = rq
      /\ task' = [task EXCEPT ![c] = UnusedTask]
  BY <1>1 DEF ForkFail, InFork
<1>3. /\ c \in Task \ {current} /\ Life(task[c]) = "alive" /\ current \in Task
      /\ rq.curr = current /\ rq.curr # Idle /\ task \in [AllTask -> task_struct]
  <2>1. pc[current] # "user"
    BY <1>2 DEF InFork
  <2> QED BY <1>1, <1>2, <2>1, InForkCall, InCall, Base DEF IInv, TypeOK
<1>4. task[c].state # "UNUSED"
  BY <1>3 DEF Life
<1>5. \A q \in AllTask : task'[q] = IF q = c THEN UnusedTask ELSE task[q]
  BY <1>2, <1>3
<1>6. Policies'
  <2>1. \A q \in AllTask : Marked(task'[q])
    BY <1>5, MarkedUnused DEF Policies, AllMarked
  <2>2. AllMarked'
    BY <2>1 DEF AllMarked, Marked
  <2> QED BY <1>2, <2>2, NobodyForks
<1>7. FacesUpdate(c, UnusedTask)
  BY <1>5, Base DEF FacesUpdate, SameFace
<1>8. Lifecycle!Remove(c)
  BY <1>2, <1>3, <1>4, <1>7, Removed
<1> QED BY <1>3, <1>6, <1>8 DEF Refines, Lifecycle!Next

LEMMA ReapRefines == ASSUME IInv, Policies, NEW p \in Task, Reap(p) PROVE Refines
<1> DEFINE S1 == sched_exit(Kernel, p)
           t(s) == [task[current] EXCEPT !.time_slice = s]
<1>1. /\ InKernel /\ ReturnsToUser /\ task[p].state = "ZOMBIE"
      /\ Becomes(put_task(S1, p, UnusedTask))
  BY DEF Reap
<1>2. /\ rq.panic = "none" /\ current \in Task /\ rq.curr # Idle /\ rq.curr = current
      /\ current # p /\ task[current].state = "RUNNING" /\ IsStruct(task[current])
      /\ Marked(task[current])
  BY <1>1, Caller, Base DEF Policies, AllMarked
<1>3. PICK s : Changes(Kernel, S1, current, t(s))
  <2>1. /\ Records(Kernel) /\ Kernel.rq.curr = current /\ Kernel.task = task
        /\ current \in AllTask
    BY Base
  <2> QED BY <2>1, ExitChanges
<1>4. SameFace(t(s), task[current]) /\ Marked(t(s))
  BY <1>2 DEF IsStruct, SameFace, Class, UserNice, short_task, overdue_task, other_task, Marked
<1> HIDE DEF S1, t
<1>5. \A q \in AllTask : SameFace(S1.task[q], task[q]) /\ Marked(S1.task[q])
  <2> SUFFICES ASSUME NEW q \in AllTask
               PROVE  SameFace(S1.task[q], task[q]) /\ Marked(S1.task[q])
    OBVIOUS
  <2>1. Account(S1.task[q]) = Account(IF q = current THEN t(s) ELSE task[q])
    BY <1>3, Base DEF Changes
  <2>2. /\ SameFace(S1.task[q], IF q = current THEN t(s) ELSE task[q])
        /\ Marked(S1.task[q]) <=> Marked(IF q = current THEN t(s) ELSE task[q])
    BY <2>1, AccountFace
  <2> QED BY <1>4, <2>2 DEF Policies, AllMarked, SameFace
<1>6. \A q \in AllTask : task'[q] = IF q = p THEN UnusedTask ELSE S1.task[q]
  <2>1. task' = [S1.task EXCEPT ![p] = UnusedTask] /\ DOMAIN S1.task = AllTask
    BY <1>1, <1>3 DEF Becomes, put_task, Changes, Records
  <2> QED BY <2>1
<1>7. rq'.curr = rq.curr
  BY <1>1, <1>3, Base DEF Becomes, put_task, Changes
<1>8. Policies'
  <2>1. \A q \in AllTask : Marked(task'[q])
    BY <1>5, <1>6, MarkedUnused
  <2>2. AllMarked'
    BY <2>1 DEF AllMarked, Marked
  <2> QED BY <1>1, <1>2, <2>2, NobodyForks
<1>9. FacesUpdate(p, UnusedTask)
  BY <1>5, <1>6, Base DEF FacesUpdate, SameFace
<1>10. Lifecycle!Remove(p)
  BY <1>1, <1>2, <1>7, <1>9, Removed
<1> QED BY <1>8, <1>10 DEF Refines, Lifecycle!Next

LEMMA ExitRefines == ASSUME IInv, Policies, Exit PROVE Refines
<1>1. /\ InKernel /\ rq' = rq /\ UNCHANGED pc
      /\ task' = [p \in AllTask |->
                    IF p = current THEN [task[p] EXCEPT !.state = "ZOMBIE"]
                    ELSE IF p # Idle /\ task[p].state # "UNUSED" /\ task[p].p_opptr = current
                         THEN [task[p] EXCEPT !.p_opptr = Reaper]
                    ELSE task[p]]
  BY DEF Exit
<1>2. rq.panic = "none" /\ task[current].state = "RUNNING" /\ ~InFork(pc[current])
  BY <1>1, Caller DEF InFork
<1>3. ASSUME NEW q \in AllTask
      PROVE  SameFace(task'[q], task[q]) /\ (Marked(task'[q]) <=> Marked(task[q]))
  <2> DEFINE t == task[q]
             u1 == [t EXCEPT !.state = "ZOMBIE"]
             u2 == [t EXCEPT !.p_opptr = Reaper]
  <2>1. IsStruct(t)
    BY Base
  <2>2. /\ q = current => task'[q] = u1
        /\ q # current => task'[q] \in {u2, t}
    BY <1>1
  <2>3. \A u : /\ u.policy = t.policy /\ u.iAmOverdue = t.iAmOverdue
               /\ u.static_prio = t.static_prio /\ u.iWasShort = t.iWasShort
               /\ u.overdue_static_prio = t.overdue_static_prio
               /\ (u.state = "UNUSED") = (t.state = "UNUSED")
               => SameFace(u, t) /\ (Marked(u) <=> Marked(t))
    BY DEF SameFace, Class, UserNice, short_task, overdue_task, other_task, Marked
  <2>4. /\ u1.policy = t.policy /\ u1.iAmOverdue = t.iAmOverdue
        /\ u1.static_prio = t.static_prio /\ u1.iWasShort = t.iWasShort
        /\ u1.overdue_static_prio = t.overdue_static_prio /\ u1.state = "ZOMBIE"
    BY <2>1 DEF IsStruct
  <2>5. /\ u2.policy = t.policy /\ u2.iAmOverdue = t.iAmOverdue
        /\ u2.static_prio = t.static_prio /\ u2.iWasShort = t.iWasShort
        /\ u2.overdue_static_prio = t.overdue_static_prio /\ u2.state = t.state
    BY <2>1 DEF IsStruct
  <2> HIDE DEF u1, u2
  <2>6. CASE q = current
    <3>1. t.state = "RUNNING"
      BY <1>2, <2>6
    <3> HIDE DEF t
    <3>2. SameFace(u1, t) /\ (Marked(u1) <=> Marked(t))
      BY <2>3, <2>4, <3>1
    <3> QED BY <2>2, <2>6, <3>2 DEF t
  <2>7. CASE q # current
    <3>1. SameFace(u2, t) /\ (Marked(u2) <=> Marked(t))
      BY <2>3, <2>5
    <3>2. SameFace(t, t)
      BY DEF SameFace
    <3> QED BY <2>2, <2>7, <3>1, <3>2
  <2> QED BY <2>6, <2>7
<1>4. Policies'
  <2>1. \A q \in AllTask : Marked(task'[q])
    BY <1>3 DEF Policies, AllMarked
  <2>2. AllMarked'
    BY <2>1 DEF AllMarked, Marked
  <2> QED BY <1>1, <1>2, <2>2, NobodyForks
<1>5. UNCHANGED Lifecycle!vars
  BY <1>1, <1>3, Base, Stutter
<1> QED BY <1>4, <1>5 DEF Refines

\* What the parent keeps makes no difference to its class.
LEMMA SplitLapses ==
    ASSUME NEW t, IsStruct(t), t.iAmOverdue \in BOOLEAN, Marked(t), NEW u, NEW bonus,
           u = parent_slice(t) \/ Ticked(last_tick(t), u, bonus)
    PROVE  Lapses(t, u)
<1> DEFINE u1 == parent_slice(t)
           u2 == last_tick(t)
<1>1. IsStruct(u1) /\ IsStruct(u2)
  BY DEF parent_slice, last_tick, IsStruct
<1>2. /\ u1.state = t.state /\ u1.policy = t.policy
      /\ u1.iAmOverdue = t.iAmOverdue /\ u1.static_prio = t.static_prio
      /\ u1.overdue_static_prio = t.overdue_static_prio /\ u1.iWasShort = t.iWasShort
  BY DEF parent_slice, IsStruct
<1>3. /\ u2.state = t.state /\ u2.policy = t.policy
      /\ u2.iAmOverdue = t.iAmOverdue /\ u2.static_prio = t.static_prio
      /\ u2.overdue_static_prio = t.overdue_static_prio /\ u2.iWasShort = t.iWasShort
  BY <1>1, <1>2 DEF last_tick, IsStruct
<1>4. CASE u = u1
  <2> HIDE DEF u1
  <2> QED BY <1>2, <1>4
          DEF Lapses, Class, UserNice, short_task, overdue_task, other_task, Marked
<1>5. CASE Ticked(u2, u, bonus)
  <2> HIDE DEF u2
  <2>1. Marked(u2) /\ u2.iAmOverdue \in BOOLEAN
    BY <1>3 DEF Marked
  <2>2. Lapses(u2, u)
    BY <1>1, <1>5, <2>1, TickedLapses
  <2>3. Class(u2) = Class(t) /\ UserNice(u2) = UserNice(t)
    BY <1>3 DEF Class, UserNice, short_task, overdue_task, other_task
  <2> QED BY <1>3, <2>2, <2>3 DEF Lapses
<1> QED BY <1>4, <1>5 DEF u1, u2

\* What the child gets makes none either: it is a copy of its parent.
LEMMA ChildFace ==
    ASSUME NEW t, NEW u, IsStruct(u), t.policy = "SHORT" => u.policy = "SHORT"
    PROVE  SameFace(child_slice(t, u), u) /\ (Marked(child_slice(t, u)) <=> Marked(u))
<1> DEFINE v == child_slice(t, u)
<1>1. /\ v.state = u.state /\ v.policy = u.policy /\ v.iAmOverdue = u.iAmOverdue
      /\ v.static_prio = u.static_prio /\ v.iWasShort = u.iWasShort
      /\ v.overdue_static_prio = u.overdue_static_prio
  BY DEF child_slice, IsStruct
<1> HIDE DEF v
<1>2. SameFace(v, u) /\ (Marked(v) <=> Marked(u))
  BY <1>1 DEF SameFace, Class, UserNice, short_task, overdue_task, other_task, Marked
<1> QED BY <1>2 DEF v

LEMMA ForkSplitRefines == ASSUME IInv, Policies, ForkSplit PROVE Refines
<1> DEFINE t == task[current]
<1>1. /\ rq.panic = "none" /\ pc[current] = "fork_copied" /\ InFork(pc[current])
      /\ pc' = [pc EXCEPT ![current] = "fork_split"]
  BY DEF ForkSplit, InFork
<1>2. PICK c : c = child[current]
  OBVIOUS
<1>3. PICK b, toExpired : Becomes(fork_split(Kernel, current, c, b, toExpired))
  BY <1>2 DEF ForkSplit
<1>4. c \in AllTask \ {current} /\ current \in Task
  <2>1. pc[current] # "user"
    BY <1>1
  <2> QED BY <1>1, <1>2, <2>1, InForkCall, InCall, Base
<1>5. /\ IsStruct(t) /\ t.iAmOverdue \in BOOLEAN /\ Marked(t) /\ IsStruct(task[c])
      /\ t.policy = "SHORT" => task[c].policy = "SHORT"
  BY <1>1, <1>2, <1>4, Base DEF Policies, AllMarked, CopyFollows
<1> DEFINE v == child_slice(t, task[c])
           S2 == fork_split(Kernel, current, c, b, toExpired)
<1>6. SameFace(v, task[c]) /\ (Marked(v) <=> Marked(task[c]))
  BY <1>5, ChildFace
<1>7. \/ S2 = put_rq(Kernel, [Kernel.rq EXCEPT !.panic = "BUG"])
      \/ \E u : /\ u = parent_slice(t) \/ Ticked(last_tick(t), u, b)
                /\ Splits2(Kernel, S2, current, c, u, v)
  <2>1. /\ Records(Kernel) /\ Kernel.rq.curr = current /\ Kernel.task = task
        /\ current \in AllTask
    BY Base
  <2> QED BY <1>4, <2>1, SplitChanges
<1>8. task' = S2.task /\ rq' = S2.rq
  BY <1>3 DEF Becomes
<1> HIDE DEF S2, v, t
<1>9. PICK u : /\ Lapses(t, u) /\ rq'.curr = rq.curr
               /\ \A q \in AllTask :
                    LET w == IF q = current THEN u ELSE task[q]
                    IN  SameFace(task'[q], w) /\ (Marked(task'[q]) <=> Marked(w))
  <2>1. CASE S2 = put_rq(Kernel, [Kernel.rq EXCEPT !.panic = "BUG"])
    <3>1. Lapses(t, t)
      BY <1>5 DEF Lapses
    <3>2. task' = task /\ rq'.curr = rq.curr
      BY <1>8, <2>1, Base DEF put_rq, Records, IsRunqueue
    <3>3. \A q \in AllTask : /\ (IF q = current THEN t ELSE task[q]) = task'[q]
                            /\ SameFace(task'[q], task'[q])
      BY <3>2 DEF t, SameFace
    <3> QED BY <3>1, <3>2, <3>3
  <2>2. ASSUME NEW u, u = parent_slice(t) \/ Ticked(last_tick(t), u, b),
               Splits2(Kernel, S2, current, c, u, v)
        PROVE  /\ Lapses(t, u) /\ rq'.curr = rq.curr
               /\ \A q \in AllTask :
                    LET w == IF q = current THEN u ELSE task[q]
                    IN  SameFace(task'[q], w) /\ (Marked(task'[q]) <=> Marked(w))
    <3>1. Lapses(t, u)
      BY <1>5, <2>2, SplitLapses
    <3>2. /\ rq'.curr = rq.curr
          /\ \A q \in AllTask : Account(task'[q]) = Account(IF q = current THEN u
                                                            ELSE IF q = c THEN v ELSE task[q])
      BY <1>8, <2>2, Base DEF Splits2
    <3>3. \A q \in AllTask :
            LET w == IF q = current THEN u ELSE IF q = c THEN v ELSE task[q]
            IN  SameFace(task'[q], w) /\ (Marked(task'[q]) <=> Marked(w))
      BY <3>2, AccountFace
    <3> QED BY <1>4, <1>6, <3>1, <3>2, <3>3 DEF SameFace
  <2> QED BY <1>7, <2>1, <2>2
<1>10. Policies'
  <2>1. \A q \in AllTask : Marked(task'[q])
    BY <1>9 DEF Policies, AllMarked, Lapses
  <2>2. AllMarked'
    BY <2>1 DEF AllMarked, Marked
  <2>3. \A q \in Task : /\ InFork(pc'[q]) => q = current
                        /\ pc'[q] # "fork_copied"
    <3>1. \A q \in Task : pc'[q] = IF q = current THEN "fork_split" ELSE pc[q]
      BY <1>1, <1>4, Base DEF IInv, TypeOK
    <3> QED BY <3>1 DEF Policies, ForkAlone, InFork
  <2>4. current' = current
    BY <1>9 DEF current
  <2>5. ForkAlone' /\ CopyFollows'
    BY <2>3, <2>4 DEF ForkAlone, CopyFollows, InFork
  <2> QED BY <2>2, <2>5 DEF Policies
<1>11. FacesUpdate(current, u)
  BY <1>9, Base DEF FacesUpdate
<1> QED BY <1>9, <1>10, <1>11, LapseRefines DEF Refines, t

LEMMA ForkWakeRefines ==
    ASSUME IInv, Policies, NEW clone_parent, ForkWake(clone_parent) PROVE Refines
<1>1. rq.panic = "none" /\ InFork(pc[current]) /\ ReturnsToUser
  BY DEF ForkWake, InFork
<1>2. PICK c : c = child[current]
  OBVIOUS
<1>3. PICK k : Becomes(fork_wake(Kernel, current, c, clone_parent, k))
  BY <1>2 DEF ForkWake
<1>4. c \in AllTask /\ task[c].state # "UNUSED"
  BY <1>1, <1>2, InForkCall, Base DEF Life
<1> DEFINE S2 == fork_wake(Kernel, current, c, clone_parent, k)
<1>5. Still(Kernel, S2)
  BY <1>4, Base, StillForkWake
<1>6. task' = S2.task /\ rq' = S2.rq
  BY <1>3 DEF Becomes
<1> HIDE DEF S2
<1>7. rq'.curr = rq.curr /\ \A q \in AllTask : Account(task'[q]) = Account(task[q])
  BY <1>5, <1>6, Base DEF Still, Keeps
<1>8. \A q \in AllTask : SameFace(task'[q], task[q]) /\ (Marked(task'[q]) <=> Marked(task[q]))
  BY <1>7, AccountFace
<1>9. Policies'
  <2>1. \A q \in AllTask : Marked(task'[q])
    BY <1>8 DEF Policies, AllMarked
  <2>2. AllMarked'
    BY <2>1 DEF AllMarked, Marked
  <2> QED BY <1>1, <2>2, NobodyForks
<1>10. UNCHANGED Lifecycle!vars
  BY <1>7, <1>8, Base, Stutter
<1> QED BY <1>9, <1>10 DEF Refines

\* Every step of the kernel preserves Policies and implements ShortPolicy.
LEMMA NextRefines ==
    ASSUME IInv, IInv', Policies, "fork_block" \notin Workload, Next PROVE Refines
<1>1. CASE Tick
  BY <1>1, TickRefines
<1>2. CASE Reschedule
  BY <1>2, RescheduleRefines
<1>3. CASE SysEnter
  BY <1>3, SysEnterRefines
<1>4. CASE SysReturn
  BY <1>4, SysReturnRefines
<1>5. CASE Yield
  BY <1>5, YieldRefines
<1>6. CASE \E s \in {"RUNNING", "INTERRUPTIBLE", "UNINTERRUPTIBLE"} : SetState(s)
  <2>1. {"RUNNING", "INTERRUPTIBLE", "UNINTERRUPTIBLE"} = State \ {"ZOMBIE", "UNUSED"}
    BY DEF State
  <2> QED BY <1>6, <2>1, SetStateRefines
<1>7. ASSUME NEW p \in Task,
             \/ Wake(p) \/ Reap(p) \/ ForkCopy(p)
             \/ \E ms \in ReqTimes : RenewShort(p, ms) \/ MakeShort(p, ms)
             \/ \E k \in UserPrio : SetNice(p, k)
             \/ SetNormal(p, "OTHER", DefaultPrio)
             \/ \E policy \in {"FIFO", "RR"}, k \in 0 .. MAX_RT_PRIO - 2 : SetNormal(p, policy, k)
      PROVE  Refines
  <2>1. CASE Wake(p)
    BY <2>1, WakeRefines
  <2>2. CASE Reap(p)
    BY <2>2, ReapRefines
  <2>3. CASE ForkCopy(p)
    BY <2>3, ForkCopyRefines
  <2>4. CASE \E ms \in ReqTimes : RenewShort(p, ms) \/ MakeShort(p, ms)
    BY <2>4, RenewShortRefines, MakeShortRefines
  <2>5. CASE \E k \in UserPrio : SetNice(p, k)
    BY <2>5, SetNiceRefines, Constants
  <2>6. CASE SetNormal(p, "OTHER", DefaultPrio)
    BY <2>6, SetNormalRefines
  <2>7. CASE \E policy \in {"FIFO", "RR"}, k \in 0 .. MAX_RT_PRIO - 2 : SetNormal(p, policy, k)
    BY <2>7, SetNormalRefines
  <2> QED BY <1>7, <2>1, <2>2, <2>3, <2>4, <2>5, <2>6, <2>7
<1>8. CASE ForkFail
  BY <1>8, ForkFailRefines
<1>9. CASE ForkSplit
  BY <1>9, ForkSplitRefines
<1>10. CASE \E cp \in BOOLEAN : ForkWake(cp)
  BY <1>10, ForkWakeRefines
<1>11. CASE Exit
  BY <1>11, ExitRefines
<1> QED BY <1>1, <1>2, <1>3, <1>4, <1>5, <1>6, <1>7, <1>8, <1>9, <1>10, <1>11 DEF Next

LEMMA StutterRefines == ASSUME Policies, UNCHANGED vars PROVE Refines
<1>1. task' = task /\ rq' = rq /\ pc' = pc /\ child' = child
  BY DEF vars
<1>2. Policies'
  BY <1>1 DEF Policies, AllMarked, Marked, ForkAlone, CopyFollows, current, InFork
<1>3. UNCHANGED Lifecycle!vars
  BY <1>1, Stutter DEF SameFace
<1> QED BY <1>2, <1>3 DEF Refines

LEMMA InitRefines == ASSUME Init PROVE Policies /\ Lifecycle!Init
<1>1. /\ task = [p \in AllTask |-> IF p = Idle THEN IdleTask
                                   ELSE IF p \in InitTasks THEN BootTask(p) ELSE UnusedTask]
      /\ pc = [p \in AllTask |-> "user"]
      /\ rq.curr = Idle
  BY DEF Init
<1>2. /\ \A p \in Task : /\ BootTask(p).state = "RUNNING"
                         /\ BootTask(p).policy = "OTHER" /\ BootTask(p).iAmOverdue = FALSE
                         /\ BootTask(p).static_prio = DefaultPrio
                         /\ BootTask(p).iWasShort = FALSE
      /\ IdleTask.policy = "OTHER" /\ IdleTask.iAmOverdue = FALSE
      /\ UnusedTask.state = "UNUSED" /\ UnusedTask.policy = "OTHER"
      /\ UnusedTask.iAmOverdue = FALSE /\ UnusedTask.static_prio = DefaultPrio
      /\ UnusedTask.iWasShort = FALSE
  BY DEF BootTask, IdleTask, UnusedTask
<1>3. \A p \in AllTask : task[p].iAmOverdue = FALSE
  <2> HIDE DEF BootTask, IdleTask, UnusedTask
  <2> QED BY <1>1, <1>2 DEF AllTask
<1>4. Policies
  BY <1>1, <1>3 DEF Policies, AllMarked, Marked, ForkAlone, CopyFollows, InFork, AllTask
<1>5. \A p \in Task : /\ Class(task[p]) \in {"none", "other"} /\ UserNice(task[p]) = DefaultPrio
                      /\ task[p].iWasShort = FALSE
  <2> SUFFICES ASSUME NEW p \in Task
               PROVE  /\ Class(task[p]) \in {"none", "other"} /\ UserNice(task[p]) = DefaultPrio
                      /\ task[p].iWasShort = FALSE
    OBVIOUS
  <2>1. task[p] \in {BootTask(p), UnusedTask}
    BY <1>1, Constants DEF AllTask
  <2>2. /\ task[p].policy = "OTHER" /\ task[p].static_prio = DefaultPrio
        /\ task[p].iWasShort = FALSE
    BY <1>2, <2>1
  <2> QED BY <2>2 DEF Class, UserNice, short_task, overdue_task, other_task
<1>6. /\ [p \in Task |-> Class(task[p])] \in [Task -> {"none", "other"}]
      /\ [p \in Task |-> UserNice(task[p])] \in [Task -> Prio]
      /\ [p \in Task |-> task[p].iWasShort] = [p \in Task |-> FALSE]
  BY <1>5, Constants
<1>7. Lifecycle!Init
  BY <1>1, <1>6 DEF Lifecycle!Init
<1> QED BY <1>4, <1>7

(***************************************************************************)
(* Whatever the tasks, priorities, slices and requests are, the scheduler  *)
(* and do_fork() take a process through the life ControlPaths.txt draws:   *)
(* SHORT on request only, overdue and OTHER again while it has the CPU,    *)
(* with the nice value its user gave it all the time.  The assumption is   *)
(* that do_fork() does not wait while it copies: while it does, another    *)
(* process can make the parent SHORT, and do_fork() gives that policy to a *)
(* child copied before (run V_fork_bug).                                   *)
(***************************************************************************)
THEOREM PolicyCorrect ==
    ASSUME "fork_block" \notin Workload
    PROVE  Spec => ImplementsShortPolicy
<1>1. Init => IInv /\ Policies /\ Lifecycle!Init
  BY InitIInv, InitRefines
<1>2. IInv /\ [Next]_vars => IInv'
  BY StepNext, StepStutter
<1>3. IInv /\ IInv' /\ Policies /\ [Next]_vars => Policies' /\ [Lifecycle!Next]_(Lifecycle!vars)
  BY NextRefines, StutterRefines DEF Refines
<1> QED BY <1>1, <1>2, <1>3, PTL DEF Spec, ImplementsShortPolicy, Lifecycle!Spec

-----------------------------------------------------------------------------
(* Time.  Who exists has some, if requests are modest; and if nobody       *)
(* forks, a SHORT task has no more than it asked for.                      *)

\* The most anybody can own: a slice, or the overdue time of three seconds.
SliceMax == IF 6 * HZ > MAX_TIMESLICE THEN 6 * HZ ELSE MAX_TIMESLICE

\* do_fork() does not wait, nobody asks for negative time, and two slices fit
\* in an unsigned int.
Modest == "fork_block" \notin Workload /\ ReqTimes \subseteq Nat /\ 2 * SliceMax < UINT

\* The time a SHORT task can have.
Grant(t) == IF t.iAmOverdue THEN 2 * t.requestedTime ELSE t.requestedTime

\* A task that exists has time left, no more than the largest slice; a SHORT one
\* asked for a legal amount.
Solvent(t) ==
    /\ t.state = "UNUSED" => t.policy = "OTHER"
    /\ t.state # "UNUSED" =>
         /\ t.time_slice \in 1 .. SliceMax
         /\ t.static_prio \in UserPrio
         /\ t.policy = "SHORT" => t.requestedTime \in 1 .. 3 * HZ
         /\ overdue_task(t) => t.overdue_static_prio \in UserPrio

\* Nobody has a slice to give back, and a SHORT task whose last request was not
\* negative has some time, and no more than its grant.
Granted(t) ==
    /\ ~t.first_time_slice
    /\ t.policy = "SHORT" /\ t.requestedTime >= 0 =>
         t.requestedTime \in 1 .. 3 * HZ /\ t.time_slice \in 1 .. Grant(t)

Funded(t) == (Modest => Solvent(t)) /\ ("fork" \notin Workload => Granted(t))

LEMMA AccountFunded ==
    ASSUME NEW t, NEW u, Account(t) = Account(u), Funded(t)
    PROVE  Funded(u)
<1>1. /\ (t.state = "UNUSED") = (u.state = "UNUSED") /\ t.policy = u.policy
      /\ t.iAmOverdue = u.iAmOverdue /\ t.static_prio = u.static_prio
      /\ t.overdue_static_prio = u.overdue_static_prio
      /\ t.requestedTime = u.requestedTime /\ t.time_slice = u.time_slice
      /\ t.first_time_slice = u.first_time_slice
  BY DEF Account
<1>2. overdue_task(t) = overdue_task(u) /\ Grant(t) = Grant(u)
  BY <1>1 DEF overdue_task, Grant
<1>3. Solvent(t) => Solvent(u)
  BY <1>1, <1>2 DEF Solvent
<1>4. Granted(t) => Granted(u)
  BY <1>1, <1>2 DEF Granted
<1> QED BY <1>3, <1>4 DEF Funded

LEMMA SliceMaxFacts ==
    /\ SliceMax \in Nat /\ HZ \in Nat /\ HZ > 0 /\ 6 * HZ <= SliceMax
    /\ MIN_TIMESLICE \in Nat /\ MAX_TIMESLICE \in Nat /\ 1 <= MIN_TIMESLICE
    /\ MIN_TIMESLICE <= MAX_TIMESLICE /\ MAX_TIMESLICE <= SliceMax /\ UINT \in Nat
    /\ SliceMax < UINT
  BY SchedAssumption DEF SliceMax

\* A number that fits is what it is.
LEMMA Fits == ASSUME NEW x \in 0 .. UINT - 1 PROVE x % UINT = x
  BY Constants

LEMMA Wraps == ASSUME NEW x \in 1 .. UINT PROVE (- x) % UINT = UINT - x
  BY Constants

LEMMA FullSlice ==
    ASSUME NEW t, t.static_prio \in UserPrio
    PROVE  TASK_TIMESLICE(t) \in MIN_TIMESLICE .. MAX_TIMESLICE
           /\ TASK_TIMESLICE(t) % UINT = TASK_TIMESLICE(t)
<1> DEFINE m == MAX_TIMESLICE - MIN_TIMESLICE
           d == MAX_PRIO - MAX_RT_PRIO - 1
           x == MAX_PRIO - 1 - t.static_prio
           y == (m * x) \div d
<1>1. m \in Nat /\ d \in Nat /\ d > 0 /\ x \in 0 .. d
  BY SchedAssumption, MaxPrioAssumption DEF UserPrio
<1>2. y \in 0 .. m
  <2> HIDE DEF m, d, x
  <2> QED BY <1>1, SliceRange
<1>3. TASK_TIMESLICE(t) = MIN_TIMESLICE + y
  BY DEF TASK_TIMESLICE
<1> HIDE DEF y
<1>4. TASK_TIMESLICE(t) \in MIN_TIMESLICE .. MAX_TIMESLICE
  BY <1>2, <1>3, SliceMaxFacts
<1>5. TASK_TIMESLICE(t) \in 0 .. UINT - 1
  BY <1>4, SchedAssumption
<1> QED BY <1>4, <1>5, Fits

LEMMA Jiffies ==
    ASSUME NEW ms \in Nat, ms <= 3000
    PROVE  CHANGE_MS_TO_JIFFIS(ms) \in 0 .. 3 * HZ
<1> DEFINE n == ms * HZ
<1>1. HZ \in Nat
  BY SchedAssumption
<1>2. n \in Nat /\ n <= 3000 * HZ
  <2>1. (3000 - ms) * HZ \in Nat
    BY <1>1
  <2>2. (3000 - ms) * HZ = 3000 * HZ - n
    BY <1>1
  <2> QED BY <1>1, <2>1, <2>2
<1>3. CHANGE_MS_TO_JIFFIS(ms) = n \div 1000
  BY DEF CHANGE_MS_TO_JIFFIS
<1> HIDE DEF n
<1>4. n \div 1000 \in 0 .. 3 * HZ
  BY <1>1, <1>2
<1> QED BY <1>3, <1>4

LEMMA SignedJiffies ==
    ASSUME NEW ms \in Int, ms <= 3000, CHANGE_MS_TO_JIFFIS(ms) >= 0
    PROVE  CHANGE_MS_TO_JIFFIS(ms) \in 0 .. 3 * HZ
<1>1. CASE ms >= 0
  BY <1>1, Jiffies
<1>2. CASE ms < 0
  <2> DEFINE n == - ms * HZ
  <2>1. n \in Nat
    BY <1>2, SchedAssumption
  <2>2. CHANGE_MS_TO_JIFFIS(ms) = - (n \div 1000)
    BY <1>2 DEF CHANGE_MS_TO_JIFFIS
  <2> HIDE DEF n
  <2>3. n \div 1000 \in Nat
    BY <2>1
  <2> HIDE DEF CHANGE_MS_TO_JIFFIS
  <2> QED BY <2>2, <2>3, SliceMaxFacts
<1> QED BY <1>1, <1>2

LEMMA Quotient ==
    ASSUME NEW n \in Nat, n > 0, NEW y \in Int
    PROVE  \E k \in Int : y = n * k + (y % n)
  BY y \div n \in Int, y = n * (y \div n) + (y % n)

LEMMA Distributes ==
    ASSUME NEW n \in Int, NEW k \in Int, NEW l \in Int
    PROVE  n * k \in Int /\ n * l \in Int /\ n * l + n * k = n * (l + k)
  OBVIOUS

LEMMA OneMultiple ==
    ASSUME NEW n \in Nat, n > 0, NEW z \in Int, n * z \in 1 - n .. n - 1
    PROVE  z = 0
<1>1. CASE z >= 1
  <2>1. n * (z - 1) >= 0
    BY <1>1
  <2>2. n * (z - 1) = n * z - n
    OBVIOUS
  <2> QED BY <2>1, <2>2
<1>2. CASE z <= -1
  <2>1. n * (- z - 1) >= 0
    BY <1>2
  <2>2. n * (- z - 1) = - (n * z) - n
    OBVIOUS
  <2> QED BY <2>1, <2>2
<1> QED BY <1>1, <1>2

LEMMA ModularRest ==
    ASSUME NEW x \in Int, NEW y \in Int, x - (y % UINT) \in 0 .. UINT - 1
    PROVE  (x - y) % UINT = x - (y % UINT)
<1> DEFINE r == x - (y % UINT)
           m == (x - y) % UINT
<1>1. UINT \in Nat /\ UINT > 0 /\ x - y \in Int
  BY Constants
<1>2. PICK k \in Int : y = UINT * k + (y % UINT)
  BY <1>1, Quotient
<1>3. PICK l \in Int : x - y = UINT * l + m
  BY <1>1, Quotient
<1>4. r \in 0 .. UINT - 1 /\ m \in 0 .. UINT - 1 /\ y % UINT \in Int
  BY <1>1
<1>5. UINT * k \in Int /\ UINT * l \in Int /\ UINT * l + UINT * k = UINT * (l + k)
  BY <1>1, Distributes
<1>6. x - y = r - UINT * k
  BY <1>2, <1>4, <1>5
<1> HIDE DEF r, m
<1>7. UINT * (l + k) = r - m
  BY <1>3, <1>4, <1>5, <1>6
<1>8. UINT * (l + k) \in 1 - UINT .. UINT - 1
  BY <1>1, <1>4, <1>7
<1>9. l + k = 0
  BY <1>1, <1>8, OneMultiple
<1>10. UINT * (l + k) = 0
  BY <1>1, <1>9
<1>11. r = m
  BY <1>4, <1>7, <1>10
<1> QED BY <1>11 DEF r, m

\* A tick takes one, and at zero there is a new slice, an overdue time, or a
\* slice of an OTHER task.
LEMMA TickSolvent ==
    ASSUME Modest, NEW t, IsStruct(t), t.state # "UNUSED", t.iAmOverdue \in BOOLEAN,
           Solvent(t), NEW u, NEW bonus, Ticked(t, u, bonus)
    PROVE  Solvent(u)
<1> DEFINE spent == tick_spent(t)
           slice == TASK_TIMESLICE(spent) % UINT
           again == [spent EXCEPT !.time_slice = slice, !.first_time_slice = FALSE,
                                  !.need_resched = TRUE]
<1>1. /\ t.time_slice \in 1 .. SliceMax /\ t.static_prio \in UserPrio
      /\ t.policy = "SHORT" => t.requestedTime \in 1 .. 3 * HZ
      /\ overdue_task(t) => t.overdue_static_prio \in UserPrio
  BY DEF Solvent
<1>2. (t.time_slice - 1) % UINT = t.time_slice - 1 /\ t.time_slice - 1 \in 0 .. SliceMax
  <2>1. t.time_slice - 1 \in 0 .. UINT - 1 /\ t.time_slice - 1 \in 0 .. SliceMax
    BY <1>1, SliceMaxFacts
  <2> QED BY <2>1, Fits
<1>3. /\ IsStruct(spent) /\ spent.state = t.state /\ spent.policy = t.policy
      /\ spent.iAmOverdue = t.iAmOverdue /\ spent.static_prio = t.static_prio
      /\ spent.overdue_static_prio = t.overdue_static_prio
      /\ spent.requestedTime = t.requestedTime
      /\ spent.first_time_slice = t.first_time_slice
      /\ spent.time_slice = t.time_slice - 1
  BY <1>2 DEF tick_spent, IsStruct
<1> HIDE DEF spent
<1>4. /\ overdue_task(spent) = overdue_task(t) /\ short_task(spent) = short_task(t)
  BY <1>3 DEF overdue_task, short_task
<1>5. slice \in MIN_TIMESLICE .. MAX_TIMESLICE
  BY <1>1, <1>3, FullSlice
<1> HIDE DEF slice
<1>6. CASE u = spent /\ spent.time_slice # 0
  <2>1. spent.time_slice \in 1 .. SliceMax /\ spent.time_slice <= t.time_slice
    BY <1>1, <1>2, <1>3, <1>6, SliceMaxFacts
  <2> QED BY <1>1, <1>3, <1>4, <1>6, <2>1 DEF Solvent
<1>7. CASE t.policy = "RR" /\ u = again
  <2>1. /\ again.state = t.state /\ again.policy = "RR" /\ again.static_prio = t.static_prio
        /\ again.first_time_slice = FALSE /\ again.time_slice = slice
    BY <1>3, <1>7 DEF IsStruct
  <2>2. slice \in 1 .. SliceMax
    BY <1>5, SliceMaxFacts
  <2> HIDE DEF again
  <2> QED BY <1>1, <1>7, <2>1, <2>2 DEF Solvent, overdue_task
<1>8. CASE u = refill(spent, bonus)
  <2> DEFINE w == lapse(spent)
  <2>1. IsStruct(w)
    BY <1>3 DEF lapse, IsStruct
  <2>2. /\ \/ overdue_task(t) /\ w.policy = "OTHER" /\ w.static_prio = t.overdue_static_prio
           \/ /\ short_task(t) /\ w.policy = "SHORT" /\ w.iAmOverdue = TRUE
              /\ w.static_prio = OVERDUE_PRIO /\ w.requestedTime = t.requestedTime
              /\ w.overdue_static_prio = t.static_prio
           \/ t.policy # "SHORT" /\ w.policy = t.policy /\ w.static_prio = t.static_prio
        /\ w.state = t.state
    <3>1. CASE overdue_task(spent)
      BY <1>3, <1>4, <3>1 DEF lapse, IsStruct
    <3>2. CASE ~overdue_task(spent) /\ short_task(spent)
      BY <1>3, <1>4, <3>2 DEF lapse, IsStruct, short_task
    <3>3. CASE ~overdue_task(spent) /\ ~short_task(spent)
      <4>1. t.policy # "SHORT" /\ w = spent
        BY <1>4, <3>3 DEF lapse, overdue_task, short_task
      <4> QED BY <1>3, <4>1
    <3> QED BY <3>1, <3>2, <3>3
  <2> DEFINE s == OS_TASK_TIMESLICE(w)
  <2>3. /\ u.state = w.state /\ u.policy = w.policy /\ u.iAmOverdue = w.iAmOverdue
        /\ u.static_prio = w.static_prio /\ u.overdue_static_prio = w.overdue_static_prio
        /\ u.requestedTime = w.requestedTime /\ u.first_time_slice = FALSE
        /\ u.time_slice = s
    <3> HIDE DEF w, s
    <3> QED BY <1>8, <2>1 DEF refill, IsStruct, w, s
  <2> HIDE DEF w
  <2>4. overdue_task(u) = overdue_task(w)
    BY <2>3 DEF overdue_task
  <2>5. CASE w.policy # "SHORT"
    <3>1. w.static_prio \in UserPrio
      BY <1>1, <2>2, <2>5 DEF overdue_task
    <3>2. s = TASK_TIMESLICE(w) % UINT
      BY <2>5 DEF OS_TASK_TIMESLICE, short_task, overdue_task
    <3>3. s \in 1 .. SliceMax
      BY <3>1, <3>2, FullSlice, SliceMaxFacts
    <3> HIDE DEF s
    <3>4. ~overdue_task(w)
      BY <2>5 DEF overdue_task
    <3> QED BY <2>2, <2>3, <2>4, <2>5, <3>1, <3>3, <3>4 DEF Solvent
  <2>6. CASE w.policy = "SHORT"
    <3>1. /\ short_task(t) /\ w.iAmOverdue = TRUE /\ w.static_prio = OVERDUE_PRIO
          /\ w.requestedTime = t.requestedTime /\ w.overdue_static_prio = t.static_prio
          /\ t.requestedTime \in 1 .. 3 * HZ
      BY <1>1, <2>2, <2>6 DEF short_task
    <3>2. s = (2 * t.requestedTime) % UINT
      BY <2>6, <3>1 DEF OS_TASK_TIMESLICE, short_task, overdue_task
    <3>3. 2 * t.requestedTime \in 1 .. SliceMax /\ 2 * t.requestedTime \in 0 .. UINT - 1
      BY <3>1, SliceMaxFacts
    <3>4. s = 2 * t.requestedTime
      BY <3>2, <3>3, Fits
    <3>5. OVERDUE_PRIO \in UserPrio
      BY SchedAssumption, MaxPrioAssumption DEF OVERDUE_PRIO, UserPrio
    <3> HIDE DEF s
    <3>6. s \in 1 .. SliceMax
      BY <3>3, <3>4
    <3>7. u.static_prio \in UserPrio /\ u.overdue_static_prio \in UserPrio
          /\ u.requestedTime \in 1 .. 3 * HZ
      BY <1>1, <2>3, <3>1, <3>5
    <3> QED BY <2>2, <2>3, <3>6, <3>7 DEF Solvent
  <2> QED BY <2>5, <2>6
<1> QED BY <1>6, <1>7, <1>8 DEF Ticked, spent, slice

\* While nobody forks: two ticks for one when the time asked for is used up.
LEMMA TickGranted ==
    ASSUME "fork" \notin Workload, NEW t, IsStruct(t), t.iAmOverdue \in BOOLEAN,
           Granted(t), NEW u, NEW bonus, Ticked(t, u, bonus)
    PROVE  Granted(u)
<1> DEFINE spent == tick_spent(t)
<1>1. /\ ~t.first_time_slice
      /\ t.policy = "SHORT" /\ t.requestedTime >= 0 =>
           t.requestedTime \in 1 .. 3 * HZ /\ t.time_slice \in 1 .. Grant(t)
  BY DEF Granted
<1>2. /\ IsStruct(spent) /\ spent.policy = t.policy /\ spent.iAmOverdue = t.iAmOverdue
      /\ spent.requestedTime = t.requestedTime
      /\ spent.first_time_slice = t.first_time_slice
      /\ spent.time_slice = (t.time_slice - 1) % UINT
  BY DEF tick_spent, IsStruct
<1> HIDE DEF spent
<1>3. CASE u = spent /\ spent.time_slice # 0
  <2> SUFFICES ASSUME t.policy = "SHORT", t.requestedTime >= 0
               PROVE  spent.time_slice \in 1 .. Grant(spent)
    BY <1>1, <1>2, <1>3 DEF Granted
  <2>1. Grant(spent) = Grant(t)
    BY <1>2 DEF Grant
  <2>2. t.requestedTime \in 1 .. 3 * HZ /\ t.time_slice \in 1 .. Grant(t)
    BY <1>1
  <2>3. Grant(t) \in 1 .. SliceMax
    BY <2>2, SliceMaxFacts DEF Grant
  <2>4. t.time_slice - 1 \in 0 .. UINT - 1
    BY <2>2, <2>3, SliceMaxFacts
  <2>5. spent.time_slice = t.time_slice - 1
    BY <1>2, <2>4, Fits
  <2> QED BY <1>3, <2>1, <2>2, <2>3, <2>5, SliceMaxFacts
<1>4. CASE t.policy = "RR" /\ u = [spent EXCEPT !.time_slice = TASK_TIMESLICE(spent) % UINT,
                                                !.first_time_slice = FALSE, !.need_resched = TRUE]
  <2>1. u.policy = "RR" /\ u.first_time_slice = FALSE
    BY <1>2, <1>4 DEF IsStruct
  <2> QED BY <2>1 DEF Granted
<1>5. CASE u = refill(spent, bonus)
  <2> DEFINE w == lapse(spent)
             s == OS_TASK_TIMESLICE(w)
  <2>1. IsStruct(w)
    BY <1>2 DEF lapse, IsStruct
  <2>2. \/ w.policy # "SHORT"
        \/ /\ t.policy = "SHORT" /\ w.policy = "SHORT" /\ w.iAmOverdue = TRUE
           /\ w.requestedTime = t.requestedTime
    <3>1. CASE overdue_task(spent)
      BY <1>2, <3>1 DEF lapse, IsStruct
    <3>2. CASE ~overdue_task(spent) /\ short_task(spent)
      BY <1>2, <3>2 DEF lapse, IsStruct, short_task
    <3>3. CASE ~overdue_task(spent) /\ ~short_task(spent)
      BY <1>2, <3>3 DEF lapse, overdue_task, short_task
    <3> QED BY <3>1, <3>2, <3>3
  <2>3. /\ u.policy = w.policy /\ u.iAmOverdue = w.iAmOverdue
        /\ u.requestedTime = w.requestedTime /\ u.first_time_slice = FALSE
        /\ u.time_slice = s
    <3> HIDE DEF w, s
    <3> QED BY <1>5, <2>1 DEF refill, IsStruct, w, s
  <2> HIDE DEF w
  <2> SUFFICES ASSUME w.policy = "SHORT", w.requestedTime >= 0
               PROVE  u.requestedTime \in 1 .. 3 * HZ /\ u.time_slice \in 1 .. Grant(u)
    BY <2>3 DEF Granted
  <2>4. w.iAmOverdue = TRUE /\ w.requestedTime = t.requestedTime /\ t.requestedTime \in 1 .. 3 * HZ
    BY <1>1, <2>2
  <2>5. s = (2 * t.requestedTime) % UINT /\ Grant(u) = 2 * t.requestedTime
    BY <2>3, <2>4 DEF OS_TASK_TIMESLICE, short_task, overdue_task, Grant
  <2>6. 2 * t.requestedTime \in 1 .. SliceMax /\ 2 * t.requestedTime \in 0 .. UINT - 1
    BY <2>4, SliceMaxFacts
  <2>7. s = 2 * t.requestedTime
    BY <2>5, <2>6, Fits
  <2> HIDE DEF s
  <2> QED BY <2>3, <2>4, <2>5, <2>6, <2>7, SliceMaxFacts
<1> QED BY <1>3, <1>4, <1>5 DEF Ticked, spent

LEMMA TickFunded ==
    ASSUME NEW t, IsStruct(t), t.state # "UNUSED", t.iAmOverdue \in BOOLEAN,
           Funded(t), NEW u, NEW bonus, Ticked(t, u, bonus)
    PROVE  Funded(u)
<1>1. Modest => Solvent(u)
  BY TickSolvent DEF Funded
<1>2. "fork" \notin Workload => Granted(u)
  BY TickGranted DEF Funded
<1> QED BY <1>1, <1>2 DEF Funded

\* A renewal for more time than was used, as unsigned ints compare.
LEMMA RenewSolvent ==
    ASSUME Modest, NEW t, IsStruct(t), t.state # "UNUSED", t.iAmOverdue \in BOOLEAN,
           t.policy = "SHORT", Solvent(t), NEW ms \in ReqTimes, renewal_allowed(t, ms)
    PROVE  Solvent(renewed(t, ms))
<1> DEFINE u == renewed(t, ms)
           j == CHANGE_MS_TO_JIFFIS(ms)
           used == t.requestedTime - t.time_slice
           s == (t.time_slice + j - t.requestedTime) % UINT
<1>1. ms \in Nat /\ ms <= 3000 /\ j % UINT > used % UINT
  BY DEF renewal_allowed, Modest
<1>2. j \in 0 .. 3 * HZ
  BY <1>1, Jiffies
<1>3. /\ u.state = t.state /\ u.policy = "SHORT" /\ u.iAmOverdue = t.iAmOverdue
      /\ u.static_prio = t.static_prio /\ u.overdue_static_prio = t.overdue_static_prio
      /\ u.requestedTime = j /\ u.time_slice = s
      /\ u.first_time_slice = t.first_time_slice
  BY DEF renewed, IsStruct
<1>4. overdue_task(u) = overdue_task(t)
  BY <1>3 DEF overdue_task
<1> HIDE DEF u, j, s
<1>5. t.time_slice \in 1 .. SliceMax /\ t.requestedTime \in 1 .. 3 * HZ
  BY DEF Solvent
<1>6. j % UINT = j
  <2>1. j \in 0 .. UINT - 1
    BY <1>2, SliceMaxFacts DEF Modest
  <2> QED BY <2>1, Fits
<1>7. t.time_slice <= t.requestedTime
  <2> SUFFICES ASSUME t.time_slice > t.requestedTime PROVE FALSE
    BY <1>5, SliceMaxFacts
  <2> DEFINE x == t.time_slice - t.requestedTime
  <2>1. x \in 1 .. SliceMax /\ used = - x
    BY <1>5, SliceMaxFacts
  <2>2. x \in 1 .. UINT
    BY <2>1, SliceMaxFacts DEF Modest
  <2> HIDE DEF x, used
  <2>3. used % UINT = UINT - x
    BY <2>1, <2>2, Wraps
  <2>4. UINT - x > SliceMax /\ j <= SliceMax
    BY <1>2, <2>1, SliceMaxFacts DEF Modest
  <2> QED BY <1>1, <1>2, <1>6, <2>1, <2>3, <2>4, SliceMaxFacts
<1>8. used \in 0 .. UINT - 1 /\ used % UINT = used
  <2>1. used \in 0 .. UINT - 1
    BY <1>5, <1>7, SliceMaxFacts DEF Modest
  <2> HIDE DEF used
  <2> QED BY <2>1, Fits
<1>9. j > used
  <2> HIDE DEF used
  <2> QED BY <1>1, <1>6, <1>8
<1>10. s \in 1 .. j
  <2> DEFINE y == t.time_slice + j - t.requestedTime
  <2>1. y \in 1 .. j
    BY <1>2, <1>5, <1>7, <1>9, SliceMaxFacts
  <2>2. y \in 0 .. UINT - 1
    BY <1>2, <2>1, SliceMaxFacts DEF Modest
  <2> HIDE DEF y
  <2>3. y % UINT = y
    BY <2>2, Fits
  <2> QED BY <2>1, <2>3 DEF s, y
<1>11. j \in 1 .. 3 * HZ /\ s \in 1 .. SliceMax
  BY <1>2, <1>10, SliceMaxFacts
<1>12. t.static_prio \in UserPrio /\ (overdue_task(t) => t.overdue_static_prio \in UserPrio)
  BY DEF Solvent
<1> QED BY <1>3, <1>4, <1>11, <1>12 DEF Solvent, u

\* The time used stays what it was, also through renewals for a negative time:
\* what is left after a renewal that is not negative is the rest of it.
LEMMA RenewGranted ==
    ASSUME NEW t, IsStruct(t), t.time_slice \in Int, t.requestedTime \in Int, Granted(t),
           NEW ms \in ReqTimes, renewal_allowed(t, ms)
    PROVE  Granted(renewed(t, ms))
<1> DEFINE u == renewed(t, ms)
           j == CHANGE_MS_TO_JIFFIS(ms)
           used == t.requestedTime - t.time_slice
<1>1. /\ u.requestedTime = j /\ u.time_slice = (t.time_slice + j - t.requestedTime) % UINT
      /\ u.first_time_slice = t.first_time_slice
  BY DEF renewed, IsStruct
<1>2. ~u.first_time_slice
  BY <1>1 DEF Granted
<1> HIDE DEF u
<1> SUFFICES ASSUME j >= 0
             PROVE  u.requestedTime \in 1 .. 3 * HZ /\ u.time_slice \in 1 .. Grant(u)
  BY <1>1, <1>2 DEF Granted, u
<1>3. ms \in Int /\ ms <= 3000 /\ j % UINT > used % UINT
  BY SchedAssumption DEF renewal_allowed
<1>4. j \in 0 .. 3 * HZ
  BY <1>3, SignedJiffies
<1> HIDE DEF j
<1>5. j \in 0 .. UINT - 1
  BY <1>4, SliceMaxFacts
<1>6. j % UINT = j
  BY <1>5, Fits
<1>7. used \in Int /\ used % UINT \in 0 .. UINT - 1
  BY Constants
<1>8. j - (used % UINT) \in 1 .. j
  BY <1>3, <1>4, <1>6, <1>7, SliceMaxFacts
<1>9. (t.time_slice + j - t.requestedTime) % UINT = j - (used % UINT)
  <2>1. t.time_slice + j - t.requestedTime = j - used
    BY <1>4
  <2>2. j - (used % UINT) \in 0 .. UINT - 1
    BY <1>4, <1>5, <1>8, SliceMaxFacts
  <2> HIDE DEF used
  <2>3. (j - used) % UINT = j - (used % UINT)
    BY <1>4, <1>7, <2>2, ModularRest
  <2> QED BY <2>1, <2>3
<1> HIDE DEF used
<1>10. u.time_slice \in 1 .. j /\ u.requestedTime = j
  BY <1>1, <1>8, <1>9
<1>11. j \in 1 .. 3 * HZ
  BY <1>4, <1>8, SliceMaxFacts
<1> QED BY <1>10, <1>11, SliceMaxFacts DEF Grant

LEMMA RenewFunded ==
    ASSUME NEW t, IsStruct(t), t.state # "UNUSED", t.iAmOverdue \in BOOLEAN,
           t.time_slice \in Int, t.requestedTime \in Int,
           t.policy = "SHORT", Funded(t), NEW ms \in ReqTimes, renewal_allowed(t, ms)
    PROVE  Funded(renewed(t, ms))
<1>1. Modest => Solvent(renewed(t, ms))
  BY RenewSolvent DEF Funded
<1>2. "fork" \notin Workload => Granted(renewed(t, ms))
  BY RenewGranted DEF Funded
<1> QED BY <1>1, <1>2 DEF Funded

LEMMA ShortFunded ==
    ASSUME NEW t, IsStruct(t), t.state # "UNUSED",
           Funded(t), NEW ms \in ReqTimes, request_allowed(ms), Modest => ~t.iAmOverdue
    PROVE  Funded(as_short(t, ms))
<1> DEFINE u == as_short(t, ms)
           j == CHANGE_MS_TO_JIFFIS(ms)
           s == j % UINT
<1>1. ms \in Int /\ ms <= 3000 /\ j >= 1
  BY SchedAssumption DEF request_allowed
<1>2. j \in 1 .. 3 * HZ
  <2>1. j \in Int
    BY <1>1, SliceMaxFacts DEF CHANGE_MS_TO_JIFFIS
  <2> HIDE DEF j
  <2>2. j >= 0
    BY <1>1, <2>1
  <2>3. j \in 0 .. 3 * HZ
    BY <1>1, <2>2, SignedJiffies DEF j
  <2> QED BY <1>1, <2>1, <2>3, SliceMaxFacts
<1>3. /\ u.state = t.state /\ u.policy = "SHORT" /\ u.iAmOverdue = t.iAmOverdue
      /\ u.static_prio = t.static_prio /\ u.requestedTime = j /\ u.time_slice = s
      /\ u.first_time_slice = t.first_time_slice
  BY DEF as_short, IsStruct
<1> HIDE DEF u, j
<1>4. j \in 0 .. UINT - 1 /\ j \in 1 .. SliceMax
  BY <1>2, SliceMaxFacts
<1>5. s = j
  BY <1>4, Fits
<1>6. Modest => ~overdue_task(u)
  BY <1>3 DEF overdue_task
<1>7. Modest => t.static_prio \in UserPrio
  BY DEF Funded, Solvent
<1>8. Modest => Solvent(u)
  BY <1>2, <1>3, <1>4, <1>5, <1>6, <1>7 DEF Solvent
<1>9. u.time_slice \in 1 .. Grant(u)
  BY <1>2, <1>3, <1>5, SliceMaxFacts DEF Grant
<1>10. "fork" \notin Workload => Granted(u)
  BY <1>2, <1>3, <1>9 DEF Funded, Granted
<1> QED BY <1>8, <1>10 DEF Funded, u

LEMMA NormalFunded ==
    ASSUME NEW t, IsStruct(t), t.state # "UNUSED", Funded(t), NEW policy, policy # "SHORT",
           NEW prio
    PROVE  Funded(as_normal(t, policy, prio))
<1> DEFINE u == as_normal(t, policy, prio)
<1>1. /\ u.state = t.state /\ u.policy = policy /\ u.static_prio = t.static_prio
      /\ u.time_slice = t.time_slice /\ u.first_time_slice = t.first_time_slice
  BY DEF as_normal, IsStruct
<1> HIDE DEF u
<1>2. ~overdue_task(u)
  BY <1>1 DEF overdue_task
<1>3. Modest => t.time_slice \in 1 .. SliceMax /\ t.static_prio \in UserPrio
  BY DEF Funded, Solvent
<1>4. Modest => Solvent(u)
  BY <1>1, <1>2, <1>3 DEF Solvent
<1>5. "fork" \notin Workload => Granted(u)
  BY <1>1 DEF Funded, Granted
<1> QED BY <1>4, <1>5 DEF Funded, u

LEMMA NiceFunded ==
    ASSUME NEW t, IsStruct(t), t.state # "UNUSED", Funded(t), NEW static \in UserPrio,
           NEW u, Reniced(t, u, static)
    PROVE  Funded(u)
<1>1. /\ u.state = t.state /\ u.policy = t.policy /\ u.iAmOverdue = t.iAmOverdue
      /\ u.time_slice = t.time_slice /\ u.first_time_slice = t.first_time_slice
      /\ u.requestedTime = t.requestedTime /\ u.static_prio \in {t.static_prio, static}
      /\ u.overdue_static_prio \in {t.overdue_static_prio, static}
  <2>1. CASE u = t
    BY <2>1
  <2>2. CASE u = [t EXCEPT !.static_prio = static]
    BY <2>2 DEF IsStruct
  <2>3. CASE u = [t EXCEPT !.overdue_static_prio = static]
    BY <2>3 DEF IsStruct
  <2> QED BY <2>1, <2>2, <2>3 DEF Reniced
<1>2. overdue_task(u) = overdue_task(t) /\ Grant(u) = Grant(t)
  BY <1>1 DEF overdue_task, Grant
<1>3. Solvent(t) => Solvent(u)
  BY <1>1, <1>2 DEF Solvent
<1>4. Granted(t) => Granted(u)
  BY <1>1, <1>2 DEF Granted
<1> QED BY <1>3, <1>4 DEF Funded

\* The parent keeps half, or loses its last tick at once.
LEMMA ParentSolvent ==
    ASSUME Modest, "fork" \in Workload, NEW t, IsStruct(t), t.state # "UNUSED",
           t.iAmOverdue \in BOOLEAN, Solvent(t), NEW u, NEW bonus,
           \/ u = parent_slice(t) /\ u.time_slice # 0
           \/ Ticked(last_tick(t), u, bonus)
    PROVE  Solvent(u)
<1> DEFINE u1 == parent_slice(t)
           u2 == last_tick(t)
<1>1. IsStruct(u1) /\ IsStruct(u2)
  BY DEF parent_slice, last_tick, IsStruct
<1>2. /\ u1.state = t.state /\ u1.policy = t.policy /\ u1.requestedTime = t.requestedTime
      /\ u1.iAmOverdue = t.iAmOverdue /\ u1.static_prio = t.static_prio
      /\ u1.overdue_static_prio = t.overdue_static_prio
      /\ u1.time_slice \in {t.time_slice, t.time_slice \div 2}
  BY DEF parent_slice, IsStruct
<1>3. /\ u2.state = t.state /\ u2.policy = t.policy /\ u2.requestedTime = t.requestedTime
      /\ u2.iAmOverdue = t.iAmOverdue /\ u2.static_prio = t.static_prio
      /\ u2.overdue_static_prio = t.overdue_static_prio /\ u2.time_slice = 1
  BY <1>1, <1>2 DEF last_tick, IsStruct
<1> HIDE DEF u1, u2
<1>4. /\ t.time_slice \in 1 .. SliceMax /\ t.static_prio \in UserPrio
      /\ t.policy = "SHORT" => t.requestedTime \in 1 .. 3 * HZ
      /\ overdue_task(t) => t.overdue_static_prio \in UserPrio
  BY DEF Solvent
<1>5. overdue_task(u1) = overdue_task(t) /\ overdue_task(u2) = overdue_task(t)
  BY <1>2, <1>3 DEF overdue_task
<1>6. CASE u = u1 /\ u.time_slice # 0
  <2>1. u1.time_slice \in 1 .. SliceMax
    BY <1>2, <1>4, <1>6, SliceMaxFacts
  <2> QED BY <1>2, <1>4, <1>5, <1>6, <2>1 DEF Solvent
<1>7. CASE Ticked(u2, u, bonus)
  <2>1. 1 \in 1 .. SliceMax
    BY SliceMaxFacts
  <2>2. Solvent(u2)
    BY <1>3, <1>4, <1>5, <2>1 DEF Solvent
  <2> QED BY <1>1, <1>3, <1>7, <2>2, TickSolvent
<1> QED BY <1>6, <1>7 DEF u1, u2

\* The child gets the other half, rounded up, or all that an overdue parent has.
LEMMA ChildSolvent ==
    ASSUME Modest, "fork" \in Workload, NEW t, t.state # "UNUSED", Solvent(t),
           NEW c, IsStruct(c), c.state # "UNUSED", Solvent(c),
           t.policy = "SHORT" => c.policy = "SHORT"
    PROVE  Solvent(child_slice(t, c))
<1> DEFINE v == child_slice(t, c)
           half == ((t.time_slice + 1) % UINT) \div 2
           rest == (t.time_slice \div 2) + (t.time_slice % 2)
<1>1. /\ v.state = c.state /\ v.policy = c.policy /\ v.iAmOverdue = c.iAmOverdue
      /\ v.static_prio = c.static_prio /\ v.requestedTime = c.requestedTime
      /\ v.overdue_static_prio = c.overdue_static_prio
      /\ v.time_slice \in {half, rest, c.time_slice}
  BY DEF child_slice, IsStruct
<1> HIDE DEF v
<1>2. /\ t.time_slice \in 1 .. SliceMax
      /\ c.time_slice \in 1 .. SliceMax /\ c.static_prio \in UserPrio
      /\ c.policy = "SHORT" => c.requestedTime \in 1 .. 3 * HZ
      /\ overdue_task(c) => c.overdue_static_prio \in UserPrio
  BY DEF Solvent
<1>3. half \in 1 .. SliceMax
  <2>1. t.time_slice + 1 \in 0 .. UINT - 1
    BY <1>2, SliceMaxFacts DEF Modest
  <2>2. half = (t.time_slice + 1) \div 2
    BY <2>1, Fits
  <2> QED BY <1>2, <2>2, SliceMaxFacts
<1>4. rest \in 1 .. SliceMax
  BY <1>2, SliceMaxFacts
<1>5. overdue_task(v) = overdue_task(c)
  BY <1>1 DEF overdue_task
<1> HIDE DEF half, rest
<1>6. v.time_slice \in 1 .. SliceMax
  BY <1>1, <1>2, <1>3, <1>4
<1> QED BY <1>1, <1>2, <1>5, <1>6 DEF Solvent, v

\* Collecting a child never leaves less, nor more than fits.
LEMMA ReapFunded ==
    ASSUME NEW t, IsStruct(t), t.state # "UNUSED", Funded(t),
           NEW c, c.state # "UNUSED", Funded(c)
    PROVE  Funded([t EXCEPT !.time_slice = given_back(t, c)])
<1> DEFINE sum == t.time_slice + c.time_slice
           s == given_back(t, c)
           u == [t EXCEPT !.time_slice = s]
<1>1. /\ u.state = t.state /\ u.policy = t.policy /\ u.iAmOverdue = t.iAmOverdue
      /\ u.time_slice = s /\ u.first_time_slice = t.first_time_slice
      /\ u.requestedTime = t.requestedTime /\ u.static_prio = t.static_prio
      /\ u.overdue_static_prio = t.overdue_static_prio
  BY DEF IsStruct
<1> HIDE DEF u
<1>2. overdue_task(u) = overdue_task(t) /\ Grant(u) = Grant(t)
  BY <1>1 DEF overdue_task, Grant
<1>3. ASSUME Modest PROVE Solvent(u)
  <2>1. t.time_slice \in 1 .. SliceMax /\ c.time_slice \in 1 .. SliceMax /\ Solvent(t)
    BY <1>3 DEF Funded, Solvent
  <2>2. sum \in 0 .. UINT - 1 /\ sum >= 1
    BY <1>3, <2>1, SliceMaxFacts DEF Modest
  <2>3. sum % UINT = sum
    <3> HIDE DEF sum
    <3> QED BY <2>2, Fits
  <2>4. /\ c.first_time_slice => s = IF sum > MAX_TIMESLICE THEN MAX_TIMESLICE ELSE sum
        /\ ~c.first_time_slice => s = t.time_slice
    BY <2>3 DEF given_back
  <2> HIDE DEF s, sum
  <2>5. s \in 1 .. SliceMax
    BY <2>1, <2>2, <2>4, SliceMaxFacts
  <2> QED BY <1>1, <1>2, <2>1, <2>5 DEF Solvent
<1>4. ASSUME "fork" \notin Workload PROVE Granted(u)
  <2>1. Granted(t) /\ ~c.first_time_slice
    BY <1>4 DEF Funded, Granted
  <2>2. s = t.time_slice
    BY <2>1 DEF given_back
  <2> HIDE DEF s
  <2> QED BY <1>1, <1>2, <2>1, <2>2 DEF Granted
<1> QED BY <1>3, <1>4 DEF Funded, u, s

-----------------------------------------------------------------------------
(* The actions keep everybody's time.                                      *)

\* The invariant of BugUnreachable, and of SliceCorrect.
Budget ==
    /\ Modest => rq.panic # "BUG"
    /\ \A q \in Task : Funded(task[q])
    /\ \A q \in Task : InFork(pc[q]) => "fork" \in Workload

LEMMA CurrentExists ==
    ASSUME IInv, rq.panic = "none", current \in Task PROVE task[current].state # "UNUSED"
<1>1. /\ Kernel.task = task /\ Good(Kernel, child, pc) /\ CurrentIn(Kernel)
      /\ Kernel.rq.curr = current /\ current # Idle
  BY Before, Base
<1>2. current \in RunnableIn(Kernel)
  BY <1>1 DEF CurrentIn
<1> QED BY <1>1, <1>2 DEF Good, Family, RunnableIn

LEMMA BudgetMet ==
    ASSUME \A q \in Task : Funded(task'[q]), Modest => rq'.panic # "BUG",
           \A q \in Task : InFork(pc'[q]) => "fork" \in Workload
    PROVE  Budget'
<1>1. (\A q \in Task : Funded(task[q]))'
  BY DEF Funded, Solvent, Granted, overdue_task, Grant
<1>2. (\A q \in Task : InFork(pc[q]) => "fork" \in Workload)'
  BY DEF InFork
<1> QED BY <1>1, <1>2 DEF Budget

\* An action that changes one account.
LEMMA BudgetKept ==
    ASSUME IInv, Budget, rq.panic = "none", NEW S2, Becomes(S2), NEW p, NEW u,
           Changes(Kernel, S2, p, u), p \in Task => Funded(u), UNCHANGED pc \/ ReturnsToUser
    PROVE  Budget'
<1>1. task' = S2.task /\ rq' = S2.rq /\ Kernel.task = task /\ Kernel.rq = rq
  BY Base DEF Becomes
<1>2. rq'.panic # "BUG"
  BY <1>1 DEF Changes
<1>3. ASSUME NEW q \in Task PROVE Funded(task'[q])
  <2>1. Account(task'[q]) = Account(IF q = p THEN u ELSE task[q])
    BY <1>1, Base DEF Changes
  <2>2. Funded(IF q = p THEN u ELSE task[q])
    BY DEF Budget
  <2> QED BY <2>1, <2>2, AccountFunded
<1>4. \A q \in Task : InFork(pc'[q]) => "fork" \in Workload
  BY Before, Base DEF ReturnsToUser, InFork, Budget
<1> QED BY <1>2, <1>3, <1>4, BudgetMet

LEMMA BudgetStill ==
    ASSUME IInv, Budget, rq.panic = "none", NEW S2, Becomes(S2), Still(Kernel, S2),
           UNCHANGED pc \/ ReturnsToUser
    PROVE  Budget'
<1>1. Changes(Kernel, S2, current, task[current])
  BY Base, StillChanges
<1>2. current \in Task => Funded(task[current])
  BY DEF Budget
<1> QED BY <1>1, <1>2, BudgetKept

\* A context switch.
LEMMA BudgetSwitch ==
    ASSUME IInv, Budget, rq.panic = "none", NEW S2, Becomes(S2), Keeps(Kernel, S2),
           UNCHANGED pc \/ ReturnsToUser
    PROVE  Budget'
<1>1. task' = S2.task /\ rq' = S2.rq /\ Kernel.task = task /\ Kernel.rq = rq
  BY Base DEF Becomes
<1>2. rq'.panic # "BUG"
  BY <1>1 DEF Keeps
<1>3. ASSUME NEW q \in Task PROVE Funded(task'[q])
  <2>1. Account(task'[q]) = Account(task[q])
    BY <1>1, Base DEF Keeps
  <2>2. Funded(task[q])
    BY DEF Budget
  <2> QED BY <2>1, <2>2, AccountFunded
<1>4. \A q \in Task : InFork(pc'[q]) => "fork" \in Workload
  BY Before, Base DEF ReturnsToUser, InFork, Budget
<1> QED BY <1>2, <1>3, <1>4, BudgetMet

\* One lemma per action: it preserves Budget.
LEMMA TickBudget == ASSUME IInv, Budget, Tick PROVE Budget'
<1>1. PICK b \in Bonuses, toExpired \in BOOLEAN : Becomes(scheduler_tick(Kernel, b, toExpired))
  BY DEF Tick
<1>2. rq.panic = "none" /\ UNCHANGED pc
  BY DEF Tick, InterruptsOpen
<1> DEFINE S2 == scheduler_tick(Kernel, b, toExpired)
<1>3. PICK u : Ticked(task[current], u, b) /\ Changes(Kernel, S2, current, u)
  BY Base, TickChanges
<1> HIDE DEF S2
<1>4. current \in Task => Funded(u)
  BY <1>2, <1>3, Base, CurrentExists, TickFunded DEF Budget
<1> QED BY <1>1, <1>2, <1>3, <1>4, BudgetKept DEF S2

LEMMA WakeBudget == ASSUME IInv, Budget, NEW p \in Task, Wake(p) PROVE Budget'
<1>1. rq.panic = "none" /\ UNCHANGED pc /\ task[p].state # "UNUSED"
  BY DEF Wake, InterruptsOpen
<1>2. PICK k : Becomes(try_to_wake_up(Kernel, p, k))
  BY DEF Wake
<1>3. Still(Kernel, try_to_wake_up(Kernel, p, k))
  BY <1>1, Base, StillWakeUp
<1> QED BY <1>1, <1>2, <1>3, BudgetStill

LEMMA RescheduleBudget == ASSUME IInv, Budget, Reschedule PROVE Budget'
<1>1. PICK pending : Becomes(schedule(Kernel, pending))
  BY DEF Reschedule
<1>2. rq.panic = "none" /\ UNCHANGED pc
  BY DEF Reschedule
<1>3. Keeps(Kernel, schedule(Kernel, pending))
  BY Base, KeepsSchedule
<1> QED BY <1>1, <1>2, <1>3, BudgetSwitch

LEMMA YieldBudget == ASSUME IInv, Budget, Yield PROVE Budget'
<1> DEFINE S1 == yield(Kernel, current)
           S2 == schedule(S1, FALSE)
<1>1. rq.panic = "none" /\ ReturnsToUser /\ Becomes(S2)
  BY DEF Yield, InKernel
<1>2. Still(Kernel, S1)
  BY Base, StillYield
<1> HIDE DEF S1
<1>3. Keeps(S1, S2)
  BY <1>2, Base, KeepsSchedule DEF Still, Keeps
<1> HIDE DEF S2
<1>4. Keeps(Kernel, S2)
  BY <1>2, <1>3 DEF Still, Keeps
<1> QED BY <1>1, <1>4, BudgetSwitch

LEMMA SysEnterBudget == ASSUME IInv, Budget, SysEnter PROVE Budget'
<1>1. task' = task /\ rq' = rq /\ pc' = [pc EXCEPT ![current] = "kernel"]
  BY DEF SysEnter
<1>2. \A q \in Task : InFork(pc'[q]) => "fork" \in Workload
  BY <1>1, Base DEF IInv, TypeOK, InFork, Budget
<1>3. (Modest => rq'.panic # "BUG") /\ \A q \in Task : Funded(task'[q])
  BY <1>1 DEF Budget
<1> QED BY <1>2, <1>3, BudgetMet

LEMMA SysReturnBudget == ASSUME IInv, Budget, SysReturn PROVE Budget'
<1>1. rq.panic = "none" /\ ReturnsToUser /\ Becomes(Kernel)
  BY Base DEF SysReturn, InKernel, Becomes
<1>2. Still(Kernel, Kernel)
  BY Base, StillRefl
<1> QED BY <1>1, <1>2, BudgetStill

LEMMA SetStateBudget ==
    ASSUME IInv, Budget, NEW s \in State \ {"ZOMBIE", "UNUSED"}, SetState(s) PROVE Budget'
<1> DEFINE t == [task[current] EXCEPT !.state = s]
           S2 == put_task(Kernel, current, t)
<1>1. /\ rq.panic = "none" /\ UNCHANGED pc /\ pc[current] # "user"
      /\ task' = [task EXCEPT ![current].state = s] /\ rq' = rq
  BY DEF SetState
<1>2. Becomes(S2)
  BY <1>1, Base DEF Becomes, put_task
<1>3. task[current].state # "UNUSED"
  BY <1>1, InCall
<1>4. Still(Kernel, S2)
  <2>1. IsStruct(task[current]) /\ s # "UNUSED" /\ Kernel.task[current] = task[current]
    BY Base
  <2>2. IsStruct(t) /\ Account(t) = Account(task[current])
    BY <2>1, <1>3, NoAccount
  <2>3. IsStruct(t) /\ Account(t) = Account(Kernel.task[current])
    BY <2>1, <2>2
  <2> HIDE DEF t
  <2> QED BY <2>3, Base, StillPut
<1> HIDE DEF S2
<1> QED BY <1>1, <1>2, <1>4, BudgetStill

LEMMA RenewBudget ==
    ASSUME IInv, Budget, NEW p \in Task, NEW ms \in ReqTimes, RenewShort(p, ms)
    PROVE  Budget'
<1> DEFINE S2 == renew_short(Kernel, p, ms)
           u == renewed(task[p], ms)
<1>1. /\ ReturnsToUser /\ Becomes(S2) /\ rq.panic = "none" /\ task[p].policy = "SHORT"
      /\ renewal_allowed(task[p], ms) /\ task[p].state # "UNUSED"
  BY DEF RenewShort, InKernel, Hashed
<1>2. Changes(Kernel, S2, p, u)
  BY Base, RenewChanges
<1>3. Funded(u)
  <2>1. IsStruct(task[p]) /\ task[p] \in task_struct
    BY Base DEF IInv, TypeOK
  <2>2. /\ task[p].time_slice \in Int /\ task[p].requestedTime \in Int
        /\ task[p].iAmOverdue \in BOOLEAN /\ Funded(task[p])
    BY <2>1, Constants DEF task_struct, Budget
  <2> QED BY <1>1, <2>1, <2>2, RenewFunded
<1> HIDE DEF S2, u
<1> QED BY <1>1, <1>2, <1>3, BudgetKept

LEMMA MakeShortBudget ==
    ASSUME IInv, Modest => Policies, Budget, NEW p \in Task, NEW ms \in ReqTimes, MakeShort(p, ms)
    PROVE  Budget'
<1> DEFINE u == as_short(task[p], ms)
<1>1. /\ ReturnsToUser /\ rq.panic = "none" /\ task[p].policy = "OTHER"
      /\ request_allowed(ms) /\ task[p].state # "UNUSED"
  BY DEF MakeShort, InKernel, Hashed
<1>2. PICK k : Becomes(make_short(Kernel, p, ms, k))
  BY DEF MakeShort
<1>3. Changes(Kernel, make_short(Kernel, p, ms, k), p, u)
  BY Base, MakeShortChanges
<1>4. Funded(u)
  <2>1. Modest => ~task[p].iAmOverdue
    BY <1>1, Base DEF Policies, AllMarked, Marked
  <2> QED BY <1>1, <2>1, Base, ShortFunded DEF Budget
<1> HIDE DEF u
<1> QED BY <1>1, <1>2, <1>3, <1>4, BudgetKept

LEMMA SetNormalBudget ==
    ASSUME IInv, Budget, NEW p \in Task, NEW policy, policy # "SHORT", NEW prio,
           SetNormal(p, policy, prio)
    PROVE  Budget'
<1> DEFINE u == as_normal(task[p], policy, prio)
<1>1. ReturnsToUser /\ rq.panic = "none" /\ task[p].state # "UNUSED"
  BY DEF SetNormal, InKernel, Hashed
<1>2. PICK k : Becomes(reactivate(Kernel, p, u, k))
  BY DEF SetNormal
<1>3. IsStruct(u)
  BY Base DEF as_normal, IsStruct
<1>4. Funded(u)
  BY <1>1, Base, NormalFunded DEF Budget
<1> HIDE DEF u
<1>5. Changes(Kernel, reactivate(Kernel, p, u, k), p, u)
  BY <1>3, Base, ReactivateChanges
<1> QED BY <1>1, <1>2, <1>4, <1>5, BudgetKept

LEMMA SetNiceBudget ==
    ASSUME IInv, Budget, NEW p \in Task, NEW static \in UserPrio, SetNice(p, static)
    PROVE  Budget'
<1> DEFINE S2 == set_user_nice(Kernel, p, static)
<1>1. ReturnsToUser /\ Becomes(S2) /\ rq.panic = "none" /\ task[p].state # "UNUSED"
  BY DEF SetNice, InKernel, Hashed
<1>2. PICK u : Reniced(task[p], u, static) /\ Changes(Kernel, S2, p, u)
  BY Base, NiceChanges
<1>3. Funded(u)
  BY <1>1, <1>2, Base, NiceFunded DEF Budget
<1> HIDE DEF S2
<1> QED BY <1>1, <1>2, <1>3, BudgetKept

LEMMA UnusedFunded == Funded(UnusedTask)
  BY DEF Funded, Solvent, Granted, UnusedTask

LEMMA ForkCopyBudget == ASSUME IInv, Budget, NEW c \in Task, ForkCopy(c) PROVE Budget'
<1> DEFINE t == task[current]
           u == fork_copy(t)
<1>1. /\ InKernel /\ task' = [task EXCEPT ![c] = u] /\ rq' = rq /\ "fork" \in Workload
  BY DEF ForkCopy
<1>2. /\ rq.panic = "none" /\ current \in Task /\ t.state = "RUNNING" /\ IsStruct(t)
      /\ Funded(t) /\ task \in [AllTask -> task_struct]
  BY <1>1, Caller, Base DEF IInv, TypeOK, Budget
<1>3. /\ u.state = "UNINTERRUPTIBLE" /\ u.policy = t.policy /\ u.time_slice = t.time_slice
      /\ u.iAmOverdue = t.iAmOverdue /\ u.static_prio = t.static_prio
      /\ u.overdue_static_prio = t.overdue_static_prio
      /\ u.requestedTime = t.requestedTime
  BY <1>2 DEF fork_copy, IsStruct
<1> HIDE DEF u, t
<1>4. Funded(u)
  <2>1. overdue_task(u) = overdue_task(t)
    BY <1>3 DEF overdue_task
  <2> QED BY <1>1, <1>2, <1>3, <2>1 DEF Funded, Solvent
<1>5. \A q \in AllTask : task'[q] = IF q = c THEN u ELSE task[q]
  BY <1>1, <1>2
<1>6. \A q \in Task : Funded(task'[q])
  BY <1>4, <1>5, Base DEF Budget
<1> QED BY <1>1, <1>2, <1>6, BudgetMet

LEMMA ForkFailBudget == ASSUME IInv, Budget, ForkFail PROVE Budget'
<1>1. /\ rq.panic = "none" /\ ReturnsToUser /\ rq' = rq
      /\ task' = [task EXCEPT ![child[current]] = UnusedTask]
  BY DEF ForkFail
<1>2. \A q \in AllTask : task'[q] = UnusedTask \/ task'[q] = task[q]
  BY <1>1 DEF IInv, TypeOK
<1>3. \A q \in Task : Funded(task'[q])
  BY <1>2, UnusedFunded, Base DEF Budget
<1>4. \A q \in Task : InFork(pc'[q]) => "fork" \in Workload
  BY <1>1, Before, Base DEF ReturnsToUser, InFork, Budget
<1> QED BY <1>1, <1>3, <1>4, BudgetMet

LEMMA ForkSplitSolvent ==
    ASSUME Modest, IInv, Policies, Budget, ForkSplit PROVE Budget'
<1> DEFINE t == task[current]
<1>1. rq.panic = "none" /\ pc[current] = "fork_copied" /\ InFork(pc[current])
  BY DEF ForkSplit, InFork
<1>2. PICK c : c = child[current]
  OBVIOUS
<1>3. PICK b, toExpired : Becomes(fork_split(Kernel, current, c, b, toExpired))
  BY <1>2 DEF ForkSplit
<1>4. /\ c \in AllTask \ {current} /\ c \in Task /\ current \in Task
      /\ task[c].state # "UNUSED"
  <2>1. pc[current] # "user"
    BY <1>1
  <2> QED BY <1>1, <1>2, <2>1, InForkCall, InCall, Base DEF Life
<1>5. /\ IsStruct(t) /\ t.iAmOverdue \in BOOLEAN /\ IsStruct(task[c])
      /\ t.policy = "SHORT" => task[c].policy = "SHORT"
      /\ t.state # "UNUSED" /\ Solvent(t) /\ Solvent(task[c]) /\ "fork" \in Workload
  BY <1>1, <1>2, <1>4, Base, CurrentExists DEF Policies, CopyFollows, Budget, Funded
<1> DEFINE v == child_slice(t, task[c])
           S2 == fork_split(Kernel, current, c, b, toExpired)
<1>6. Funded(v)
  BY <1>4, <1>5, ChildSolvent DEF Funded
<1>7. \/ t.time_slice = 0
      \/ \E u : /\ \/ u = parent_slice(t) /\ u.time_slice # 0
                   \/ Ticked(last_tick(t), u, b)
                /\ Splits2(Kernel, S2, current, c, u, v)
  <2>1. /\ Records(Kernel) /\ Kernel.rq.curr = current /\ Kernel.task = task
        /\ current \in AllTask
    BY Base
  <2> QED BY <1>4, <2>1, SplitChanges
<1>8. task' = S2.task /\ rq' = S2.rq /\ Kernel.task = task /\ Kernel.rq = rq
  BY <1>3, Base DEF Becomes
<1> HIDE DEF S2, v, t
<1>9. t.time_slice # 0
  BY <1>5, SliceMaxFacts DEF Solvent
<1>10. PICK u : /\ \/ u = parent_slice(t) /\ u.time_slice # 0
                   \/ Ticked(last_tick(t), u, b)
                /\ Splits2(Kernel, S2, current, c, u, v)
  BY <1>7, <1>9
<1>11. Funded(u)
  BY <1>5, <1>10, ParentSolvent DEF Funded
<1>12. ASSUME NEW q \in Task PROVE Funded(task'[q])
  <2> DEFINE w == IF q = current THEN u ELSE IF q = c THEN v ELSE task[q]
  <2>1. Account(task'[q]) = Account(w)
    BY <1>8, <1>10, Base DEF Splits2
  <2>2. Funded(w)
    BY <1>6, <1>11 DEF Budget
  <2> HIDE DEF w
  <2> QED BY <2>1, <2>2, AccountFunded
<1>13. rq'.panic # "BUG"
  BY <1>1, <1>8, <1>10 DEF Splits2
<1> QED BY <1>5, <1>12, <1>13, BudgetMet

\* When not Modest, the code before the split says nothing of anybody's time.
LEMMA ForkSplitBudget == ASSUME IInv, Modest => Policies, Budget, ForkSplit PROVE Budget'
<1>1. CASE Modest
  BY <1>1, ForkSplitSolvent
<1>2. CASE ~Modest
  <2>1. pc[current] = "fork_copied" /\ rq.panic = "none"
    BY DEF ForkSplit
  <2>2. current \in Task /\ "fork" \in Workload
    <3>1. pc[current] # "user" /\ InFork(pc[current])
      BY <2>1 DEF InFork
    <3> QED BY <2>1, <3>1, InForkCall, InCall, Base DEF Budget
  <2>3. \A q \in Task : Funded(task'[q])
    BY <1>2, <2>2 DEF Funded
  <2> QED BY <1>2, <2>2, <2>3, BudgetMet
<1> QED BY <1>1, <1>2

LEMMA ForkWakeBudget ==
    ASSUME IInv, Budget, NEW clone_parent, ForkWake(clone_parent) PROVE Budget'
<1>1. rq.panic = "none" /\ InFork(pc[current]) /\ ReturnsToUser
  BY DEF ForkWake, InFork
<1>2. PICK c : c = child[current]
  OBVIOUS
<1>3. PICK k : Becomes(fork_wake(Kernel, current, c, clone_parent, k))
  BY <1>2 DEF ForkWake
<1>4. c \in AllTask /\ task[c].state # "UNUSED"
  BY <1>1, <1>2, InForkCall, Base DEF Life
<1> DEFINE S2 == fork_wake(Kernel, current, c, clone_parent, k)
<1>5. Still(Kernel, S2)
  BY <1>4, Base, StillForkWake
<1> HIDE DEF S2
<1> QED BY <1>1, <1>3, <1>5, BudgetStill DEF S2

LEMMA ExitBudget == ASSUME IInv, Budget, Exit PROVE Budget'
<1>1. /\ InKernel /\ rq' = rq /\ UNCHANGED pc
      /\ task' = [p \in AllTask |->
                    IF p = current THEN [task[p] EXCEPT !.state = "ZOMBIE"]
                    ELSE IF p # Idle /\ task[p].state # "UNUSED" /\ task[p].p_opptr = current
                         THEN [task[p] EXCEPT !.p_opptr = Reaper]
                    ELSE task[p]]
  BY DEF Exit
<1>2. rq.panic = "none" /\ task[current].state = "RUNNING"
  BY <1>1, Caller
<1>3. ASSUME NEW q \in Task PROVE Funded(task'[q])
  <2> DEFINE t == task[q]
             u1 == [t EXCEPT !.state = "ZOMBIE"]
             u2 == [t EXCEPT !.p_opptr = Reaper]
  <2>1. IsStruct(t) /\ Funded(t) /\ q \in AllTask
    BY Base DEF Budget
  <2>2. /\ q = current => task'[q] = u1
        /\ q # current => task'[q] \in {u2, t}
    BY <1>1, <2>1
  <2>3. t.state # "UNUSED" => Account(u1) = Account(t)
    BY <2>1 DEF IsStruct, Account
  <2>4. Account(u2) = Account(t)
    BY <2>1 DEF IsStruct, Account
  <2>5. q = current => t.state # "UNUSED"
    BY <1>2
  <2> HIDE DEF u1, u2, t
  <2> QED BY <2>1, <2>2, <2>3, <2>4, <2>5, AccountFunded
<1>4. /\ Modest => rq'.panic # "BUG"
      /\ \A q \in Task : InFork(pc'[q]) => "fork" \in Workload
  BY <1>1 DEF Budget
<1> QED BY <1>3, <1>4, BudgetMet

LEMMA ReapBudget == ASSUME IInv, Budget, NEW p \in Task, Reap(p) PROVE Budget'
<1> DEFINE S1 == sched_exit(Kernel, p)
           u == [task[current] EXCEPT !.time_slice = given_back(task[current], task[p])]
<1>1. /\ InKernel /\ ReturnsToUser /\ task[p].state = "ZOMBIE"
      /\ Becomes(put_task(S1, p, UnusedTask))
  BY DEF Reap
<1>2. /\ rq.panic = "none" /\ current \in Task /\ task[current].state = "RUNNING"
      /\ IsStruct(task[current])
  BY <1>1, Caller, Base
<1>3. Changes(Kernel, S1, current, u)
  <2>1. /\ Records(Kernel) /\ Kernel.rq.curr = current /\ Kernel.task = task
        /\ current \in AllTask
    BY Base
  <2> QED BY <2>1, ExitChanges
<1>4. Funded(u)
  BY <1>1, <1>2, ReapFunded DEF Budget
<1> HIDE DEF S1, u
<1>5. ASSUME NEW q \in Task PROVE Funded(S1.task[q])
  <2>1. Account(S1.task[q]) = Account(IF q = current THEN u ELSE task[q])
    BY <1>3, Base DEF Changes
  <2>2. Funded(IF q = current THEN u ELSE task[q])
    BY <1>4 DEF Budget
  <2> QED BY <2>1, <2>2, AccountFunded
<1>6. \A q \in AllTask : task'[q] = IF q = p THEN UnusedTask ELSE S1.task[q]
  <2>1. task' = [S1.task EXCEPT ![p] = UnusedTask] /\ DOMAIN S1.task = AllTask
    BY <1>1, <1>3 DEF Becomes, put_task, Changes, Records
  <2> QED BY <2>1
<1>7. \A q \in Task : Funded(task'[q])
  BY <1>5, <1>6, UnusedFunded, Base
<1>8. rq'.panic # "BUG"
  BY <1>1, <1>2, <1>3, Base DEF Becomes, put_task, Changes
<1>9. \A q \in Task : InFork(pc'[q]) => "fork" \in Workload
  BY <1>1, <1>2, Before, Base DEF ReturnsToUser, InFork, Budget
<1> QED BY <1>7, <1>8, <1>9, BudgetMet

\* Every step of the kernel preserves Budget.
LEMMA NextBudget == ASSUME IInv, Modest => Policies, Budget, Next PROVE Budget'
<1>1. CASE Tick
  BY <1>1, TickBudget
<1>2. CASE Reschedule
  BY <1>2, RescheduleBudget
<1>3. CASE SysEnter
  BY <1>3, SysEnterBudget
<1>4. CASE SysReturn
  BY <1>4, SysReturnBudget
<1>5. CASE Yield
  BY <1>5, YieldBudget
<1>6. CASE \E s \in {"RUNNING", "INTERRUPTIBLE", "UNINTERRUPTIBLE"} : SetState(s)
  <2>1. {"RUNNING", "INTERRUPTIBLE", "UNINTERRUPTIBLE"} = State \ {"ZOMBIE", "UNUSED"}
    BY DEF State
  <2> QED BY <1>6, <2>1, SetStateBudget
<1>7. ASSUME NEW p \in Task,
             \/ Wake(p) \/ Reap(p) \/ ForkCopy(p)
             \/ \E ms \in ReqTimes : RenewShort(p, ms) \/ MakeShort(p, ms)
             \/ \E k \in UserPrio : SetNice(p, k)
             \/ SetNormal(p, "OTHER", DefaultPrio)
             \/ \E policy \in {"FIFO", "RR"}, k \in 0 .. MAX_RT_PRIO - 2 : SetNormal(p, policy, k)
      PROVE  Budget'
  <2>1. CASE Wake(p)
    BY <2>1, WakeBudget
  <2>2. CASE Reap(p)
    BY <2>2, ReapBudget
  <2>3. CASE ForkCopy(p)
    BY <2>3, ForkCopyBudget
  <2>4. CASE \E ms \in ReqTimes : RenewShort(p, ms) \/ MakeShort(p, ms)
    BY <2>4, RenewBudget, MakeShortBudget
  <2>5. CASE \E k \in UserPrio : SetNice(p, k)
    BY <2>5, SetNiceBudget
  <2>6. CASE SetNormal(p, "OTHER", DefaultPrio)
    BY <2>6, SetNormalBudget
  <2>7. CASE \E policy \in {"FIFO", "RR"}, k \in 0 .. MAX_RT_PRIO - 2 : SetNormal(p, policy, k)
    BY <2>7, SetNormalBudget
  <2> QED BY <1>7, <2>1, <2>2, <2>3, <2>4, <2>5, <2>6, <2>7
<1>8. CASE ForkFail
  BY <1>8, ForkFailBudget
<1>9. CASE ForkSplit
  BY <1>9, ForkSplitBudget
<1>10. CASE \E cp \in BOOLEAN : ForkWake(cp)
  BY <1>10, ForkWakeBudget
<1>11. CASE Exit
  BY <1>11, ExitBudget
<1> QED BY <1>1, <1>2, <1>3, <1>4, <1>5, <1>6, <1>7, <1>8, <1>9, <1>10, <1>11 DEF Next

LEMMA InitBudget == ASSUME Init PROVE Budget
<1>1. /\ task = [p \in AllTask |-> IF p = Idle THEN IdleTask
                                   ELSE IF p \in InitTasks THEN BootTask(p) ELSE UnusedTask]
      /\ pc = [p \in AllTask |-> "user"]
      /\ rq.panic = "none"
  BY DEF Init
<1>2. UnusedTask.static_prio \in UserPrio
  BY SchedAssumption DEF UnusedTask, UserPrio
<1>3. TASK_TIMESLICE(UnusedTask) \in 1 .. SliceMax
  BY <1>2, FullSlice, SliceMaxFacts
<1>4. ASSUME NEW p PROVE Funded(BootTask(p))
  <2> DEFINE t == BootTask(p)
             slice == TASK_TIMESLICE(UnusedTask)
  <2>1. /\ t.state = "RUNNING" /\ t.policy = "OTHER" /\ t.time_slice = slice
        /\ t.static_prio = UnusedTask.static_prio /\ t.first_time_slice = FALSE
    <3> HIDE DEF slice
    <3> QED BY DEF BootTask, UnusedTask, slice
  <2> HIDE DEF t, slice
  <2>2. ~overdue_task(t)
    BY <2>1 DEF overdue_task
  <2>3. Funded(t)
    BY <1>2, <1>3, <2>1, <2>2 DEF Funded, Solvent, Granted, slice
  <2> QED BY <2>3 DEF t
<1>5. \A p \in Task : Funded(task[p])
  <2>1. \A p \in Task : task[p] = BootTask(p) \/ task[p] = UnusedTask
    BY <1>1, Constants DEF AllTask
  <2> QED BY <1>4, <2>1, UnusedFunded
<1> QED BY <1>1, <1>5 DEF Budget, InFork, AllTask

\* Budget is an invariant of the specification.
LEMMA BudgetInductive == Spec => []Budget
<1>1. Init => IInv /\ (Modest => Policies) /\ Budget
  BY InitIInv, InitRefines, InitBudget
<1>2. IInv /\ [Next]_vars => IInv'
  BY StepNext, StepStutter
<1>3. IInv /\ IInv' /\ (Modest => Policies) /\ [Next]_vars => (Modest => Policies)'
  BY NextRefines, StutterRefines DEF Refines, Modest
<1>4. IInv /\ (Modest => Policies) /\ Budget /\ [Next]_vars => Budget'
  <2>1. ASSUME Budget, UNCHANGED vars PROVE Budget'
    BY <2>1, BudgetMet DEF vars, Budget
  <2> QED BY <2>1, NextBudget
<1> QED BY <1>1, <1>2, <1>3, <1>4, PTL DEF Spec

(***************************************************************************)
(* The BUG() of do_fork() is out of reach: whoever calls it has time left, *)
(* after any sequence of forks, renewals, lapses, collected children and   *)
(* ticks inside do_fork().  It is assumed that do_fork() does not wait     *)
(* while it copies, which is what run V_fork_bug needs, that nobody asks   *)
(* for negative time, and that two slices fit in an unsigned int.          *)
(***************************************************************************)
THEOREM BugUnreachable ==
    ASSUME Modest
    PROVE  Spec => []ForkHasTime
<1>1. Budget => ForkHasTime
  BY DEF Budget, ForkHasTime
<1> QED BY <1>1, BudgetInductive, PTL

(***************************************************************************)
(* While nobody forks, a SHORT task whose last request was not negative    *)
(* never has more than it asked for and an overdue one never more than     *)
(* twice that, and each has some: whatever requests, negative ones too,    *)
(* came before.                                                            *)
(***************************************************************************)
THEOREM SliceCorrect == Spec => []SliceWithinRequest
<1>1. Budget => SliceWithinRequest
  <2> SUFFICES ASSUME Budget, "fork" \notin Workload, NEW p \in Task,
                      task[p].policy = "SHORT", task[p].requestedTime >= 0
               PROVE  task[p].time_slice \in 1 .. Grant(task[p])
    BY DEF SliceWithinRequest, short_task, overdue_task, Grant
  <2> QED BY DEF Budget, Funded, Granted
<1> QED BY <1>1, BudgetInductive, PTL
=============================================================================
