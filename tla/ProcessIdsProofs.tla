--------------------------- MODULE ProcessIdsProofs ---------------------------
(***************************************************************************)
(* The invariants of ProcessIds, for any number of tasks, any range of     *)
(* pids and any hash function.  That next_safe is right after a search     *)
(* follows from what the search knows of the tasks it has passed (Passed); *)
(* that a pid out of the allocator's sight is not handed out twice, from   *)
(* the order in which pids are handed out (Distinct).                      *)
(***************************************************************************)
EXTENDS ProcessIds, CollectionLemmas

\* A chain has the linked tasks with a pid of its own, once.
Chained ==
    /\ \A h \in PidHash :
         /\ IsInjective(pidhash[h])
         /\ \A t \in Task : t \in ToSet(pidhash[h]) <=> t \in Linked /\ pid_hashfn[id[t].pid] = h
    /\ \A t \in Linked \cup Copying : id[t].pid # 0
    /\ InitTask \in Linked

\* The search is for a child that nobody knows yet.
Called ==
    at # 0 => /\ call.parent \in Linked \ Forking
              /\ call.child \notin Linked \cup Copying
              /\ call.beginpid # 0

\* What was handed out last, before the search that is going on.
Latest == IF at = 0 THEN last_pid ELSE call.beginpid

\* No two tasks have one pid, and who is copied has one handed out since the
\* search went round.
Distinct ==
    Sane => /\ \A t, u \in Linked \cup Copying : id[t].pid = id[u].pid => t = u
            /\ \A c \in Copying : id[c].pid <= Latest

\* n is not between last_pid and next_safe.
Beyond(n) == ~(last_pid < n /\ n < next_safe)

\* What holds of pids even after a change of group during a fork.
PidsBeyond == at = 0 /\ Sane => \A t \in Linked : Beyond(id[t].pid)

IdsBeyond == at = 0 /\ Sane /\ ~regrouped => \A t \in Linked : \A n \in IdsOf(t) : Beyond(n)

\* The tasks the search has passed do not use the candidate, and next_safe is
\* below their ids.
Passed == \A j \in 1 .. at - 1 : \A n \in IdsOf(tasks[j]) : n # last_pid /\ Beyond(n)

\* The other ids of a child are ids of its parent.
Inherits ==
    ~regrouped =>
        \A c \in Copying : {id[c].pgrp, id[c].tgid, id[c].session} \subseteq IdsOf(copying[c])

\* Every candidate before last_pid, counted from where the search began, is used.
Tried ==
    at # 0 => \A n \in RESERVED .. PID_MAX - 1 :
                 IF call.beginpid < last_pid THEN call.beginpid < n /\ n < last_pid => n \in InUse
                 ELSE call.beginpid < n \/ n < last_pid => n \in InUse

IInv ==
    /\ TypeOK /\ Chained /\ Called /\ Distinct /\ PidsBeyond /\ IdsBeyond /\ Passed /\ Inherits
    /\ Tried

-----------------------------------------------------------------------------
(* Lists of tasks.                                                         *)

\* Every list is a function from its positions.
LEMMA Positions ==
    ASSUME NEW S, NEW q \in Seq(S)
    PROVE  /\ Len(q) \in Nat /\ DOMAIN q = 1 .. Len(q)
           /\ \A i \in 1 .. Len(q) : q[i] \in S
           /\ \A x : x \in ToSet(q) <=> \E i \in 1 .. Len(q) : q[i] = x
<1>1. Len(q) \in Nat /\ DOMAIN q = 1 .. Len(q) /\ \A i \in 1 .. Len(q) : q[i] \in S
  BY LenProperties
<1> QED BY <1>1 DEF ToSet

\* SET_LINKS(): the task becomes the last.
LEMMA Appended ==
    ASSUME NEW S, NEW q \in Seq(S), IsInjective(q), NEW t \in S, t \notin ToSet(q)
    PROVE  /\ Append(q, t) \in Seq(S) /\ IsInjective(Append(q, t))
           /\ \A x : x \in ToSet(Append(q, t)) <=> x \in ToSet(q) \/ x = t
<1> DEFINE s == Append(q, t)
<1>1. /\ s \in Seq(S) /\ Len(s) = Len(q) + 1
      /\ \A j \in 1 .. Len(q) : s[j] = q[j]
      /\ s[Len(q) + 1] = t
  BY AppendProperties
<1>2. /\ Len(q) \in Nat /\ DOMAIN q = 1 .. Len(q)
      /\ \A x : x \in ToSet(q) <=> \E i \in 1 .. Len(q) : q[i] = x
  BY Positions
<1> HIDE DEF s
<1>3. /\ DOMAIN s = 1 .. Len(s)
      /\ \A x : x \in ToSet(s) <=> \E i \in 1 .. Len(s) : s[i] = x
  BY <1>1, Positions
<1>4. IsInjective(s)
  <2> SUFFICES ASSUME NEW i \in 1 .. Len(q) + 1, NEW j \in 1 .. Len(q) + 1, s[i] = s[j]
               PROVE  i = j
    BY <1>1, <1>3 DEF IsInjective
  <2>1. \A k \in 1 .. Len(q) : q[k] # t
    BY <1>2
  <2> QED BY <1>1, <1>2, <2>1 DEF IsInjective
<1>5. \A x : x \in ToSet(s) <=> x \in ToSet(q) \/ x = t
  <2> TAKE x
  <2>1. ASSUME x \in ToSet(s) PROVE x \in ToSet(q) \/ x = t
    <3>1. PICK i \in 1 .. Len(q) + 1 : s[i] = x
      BY <1>1, <1>3, <2>1
    <3> QED BY <1>1, <1>2, <3>1
  <2>2. ASSUME x \in ToSet(q) PROVE x \in ToSet(s)
    <3>1. PICK i \in 1 .. Len(q) : q[i] = x
      BY <1>2, <2>2
    <3> QED BY <1>1, <1>2, <1>3, <3>1
  <2>3. t \in ToSet(s)
    BY <1>1, <1>2, <1>3
  <2> QED BY <2>1, <2>2, <2>3
<1> QED BY <1>1, <1>4, <1>5 DEF s

\* hash_pid(): the task becomes the first of its chain.
LEMMA Prepended ==
    ASSUME NEW S, NEW q \in Seq(S), IsInjective(q), NEW t \in S, t \notin ToSet(q)
    PROVE  /\ <<t>> \o q \in Seq(S) /\ IsInjective(<<t>> \o q)
           /\ \A x : x \in ToSet(<<t>> \o q) <=> x \in ToSet(q) \/ x = t
<1> DEFINE s == <<t>> \o q
<1>0. Len(q) \in Nat
  BY Positions
<1>1. <<t>> \in Seq(S) /\ Len(<<t>>) = 1 /\ <<t>>[1] = t
  OBVIOUS
<1>2. /\ s \in Seq(S) /\ Len(s) = Len(q) + 1
      /\ \A j \in 1 .. Len(q) + 1 : s[j] = IF j = 1 THEN t ELSE q[j - 1]
  BY <1>0, <1>1, ConcatProperties
<1>3. /\ DOMAIN q = 1 .. Len(q)
      /\ \A x : x \in ToSet(q) <=> \E i \in 1 .. Len(q) : q[i] = x
  BY Positions
<1> HIDE DEF s
<1>4. /\ DOMAIN s = 1 .. Len(s)
      /\ \A x : x \in ToSet(s) <=> \E i \in 1 .. Len(s) : s[i] = x
  BY <1>2, Positions
<1>5. IsInjective(s)
  <2> SUFFICES ASSUME NEW i \in 1 .. Len(q) + 1, NEW j \in 1 .. Len(q) + 1, s[i] = s[j]
               PROVE  i = j
    BY <1>2, <1>4 DEF IsInjective
  <2>1. \A k \in 1 .. Len(q) : q[k] # t
    BY <1>3
  <2>2. CASE i = 1 \/ j = 1
    BY <1>0, <1>2, <2>1, <2>2
  <2>3. CASE i # 1 /\ j # 1
    <3>1. i - 1 \in 1 .. Len(q) /\ j - 1 \in 1 .. Len(q) /\ q[i - 1] = q[j - 1]
      BY <1>0, <1>2, <2>3
    <3>2. i - 1 = j - 1
      BY <1>3, <3>1 DEF IsInjective
    <3> QED BY <3>2
  <2> QED BY <2>2, <2>3
<1>6. \A x : x \in ToSet(s) <=> x \in ToSet(q) \/ x = t
  <2> TAKE x
  <2>1. ASSUME x \in ToSet(s) PROVE x \in ToSet(q) \/ x = t
    <3>1. PICK i \in 1 .. Len(q) + 1 : s[i] = x
      BY <1>2, <1>4, <2>1
    <3>2. CASE i # 1
      <4>1. i - 1 \in 1 .. Len(q) /\ q[i - 1] = x
        BY <1>0, <1>2, <3>1, <3>2
      <4> QED BY <1>3, <4>1
    <3> QED BY <1>2, <3>1, <3>2
  <2>2. ASSUME x \in ToSet(q) PROVE x \in ToSet(s)
    <3>1. PICK i \in 1 .. Len(q) : q[i] = x
      BY <1>3, <2>2
    <3>2. i + 1 \in 1 .. Len(q) + 1 /\ s[i + 1] = x
      BY <1>0, <1>2, <3>1
    <3> QED BY <1>2, <1>4, <3>2
  <2>3. t \in ToSet(s)
    BY <1>0, <1>2, <1>4
  <2> QED BY <2>1, <2>2, <2>3
<1> QED BY <1>2, <1>5, <1>6 DEF s

\* REMOVE_LINKS() and unhash_pid().
LEMMA Removed ==
    ASSUME NEW S, NEW q \in Seq(S), IsInjective(q), NEW t, t \in ToSet(q)
    PROVE  /\ without(q, t) \in Seq(S) /\ IsInjective(without(q, t))
           /\ \A x : x \in ToSet(without(q, t)) <=> x \in ToSet(q) /\ x # t
<1> DEFINE k == CHOOSE i \in 1 .. Len(q) : q[i] = t
           s == RemoveAt(q, k)
<1>1. /\ Len(q) \in Nat /\ DOMAIN q = 1 .. Len(q)
      /\ \A x : x \in ToSet(q) <=> \E i \in 1 .. Len(q) : q[i] = x
  BY Positions
<1>2. k \in 1 .. Len(q) /\ q[k] = t
  <2>1. \E i \in 1 .. Len(q) : q[i] = t
    BY <1>1
  <2> QED BY <2>1
<1> HIDE DEF k
<1>3. /\ s \in Seq(S) /\ Len(s) = Len(q) - 1
      /\ \A j \in 1 .. Len(q) - 1 : s[j] = IF j < k THEN q[j] ELSE q[j + 1]
  BY <1>2, RemoveAtProperties
<1> HIDE DEF s
<1>4. /\ DOMAIN s = 1 .. Len(s)
      /\ \A x : x \in ToSet(s) <=> \E i \in 1 .. Len(s) : s[i] = x
  BY <1>3, Positions
<1>5. \A i, j \in 1 .. Len(q) : q[i] = q[j] => i = j
  BY <1>1 DEF IsInjective
<1>6. IsInjective(s)
  <2> SUFFICES ASSUME NEW i \in 1 .. Len(q) - 1, NEW j \in 1 .. Len(q) - 1, s[i] = s[j]
               PROVE  i = j
    BY <1>3, <1>4 DEF IsInjective
  <2> DEFINE old(n) == IF n < k THEN n ELSE n + 1
  <2>1. /\ old(i) \in 1 .. Len(q) /\ old(j) \in 1 .. Len(q)
        /\ q[old(i)] = q[old(j)]
    BY <1>1, <1>2, <1>3
  <2>2. old(i) = old(j)
    <3> HIDE DEF old
    <3> QED BY <1>5, <2>1
  <2> QED BY <1>1, <1>2, <2>2
<1>7. \A x : x \in ToSet(s) <=> x \in ToSet(q) /\ x # t
  <2> TAKE x
  <2>1. ASSUME x \in ToSet(s) PROVE x \in ToSet(q) /\ x # t
    <3>1. PICK i \in 1 .. Len(q) - 1 : s[i] = x
      BY <1>3, <1>4, <2>1
    <3>2. \E j \in 1 .. Len(q) : j # k /\ q[j] = x
      BY <1>1, <1>2, <1>3, <3>1
    <3> QED BY <1>1, <1>2, <1>5, <3>2
  <2>2. ASSUME x \in ToSet(q), x # t PROVE x \in ToSet(s)
    <3>1. PICK j \in 1 .. Len(q) : q[j] = x
      BY <1>1, <2>2
    <3>2. j # k
      BY <1>2, <2>2, <3>1
    <3>3. CASE j < k
      <4>1. j \in 1 .. Len(q) - 1 /\ s[j] = x
        BY <1>1, <1>2, <1>3, <3>1, <3>3
      <4> QED BY <1>3, <1>4, <4>1
    <3>4. CASE j > k
      <4>1. j - 1 \in 1 .. Len(q) - 1 /\ s[j - 1] = x
        BY <1>1, <1>2, <1>3, <3>1, <3>4
      <4> QED BY <1>3, <1>4, <4>1
    <3> QED BY <1>1, <1>2, <3>2, <3>3, <3>4
  <2> QED BY <2>1, <2>2
<1> QED BY <1>3, <1>6, <1>7 DEF s, k, without

-----------------------------------------------------------------------------
(* Numbers.                                                                *)

LEMMA Arithmetic ==
    /\ PID_MAX \in Nat /\ RESERVED \in Nat /\ 2 <= RESERVED /\ RESERVED < PID_MAX
    /\ \A n \in 1 .. PID_MAX - 1 :
         /\ wrap(n + 1) \in 1 .. PID_MAX - 1
         /\ n + 1 < PID_MAX => wrap(n + 1) = n + 1
         /\ ~(n + 1 < PID_MAX) => wrap(n + 1) = RESERVED /\ n = PID_MAX - 1
  BY PidAssumption DEF wrap

\* next_safe comes down to the least id above last, and no further.
LEMMA LowerSafe ==
    ASSUME NEW t \in Task, id \in [Task -> Ids], NEW last \in 1 .. PID_MAX - 1,
           NEW safe \in 1 .. PID_MAX, last \notin IdsOf(t)
    PROVE  /\ lower_safe(t, last, safe) \in 1 .. PID_MAX
           /\ lower_safe(t, last, safe) <= safe
           /\ \A n \in IdsOf(t) : last < n => lower_safe(t, last, safe) <= n
<1> DEFINE S == {safe} \cup {n \in IdsOf(t) : n > last}
<1>0. PID_MAX \in Nat
  BY Arithmetic
<1>1. \A n \in IdsOf(t) : n \in 0 .. PID_MAX - 1
  BY <1>0 DEF Ids, IdsOf
<1>2. S \in SUBSET Nat /\ S # {} /\ \A n \in S : n \in 1 .. PID_MAX
  BY <1>0, <1>1
<1>3. \E x \in S : \A y \in S : x <= y
  <2> HIDE DEF S
  <2> QED BY <1>2, Least
<1>4. Min(S) \in S /\ \A y \in S : Min(S) <= y
  <2> HIDE DEF S
  <2> QED BY <1>3 DEF Min
<1>5. lower_safe(t, last, safe) = Min(S)
  BY DEF lower_safe
<1>6. safe \in S /\ \A n \in IdsOf(t) : last < n => n \in S
  BY <1>0, <1>1
<1> HIDE DEF S
<1> QED BY <1>2, <1>4, <1>5, <1>6

-----------------------------------------------------------------------------
(* What an action leaves alone.                                            *)

LEMMA IdsInRange ==
    ASSUME id \in [Task -> Ids], NEW t \in Task
    PROVE  /\ IdsOf(t) \subseteq 0 .. PID_MAX - 1
           /\ id[t].pid \in IdsOf(t) /\ id[t].pgrp \in IdsOf(t)
           /\ id[t].tgid \in IdsOf(t) /\ id[t].session \in IdsOf(t)
  BY DEF Ids, IdsOf

\* The search touches no task.
LEMMA Searching ==
    ASSUME TypeOK, Chained, Distinct, Inherits,
           UNCHANGED <<tasks, copying, id, pidhash, lapped, regrouped>>,
           exhausted => exhausted', exhausted' \/ Latest' = Latest
    PROVE  Chained' /\ Distinct' /\ Inherits'
<1>1. UNCHANGED <<Linked, Copying>> /\ \A t : IdsOf(t)' = IdsOf(t)
  BY DEF Linked, Copying, IdsOf
<1>2. Chained'
  BY <1>1 DEF Chained
<1>3. Distinct'
  BY <1>1 DEF Distinct, Sane
<1>4. Inherits'
  BY <1>1 DEF Inherits
<1> QED BY <1>2, <1>3, <1>4

\* The child c of t has a pid.
LEMMA Started ==
    ASSUME TypeOK, NEW t \in Linked \ Forking, NEW c \in Task, c \notin Linked \cup Copying,
           NEW begin, NEW pid \in 1 .. PID_MAX - 1, start_copying(t, c, begin, pid)
    PROVE  /\ Linked' = Linked
           /\ \A u : u \in Copying' <=> u \in Copying \/ u = c
           /\ copying'[c] = t /\ \A u \in Copying : u # c /\ copying'[u] = copying[u]
           /\ id' \in [Task -> Ids]
           /\ id'[c].pid = pid
           /\ {id'[c].pgrp, id'[c].tgid, id'[c].session} \subseteq IdsOf(t)
           /\ \A u \in Task : u # c => id'[u] = id[u] /\ IdsOf(u)' = IdsOf(u)
           /\ Copying' \subseteq Task \ Linked' /\ Forking' \subseteq Linked'
<1>0. t \in Task /\ Linked \subseteq Task /\ id \in [Task -> Ids]
  <2>1. Linked \subseteq Task
    BY Positions DEF TypeOK, Linked
  <2>2. id \in [Task -> Ids]
    BY DEF TypeOK
  <2> QED BY <2>1, <2>2
<1>1. Linked' = Linked
  BY DEF start_copying, Linked
<1>2. /\ \A u : u \in Copying' <=> u \in Copying \/ u = c
      /\ copying'[c] = t /\ \A u \in Copying : u # c /\ copying'[u] = copying[u]
  BY DEF start_copying, Copying
<1>3. id' = [id EXCEPT ![c] = [id[t] EXCEPT !.pid = pid]]
  BY DEF start_copying
<1>4. /\ id'[c].pid = pid /\ id'[c].pgrp = id[t].pgrp
      /\ id'[c].tgid = id[t].tgid /\ id'[c].session = id[t].session
      /\ id'[c] \in Ids
  BY <1>0, <1>3, Arithmetic DEF Ids
<1>5. \A u \in Task : u # c => id'[u] = id[u] /\ IdsOf(u)' = IdsOf(u)
  BY <1>0, <1>3 DEF IdsOf
<1>6. id' \in [Task -> Ids]
  BY <1>0, <1>3, <1>4
<1>7. Copying' \subseteq Task \ Linked' /\ Forking' \subseteq Linked'
  BY <1>1, <1>2 DEF TypeOK, Forking
<1> QED BY <1>0, <1>1, <1>2, <1>4, <1>5, <1>6, <1>7 DEF IdsOf

\* Whoever has not gone round is above where the search began, or alone.
LEMMA NotLapped ==
    ASSUME lapped \in BOOLEAN, NEW t, NEW c, NEW begin \in Nat, NEW pid \in Nat,
           start_copying(t, c, begin, pid)
    PROVE  /\ UNCHANGED <<tasks, pidhash, exhausted, regrouped>>
           /\ lapped' \in BOOLEAN
           /\ lapped => lapped'
           /\ ~lapped' => Copying = {} \/ begin < pid
<1>1. /\ UNCHANGED <<tasks, pidhash, exhausted, regrouped>>
      /\ lapped' = (lapped \/ (Copying # {} /\ pid <= begin))
  BY DEF start_copying
<1>2. /\ lapped' \in BOOLEAN
      /\ lapped => lapped'
      /\ ~lapped' => Copying = {} \/ ~(pid <= begin)
  BY <1>1, Zenon
<1> QED BY <1>1, <1>2

\* So the invariants hold that are not about next_safe, if the pid is new.
LEMMA StartedInvariants ==
    ASSUME TypeOK, Chained, Distinct, Inherits,
           NEW t \in Linked \ Forking, NEW c \in Task, c \notin Linked \cup Copying,
           NEW pid \in 1 .. PID_MAX - 1, start_copying(t, c, Latest, pid),
           Latest' = pid, Latest \in Nat,
           Sane' => /\ \A u \in Linked : id[u].pid # pid
                    /\ \A u \in Copying : id[u].pid < pid
    PROVE  Chained' /\ Distinct' /\ Inherits'
<1>0. Linked \subseteq Task /\ Copying \subseteq Task
  BY Positions DEF TypeOK, Linked
<1>1. /\ Linked' = Linked
      /\ \A u : u \in Copying' <=> u \in Copying \/ u = c
      /\ copying'[c] = t /\ \A u \in Copying : u # c /\ copying'[u] = copying[u]
      /\ id'[c].pid = pid
      /\ {id'[c].pgrp, id'[c].tgid, id'[c].session} \subseteq IdsOf(t)
      /\ \A u \in Task : u # c => id'[u] = id[u] /\ IdsOf(u)' = IdsOf(u)
  BY Started
<1>2. /\ UNCHANGED <<pidhash, exhausted, regrouped>>
      /\ lapped => lapped'
  BY DEF start_copying
<1>3. Chained'
  <2>1. \A h \in PidHash, u \in Task :
          u \in ToSet(pidhash[h])' <=> u \in Linked' /\ pid_hashfn[id'[u].pid] = h
    BY <1>0, <1>1, <1>2 DEF Chained
  <2>2. \A u \in Linked' \cup Copying' : id'[u].pid # 0
    BY <1>0, <1>1 DEF Chained
  <2> QED BY <1>1, <1>2, <2>1, <2>2 DEF Chained
<1>4. Distinct'
  <2> SUFFICES ASSUME Sane'
               PROVE  /\ \A v, u \in Linked' \cup Copying' : id'[v].pid = id'[u].pid => v = u
                      /\ \A u \in Copying' : id'[u].pid <= Latest'
    BY DEF Distinct
  <2>1. Sane
    BY <1>2 DEF Sane
  <2>2. \A v \in Task : id[v].pid \in Nat
    BY Arithmetic DEF TypeOK, Ids
  <2>3. \A u \in Linked \cup Copying : id[u].pid # pid /\ id'[u].pid = id[u].pid
    BY <1>0, <1>1, <2>2
  <2>4. \A v, u \in Linked' \cup Copying' : id'[v].pid = id'[u].pid => v = u
    BY <1>1, <2>1, <2>3 DEF Distinct
  <2>5. \A u \in Copying : id'[u].pid <= pid
    BY <1>0, <2>2, <2>3
  <2> QED BY <1>1, <2>4, <2>5
<1>5. Inherits'
  <2> SUFFICES ASSUME ~regrouped, NEW u \in Copying'
               PROVE  {id'[u].pgrp, id'[u].tgid, id'[u].session} \subseteq IdsOf(copying[u])'
    BY <1>2 DEF Inherits
  <2>1. CASE u = c
    <3>1. id'[t] = id[t]
      BY <1>0, <1>1
    <3> QED BY <1>1, <2>1, <3>1 DEF IdsOf
  <2>2. CASE u \in Copying
    <3>1. copying[u] \in Linked
      BY <2>2 DEF TypeOK, Forking
    <3>2. copying'[u] = copying[u] /\ id'[u] = id[u] /\ id'[copying[u]] = id[copying[u]]
      BY <1>0, <1>1, <2>2, <3>1
    <3>3. {id[u].pgrp, id[u].tgid, id[u].session} \subseteq IdsOf(copying[u])
      BY <1>2, <2>2 DEF Inherits
    <3> QED BY <3>2, <3>3 DEF IdsOf
  <2> QED BY <1>1, <2>1, <2>2
<1> QED BY <1>3, <1>4, <1>5

\* While somebody searches, next_safe stands for nothing.
LEMMA SearchOn ==
    ASSUME at' # 0 \/ exhausted'
    PROVE  PidsBeyond' /\ IdsBeyond'
  BY DEF PidsBeyond, IdsBeyond, Sane

LEMMA NobodySearches ==
    ASSUME at' = 0
    PROVE  Called' /\ Passed' /\ Tried'
<1>1. 1 .. at' - 1 = {}
  OBVIOUS
<1> QED BY <1>1 DEF Called, Passed, Tried

-----------------------------------------------------------------------------
(* get_pid().                                                              *)

\* Without a search the pid is the one after last_pid.
LEMMA TakenAtOnce ==
    ASSUME IInv, NEW t \in Task, NEW c \in Task, get_pid(t, c), ~must_search(last_pid + 1)
    PROVE  IInv'
<1> USE DEF IInv
<1>0. /\ at = 0 /\ at' = 0 /\ UNCHANGED <<next_safe, call>>
      /\ t \in Linked \ Forking /\ c \notin Linked \cup Copying
      /\ last_pid' = last_pid + 1 /\ last_pid + 1 < next_safe
      /\ last_pid + 1 \in 1 .. PID_MAX - 1
      /\ start_copying(t, c, last_pid, last_pid + 1)
  BY Arithmetic DEF get_pid, may_fork, must_search, TypeOK
<1>1. /\ UNCHANGED <<tasks, pidhash, exhausted, regrouped>>
      /\ lapped' \in BOOLEAN
      /\ lapped => lapped'
  <2>1. last_pid \in Nat /\ last_pid + 1 \in Nat /\ lapped \in BOOLEAN
    BY Arithmetic DEF TypeOK
  <2> QED BY <1>0, <2>1, NotLapped
<1>2. /\ Linked' = Linked
      /\ \A u : u \in Copying' <=> u \in Copying \/ u = c
      /\ id' \in [Task -> Ids]
      /\ \A u \in Task : u # c => id'[u] = id[u] /\ IdsOf(u)' = IdsOf(u)
      /\ Copying' \subseteq Task \ Linked' /\ Forking' \subseteq Linked'
  BY <1>0, Started
<1>3. TypeOK'
  BY <1>0, <1>1, <1>2 DEF TypeOK
<1>4. Linked \subseteq Task /\ \A u \in Task : IdsOf(u) \subseteq 0 .. PID_MAX - 1
  <2>1. Linked \subseteq Task
    BY Positions DEF TypeOK, Linked
  <2>2. \A u \in Task : IdsOf(u) \subseteq 0 .. PID_MAX - 1
    BY IdsInRange DEF TypeOK
  <2> QED BY <2>1, <2>2
<1>5. ASSUME Sane'
      PROVE  /\ \A u \in Linked : id[u].pid # last_pid + 1
             /\ \A u \in Copying : id[u].pid < last_pid + 1
  <2>1. Sane
    BY <1>1, <1>5 DEF Sane
  <2>2. last_pid \in Nat /\ \A u \in Linked \cup Copying : id[u].pid \in Nat
    BY <1>4, IdsInRange DEF TypeOK
  <2>3. \A u \in Copying : id[u].pid <= last_pid
    BY <1>0, <2>1 DEF Distinct, Latest
  <2>4. \A u \in Linked : Beyond(id[u].pid)
    BY <1>0, <2>1 DEF PidsBeyond
  <2> QED BY <1>0, <2>2, <2>3, <2>4 DEF Beyond
<1>6. Latest = last_pid /\ Latest' = last_pid + 1
  BY <1>0 DEF Latest
<1>7. Chained' /\ Distinct' /\ Inherits'
  BY <1>0, <1>5, <1>6, StartedInvariants DEF TypeOK
<1>8. Called' /\ Passed' /\ Tried'
  BY <1>0, NobodySearches
<1>9. Sane' => Sane
  BY <1>1 DEF Sane
<1>10. \A n \in 0 .. PID_MAX - 1 : Beyond(n) => Beyond(n)'
  BY <1>0, Arithmetic DEF Beyond, TypeOK
<1>11. PidsBeyond'
  BY <1>0, <1>2, <1>4, <1>9, <1>10, IdsInRange DEF PidsBeyond, TypeOK
<1>12. IdsBeyond'
  BY <1>0, <1>1, <1>2, <1>4, <1>9, <1>10 DEF IdsBeyond
<1> QED BY <1>3, <1>7, <1>8, <1>11, <1>12

\* The search begins.
LEMMA SearchBegins ==
    ASSUME IInv, NEW t \in Task, NEW c \in Task, get_pid(t, c), must_search(last_pid + 1)
    PROVE  IInv'
<1> USE DEF IInv
<1>0. /\ at = 0 /\ at' = 1
      /\ t \in Linked \ Forking /\ c \notin Linked \cup Copying
      /\ last_pid' = wrap(last_pid + 1) /\ next_safe' = PID_MAX
      /\ call' = [parent |-> t, child |-> c, beginpid |-> last_pid]
      /\ UNCHANGED <<tasks, copying, id, pidhash, exhausted, lapped, regrouped>>
  BY DEF get_pid, may_fork
<1>1. last_pid \in 1 .. PID_MAX - 1 /\ last_pid' \in 1 .. PID_MAX - 1
  BY <1>0, Arithmetic DEF TypeOK
<1>2. UNCHANGED <<Linked, Copying, Forking>>
  BY <1>0 DEF Linked, Copying, Forking
<1>3. TypeOK'
  <2>1. Len(tasks) \in Nat
    BY Positions DEF TypeOK
  <2> QED BY <1>0, <1>1, <1>2, <2>1, Arithmetic DEF TypeOK
<1>4. Chained' /\ Distinct' /\ Inherits'
  BY <1>0, Searching DEF Latest
<1>5. PidsBeyond' /\ IdsBeyond'
  BY <1>0, SearchOn
<1>6. Called'
  BY <1>0, <1>1, <1>2 DEF Called
<1>7. Passed'
  BY <1>0 DEF Passed
<1>8. Tried'
  <2> SUFFICES ASSUME NEW n \in RESERVED .. PID_MAX - 1
               PROVE  IF last_pid < last_pid' THEN last_pid < n /\ n < last_pid' => n \in InUse'
                      ELSE last_pid < n \/ n < last_pid' => n \in InUse'
    BY <1>0 DEF Tried
  <2> QED BY <1>0, <1>1, Arithmetic
<1> QED BY <1>3, <1>4, <1>5, <1>6, <1>7, <1>8

\* The candidate is tried: the next one begins where the tried ones end, unless
\* the search has come round.
LEMMA NextCandidate ==
    ASSUME TypeOK, Called, Tried, at # 0, last_pid \in InUse,
           NEW n \in RESERVED .. PID_MAX - 1
    PROVE  LET next == wrap(last_pid + 1)
           IN  IF next = call.beginpid THEN n \in InUse \cup {call.beginpid}
               ELSE IF call.beginpid < next THEN call.beginpid < n /\ n < next => n \in InUse
               ELSE call.beginpid < n \/ n < next => n \in InUse
<1> DEFINE begin == call.beginpid
           next  == wrap(last_pid + 1)
<1>0. /\ begin \in 1 .. PID_MAX - 1 /\ last_pid \in 1 .. PID_MAX - 1 /\ n \in Nat
      /\ PID_MAX \in Nat /\ RESERVED \in Nat /\ RESERVED <= n /\ n < PID_MAX
  BY Arithmetic DEF TypeOK, Called
<1>1. IF begin < last_pid THEN begin < n /\ n < last_pid => n \in InUse
      ELSE begin < n \/ n < last_pid => n \in InUse
  BY DEF Tried
<1>2. CASE last_pid + 1 < PID_MAX
  <2>1. next = last_pid + 1
    BY <1>2, <1>0, Arithmetic
  <2> HIDE DEF begin, next
  <2>2. n = last_pid => n \in InUse
    OBVIOUS
  <2> QED BY <1>0, <1>1, <2>1, <2>2 DEF begin, next
<1>3. CASE ~(last_pid + 1 < PID_MAX)
  <2>1. next = RESERVED /\ last_pid = PID_MAX - 1
    BY <1>3, <1>0, Arithmetic
  <2> HIDE DEF begin, next
  <2>2. n = last_pid => n \in InUse
    OBVIOUS
  <2> QED BY <1>0, <1>1, <2>1, <2>2 DEF begin, next
<1> QED BY <1>2, <1>3

\* The task the search is at.
LEMMA TaskAtHand ==
    ASSUME TypeOK, at \in 1 .. Len(tasks)
    PROVE  /\ tasks[at] \in Linked /\ tasks[at] \in Task
           /\ IdsOf(tasks[at]) \subseteq InUse
<1>1. tasks[at] \in Linked /\ tasks[at] \in Task
  BY Positions DEF TypeOK, Linked
<1> QED BY <1>1 DEF InUse

LEMMA RepeatKeeps ==
    ASSUME IInv, repeat
    PROVE  IInv'
<1> USE DEF IInv
<1>0. /\ at \in 1 .. Len(tasks) /\ last_pid \in InUse
      /\ UNCHANGED <<tasks, copying, id, pidhash, lapped, regrouped>>
      /\ IF last_pid' = call.beginpid
         THEN at' = 0 /\ call' = NoCall /\ exhausted' = TRUE
         ELSE at' = 1 /\ UNCHANGED <<call, exhausted>>
  BY TaskAtHand DEF repeat
<1>1. last_pid' = wrap(last_pid + 1) /\ next_safe' \in 1 .. PID_MAX
  BY Arithmetic DEF repeat, TypeOK
<1>2. last_pid' \in 1 .. PID_MAX - 1 /\ at' \in {0, 1} /\ (exhausted => exhausted')
  BY <1>0, <1>1, Arithmetic DEF TypeOK
<1>3. UNCHANGED <<Linked, Copying, Forking, InUse>>
  BY <1>0 DEF Linked, Copying, Forking, InUse, IdsOf
<1>4. Len(tasks) \in Nat /\ at # 0
  BY <1>0, Positions DEF TypeOK
<1>5. TypeOK'
  <2>1. call' \in [parent : Task, child : Task, beginpid : 0 .. PID_MAX - 1]
    BY <1>0, PidAssumption, Arithmetic DEF NoCall, TypeOK
  <2>2. exhausted' \in BOOLEAN
    BY <1>0 DEF TypeOK
  <2> QED BY <1>0, <1>1, <1>2, <1>3, <1>4, <2>1, <2>2 DEF TypeOK
<1>6. exhausted' \/ (at' = 1 /\ UNCHANGED <<call, exhausted>>)
  BY <1>0
<1>7. Chained' /\ Distinct' /\ Inherits'
  BY <1>0, <1>2, <1>4, <1>6, Searching DEF Latest
<1>8. PidsBeyond' /\ IdsBeyond'
  BY <1>6, SearchOn
<1>9. CASE at' = 0
  <2>1. Called' /\ Passed' /\ Tried'
    BY <1>9, NobodySearches
  <2> QED BY <1>5, <1>7, <1>8, <2>1
<1>10. CASE at' = 1
  <2>1. UNCHANGED call /\ last_pid' # call.beginpid
    BY <1>0, <1>10
  <2>2. Called'
    BY <1>3, <1>4, <2>1 DEF Called
  <2>3. Passed'
    BY <1>10 DEF Passed
  <2>4. Tried'
    <3> SUFFICES ASSUME NEW n \in RESERVED .. PID_MAX - 1
                 PROVE  IF call.beginpid < last_pid'
                        THEN call.beginpid < n /\ n < last_pid' => n \in InUse
                        ELSE call.beginpid < n \/ n < last_pid' => n \in InUse
      BY <1>3, <2>1 DEF Tried
    <3> QED BY <1>0, <1>1, <1>4, <2>1, NextCandidate
  <2> QED BY <1>5, <1>7, <1>8, <2>2, <2>3, <2>4
<1> QED BY <1>2, <1>9, <1>10

LEMMA ForEachTaskKeeps ==
    ASSUME IInv, for_each_task
    PROVE  IInv'
<1> USE DEF IInv
<1>0. /\ at \in 1 .. Len(tasks) /\ last_pid \notin IdsOf(tasks[at]) /\ at' = at + 1
      /\ next_safe' = lower_safe(tasks[at], last_pid, next_safe)
      /\ UNCHANGED <<tasks, copying, id, pidhash, last_pid, call, exhausted, lapped, regrouped>>
  BY DEF for_each_task
<1>1. UNCHANGED <<Linked, Copying, Forking, InUse>>
  BY <1>0 DEF Linked, Copying, Forking, InUse, IdsOf
<1>2. Len(tasks) \in Nat /\ tasks[at] \in Task /\ at # 0 /\ at' # 0
  BY <1>0, Positions DEF TypeOK
<1>3. /\ next_safe' \in 1 .. PID_MAX /\ next_safe' <= next_safe
      /\ \A n \in IdsOf(tasks[at]) : last_pid < n => next_safe' <= n
  BY <1>0, <1>2, LowerSafe DEF TypeOK
<1>4. TypeOK'
  BY <1>0, <1>1, <1>2, <1>3 DEF TypeOK
<1>5. Chained' /\ Distinct' /\ Inherits'
  BY <1>0, <1>2, Searching DEF Latest
<1>6. PidsBeyond' /\ IdsBeyond'
  BY <1>2, SearchOn
<1>7. Called'
  BY <1>0, <1>1, <1>2 DEF Called
<1>8. Tried'
  BY <1>0, <1>1, <1>2 DEF Tried
<1>9. Passed'
  <2> SUFFICES ASSUME NEW j \in 1 .. at, NEW n \in IdsOf(tasks[j])
               PROVE  n # last_pid /\ ~(last_pid < n /\ n < next_safe')
    BY <1>0, <1>2 DEF Passed, Beyond, IdsOf
  <2>1. j \in 1 .. Len(tasks) /\ tasks[j] \in Task
    BY <1>0, <1>2, Positions DEF TypeOK
  <2>2. n \in 0 .. PID_MAX - 1
    BY <2>1, IdsInRange DEF TypeOK
  <2>3. CASE j = at
    BY <1>0, <1>3, <2>2, <2>3, Arithmetic DEF TypeOK
  <2>4. CASE j # at
    <3>1. j \in 1 .. at - 1
      BY <1>0, <1>2, <2>4
    <3>2. n # last_pid /\ Beyond(n)
      BY <3>1 DEF Passed
    <3> QED BY <1>3, <2>2, <3>2, Arithmetic DEF TypeOK, Beyond
  <2> QED BY <2>3, <2>4
<1> QED BY <1>4, <1>5, <1>6, <1>7, <1>8, <1>9

\* At the end of the list every linked task has been passed.
LEMMA AllPassed ==
    ASSUME TypeOK, Passed, at = Len(tasks) + 1
    PROVE  \A t \in Linked : \A n \in IdsOf(t) : n # last_pid /\ Beyond(n)
<1> SUFFICES ASSUME NEW t \in Linked, NEW n \in IdsOf(t)
             PROVE  n # last_pid /\ Beyond(n)
  OBVIOUS
<1>1. PICK j \in 1 .. Len(tasks) : tasks[j] = t
  BY Positions DEF TypeOK, Linked
<1>2. j \in 1 .. at - 1
  BY Positions DEF TypeOK
<1> QED BY <1>1, <1>2 DEF Passed

LEMMA FoundKeeps ==
    ASSUME IInv, found
    PROVE  IInv'
<1> DEFINE t == call.parent
           c == call.child
<1> USE DEF IInv
<1>0. /\ at = Len(tasks) + 1 /\ Len(tasks) \in Nat /\ at' = 0 /\ call' = NoCall
      /\ UNCHANGED <<last_pid, next_safe>>
      /\ start_copying(t, c, call.beginpid, last_pid)
  BY Positions DEF found, TypeOK
<1>1. t \in Linked \ Forking /\ c \in Task /\ c \notin Linked \cup Copying
  BY <1>0 DEF Called, TypeOK
<1>2. /\ UNCHANGED <<tasks, pidhash, exhausted, regrouped>>
      /\ lapped' \in BOOLEAN
      /\ lapped => lapped'
      /\ ~lapped' => Copying = {} \/ call.beginpid < last_pid
  <2>1. last_pid \in Nat /\ call.beginpid \in Nat /\ lapped \in BOOLEAN
    BY Arithmetic DEF TypeOK
  <2> HIDE DEF t, c
  <2> QED BY <1>0, <2>1, NotLapped
<1>3. last_pid \in 1 .. PID_MAX - 1 /\ call.beginpid \in Nat
  BY Arithmetic DEF TypeOK
<1> HIDE DEF t, c
<1>4. /\ Linked' = Linked
      /\ id' \in [Task -> Ids]
      /\ \A u \in Task : u # c => id'[u] = id[u] /\ IdsOf(u)' = IdsOf(u)
      /\ Copying' \subseteq Task \ Linked' /\ Forking' \subseteq Linked'
  BY <1>0, <1>1, <1>3, Started
<1>5. TypeOK'
  <2>1. call' \in [parent : Task, child : Task, beginpid : 0 .. PID_MAX - 1]
    BY <1>0, PidAssumption, Arithmetic DEF NoCall, TypeOK
  <2> QED BY <1>0, <1>2, <1>4, <2>1 DEF TypeOK
<1>6. \A u \in Linked : \A n \in IdsOf(u) : n # last_pid /\ Beyond(n)
  BY <1>0, AllPassed
<1>7. Linked \subseteq Task
  BY Positions DEF TypeOK, Linked
<1>8. Sane' => Sane
  BY <1>2 DEF Sane
<1>9. \A u \in Linked : id[u].pid \in IdsOf(u)
  BY <1>7, IdsInRange DEF TypeOK
<1>10. Latest = call.beginpid /\ Latest' = last_pid
  BY <1>0 DEF Latest
<1>11. ASSUME Sane', NEW u \in Copying
       PROVE  id[u].pid < last_pid
  <2>1. id[u].pid <= call.beginpid
    BY <1>8, <1>10, <1>11 DEF Distinct
  <2>2. id[u].pid \in Nat
    BY IdsInRange, Arithmetic DEF TypeOK, Ids
  <2>3. call.beginpid < last_pid
    BY <1>2, <1>11 DEF Sane
  <2> QED BY <1>3, <2>1, <2>2, <2>3
<1>12. Chained' /\ Distinct' /\ Inherits'
  BY <1>0, <1>1, <1>3, <1>6, <1>9, <1>10, <1>11, StartedInvariants
<1>13. Called' /\ Passed' /\ Tried'
  BY <1>0, NobodySearches
<1>14. \A u \in Linked : \A n \in IdsOf(u)' : Beyond(n)'
  BY <1>0, <1>1, <1>4, <1>6, <1>7 DEF Beyond
<1>15. PidsBeyond' /\ IdsBeyond'
  <2>1. \A u \in Linked : id'[u].pid \in IdsOf(u)'
    BY DEF IdsOf
  <2>2. \A u \in Linked : Beyond(id[u].pid)'
    BY <1>0, <1>1, <1>4, <1>6, <1>7, <1>9 DEF Beyond
  <2> QED BY <1>4, <1>14, <2>1, <2>2 DEF PidsBeyond, IdsBeyond
<1> QED BY <1>5, <1>12, <1>13, <1>15

-----------------------------------------------------------------------------
(* The rest of do_fork(), and what others do with ids.                     *)

LEMMA ForkFailsKeeps ==
    ASSUME IInv, NEW c \in Task, fork_fails(c)
    PROVE  IInv'
<1> USE DEF IInv
<1>0. /\ at = 0 /\ at' = 0 /\ c \in Copying
      /\ id' = [id EXCEPT ![c] = NoIds]
      /\ UNCHANGED <<tasks, pidhash, last_pid, next_safe, at, call, exhausted, lapped, regrouped>>
  BY DEF fork_fails
<1>1. /\ \A u : u \in Copying' <=> u \in Copying /\ u # c
      /\ \A u \in Copying' : copying'[u] = copying[u]
  BY DEF fork_fails, forget, Copying
<1>2. Linked' = Linked /\ Linked \subseteq Task /\ c \notin Linked /\ Copying \subseteq Task
  BY <1>0, Positions DEF TypeOK, Linked
<1>3. NoIds \in Ids
  BY Arithmetic DEF NoIds, Ids
<1>4. id' \in [Task -> Ids] /\ \A u \in Task : u # c => id'[u] = id[u]
  BY <1>0, <1>3 DEF TypeOK
<1>5. Forking' \subseteq Forking
  BY <1>1 DEF Forking
<1>6. TypeOK'
  BY <1>0, <1>1, <1>2, <1>4, <1>5 DEF TypeOK
<1>7. Chained'
  <2>1. \A h \in PidHash, u \in Task :
          u \in ToSet(pidhash[h])' <=> u \in Linked' /\ pid_hashfn[id'[u].pid] = h
    BY <1>0, <1>2, <1>4 DEF Chained
  <2>2. \A u \in Linked' \cup Copying' : id'[u].pid # 0
    BY <1>1, <1>2, <1>4 DEF Chained
  <2> QED BY <1>0, <1>2, <2>1, <2>2 DEF Chained
<1>8. Distinct'
  BY <1>0, <1>1, <1>2, <1>4 DEF Distinct, Sane, Latest
<1>9. PidsBeyond' /\ IdsBeyond'
  BY <1>0, <1>2, <1>4 DEF PidsBeyond, IdsBeyond, Beyond, Sane, IdsOf
<1>10. Inherits'
  <2>1. \A u \in Copying' : copying[u] \in Linked
    BY <1>1 DEF TypeOK, Forking
  <2> QED BY <1>0, <1>1, <1>2, <1>4, <2>1 DEF Inherits, IdsOf
<1>11. Called' /\ Passed' /\ Tried'
  BY <1>0, NobodySearches
<1> QED BY <1>6, <1>7, <1>8, <1>9, <1>10, <1>11

LEMMA PidOf ==
    ASSUME TypeOK, Chained, NEW t \in Linked \cup Copying
    PROVE  t \in Task /\ id[t].pid \in 1 .. PID_MAX - 1 /\ pid_hashfn[id[t].pid] \in PidHash
<1>1. t \in Task
  BY Positions DEF TypeOK, Linked
<1>2. id[t].pid \in 0 .. PID_MAX - 1 /\ id[t].pid # 0
  BY <1>1 DEF TypeOK, Ids, Chained
<1>3. id[t].pid \in 1 .. PID_MAX - 1
  BY <1>2, Arithmetic
<1> QED BY <1>1, <1>3, PidAssumption

LEMMA SetLinksKeeps ==
    ASSUME IInv, NEW c \in Task, SET_LINKS(c)
    PROVE  IInv'
<1> USE DEF IInv
<1> DEFINE t == copying[c]
           h == pid_hashfn[id[c].pid]
<1>0. /\ at = 0 /\ at' = 0 /\ c \in Copying /\ tasks' = Append(tasks, c)
      /\ UNCHANGED <<last_pid, next_safe, at, call, exhausted, lapped, regrouped>>
  BY DEF SET_LINKS
<1>1. PICK tgid \in {id[c].pid, id[t].tgid} : id' = [id EXCEPT ![c].tgid = tgid]
  BY DEF SET_LINKS
<1>2. /\ \A u : u \in Copying' <=> u \in Copying /\ u # c
      /\ \A u \in Copying' : copying'[u] = copying[u]
  BY DEF SET_LINKS, forget, Copying
<1>3. /\ Linked \subseteq Task /\ Copying \subseteq Task /\ c \notin Linked
      /\ t \in Linked /\ t \in Task /\ t # c
  <2>1. Linked \subseteq Task
    BY Positions DEF TypeOK, Linked
  <2>2. t \in Forking
    BY <1>0 DEF Forking
  <2> HIDE DEF t
  <2> QED BY <1>0, <2>1, <2>2 DEF TypeOK
<1>4. /\ tasks' \in Seq(Task) /\ IsInjective(tasks')
      /\ \A u : u \in Linked' <=> u \in Linked \/ u = c
  BY <1>0, <1>3, Appended DEF TypeOK, Linked
<1>5. /\ id[c] \in Ids /\ id[t] \in Ids /\ id[c].pid \in 1 .. PID_MAX - 1 /\ h \in PidHash
  BY <1>0, <1>3, PidOf DEF TypeOK
<1>6. /\ id'[c].pid = id[c].pid /\ id'[c].pgrp = id[c].pgrp
      /\ id'[c].session = id[c].session /\ id'[c].tgid = tgid
      /\ id' \in [Task -> Ids]
      /\ \A u \in Task : u # c => id'[u] = id[u]
  BY <1>1, <1>3, <1>5 DEF TypeOK, Ids
<1>7. pidhash' = [pidhash EXCEPT ![h] = <<c>> \o @]
  BY <1>6 DEF SET_LINKS, hash_pid
<1> HIDE DEF t, h
<1>8. pidhash[h] \in Seq(Task) /\ IsInjective(pidhash[h]) /\ c \notin ToSet(pidhash[h])
  BY <1>3, <1>5 DEF TypeOK, Chained
<1>9. /\ <<c>> \o pidhash[h] \in Seq(Task) /\ IsInjective(<<c>> \o pidhash[h])
      /\ \A u : u \in ToSet(<<c>> \o pidhash[h]) <=> u \in ToSet(pidhash[h]) \/ u = c
  BY <1>8, Prepended
<1>10. /\ pidhash'[h] = <<c>> \o pidhash[h]
       /\ \A k \in PidHash : k # h => pidhash'[k] = pidhash[k]
       /\ pidhash' \in [PidHash -> Seq(Task)]
  BY <1>5, <1>7, <1>9 DEF TypeOK
<1>11. Copying' \subseteq Task \ Linked' /\ Forking' \subseteq Linked'
  BY <1>2, <1>3, <1>4 DEF TypeOK, Forking
<1>12. TypeOK'
  <2>1. at' \in 0 .. Len(tasks') + 1
    BY <1>0, <1>4, Positions
  <2> QED BY <1>0, <1>4, <1>6, <1>10, <1>11, <2>1 DEF TypeOK
<1>13. Chained'
  <2>1. ASSUME NEW k \in PidHash
        PROVE  /\ IsInjective(pidhash'[k])
               /\ \A u \in Task :
                    u \in ToSet(pidhash'[k]) <=> u \in Linked' /\ pid_hashfn[id'[u].pid] = k
    <3>1. /\ IsInjective(pidhash[k])
          /\ \A u \in Task : u \in ToSet(pidhash[k]) <=> u \in Linked /\ pid_hashfn[id[u].pid] = k
      BY DEF Chained
    <3>2. CASE k = h
      BY <1>3, <1>4, <1>6, <1>9, <1>10, <3>1, <3>2 DEF h
    <3>3. CASE k # h
      BY <1>3, <1>4, <1>6, <1>10, <3>1, <3>3 DEF h
    <3> QED BY <3>2, <3>3
  <2>2. \A u \in Linked' \cup Copying' : id'[u].pid # 0
    BY <1>0, <1>2, <1>3, <1>4, <1>6 DEF Chained
  <2>3. InitTask \in Linked'
    BY <1>4 DEF Chained
  <2> QED BY <2>1, <2>2, <2>3 DEF Chained
<1>14. Distinct'
  BY <1>0, <1>2, <1>3, <1>4, <1>6 DEF Distinct, Sane, Latest
<1>15. PidsBeyond'
  <2> SUFFICES ASSUME Sane, NEW u \in Linked'
               PROVE  Beyond(id[u].pid)'
    BY <1>0 DEF PidsBeyond, Sane
  <2>1. CASE u = c
    <3>1. id[c].pid <= last_pid
      BY <1>0 DEF Distinct, Latest
    <3> QED BY <1>0, <1>5, <1>6, <2>1, <3>1 DEF Beyond, TypeOK
  <2>2. CASE u \in Linked
    BY <1>0, <1>3, <1>6, <2>2 DEF PidsBeyond, Beyond
  <2> QED BY <1>4, <2>1, <2>2
<1>16. IdsBeyond'
  <2> SUFFICES ASSUME Sane, ~regrouped, NEW u \in Linked'
               PROVE  \A n \in IdsOf(u)' : Beyond(n)'
    BY <1>0 DEF IdsBeyond, Sane
  <2>0. \A v \in Linked : \A n \in IdsOf(v) : Beyond(n)
    BY <1>0 DEF IdsBeyond
  <2>1. CASE u = c
    <3>1. ~(last_pid < id[c].pid)
      BY <1>0, <1>5 DEF Distinct, Latest, TypeOK
    <3>2. {id[c].pgrp, id[c].session} \subseteq IdsOf(t) /\ id[t].tgid \in IdsOf(t)
      BY <1>0 DEF Inherits, t, IdsOf
    <3>3. IdsOf(c)' \subseteq IdsOf(t) \cup {id[c].pid}
      BY <1>6, <3>2 DEF IdsOf, t
    <3> QED BY <1>0, <1>3, <2>0, <2>1, <3>1, <3>3 DEF Beyond
  <2>2. CASE u \in Linked
    <3>1. IdsOf(u)' = IdsOf(u)
      BY <1>3, <1>6, <2>2 DEF IdsOf
    <3> QED BY <1>0, <2>0, <2>2, <3>1 DEF Beyond
  <2> QED BY <1>4, <2>1, <2>2
<1>17. Inherits'
  <2>1. \A u \in Copying' : copying[u] \in Linked
    BY <1>2 DEF TypeOK, Forking
  <2> QED BY <1>0, <1>2, <1>3, <1>6, <2>1 DEF Inherits, IdsOf
<1>18. Called' /\ Passed' /\ Tried'
  BY <1>0, NobodySearches
<1> QED BY <1>12, <1>13, <1>14, <1>15, <1>16, <1>17, <1>18

LEMMA UnhashKeeps ==
    ASSUME IInv, NEW t \in Task, unhash_process(t)
    PROVE  IInv'
<1> DEFINE h == pid_hashfn[id[t].pid]
<1> USE DEF IInv
<1>0. /\ at = 0 /\ at' = 0 /\ t \in Linked /\ t \notin Forking /\ t # InitTask
      /\ tasks' = without(tasks, t) /\ id' = [id EXCEPT ![t] = NoIds]
      /\ pidhash' = [pidhash EXCEPT ![h] = without(@, t)]
      /\ UNCHANGED <<copying, last_pid, next_safe, at, call, exhausted, lapped, regrouped>>
  BY DEF unhash_process, unhash_pid
<1>1. UNCHANGED <<Copying, Forking>>
  BY <1>0 DEF Copying, Forking
<1>2. Linked \subseteq Task /\ Copying \subseteq Task /\ t \notin Copying
  BY <1>0, Positions DEF TypeOK, Linked
<1>3. /\ tasks' \in Seq(Task) /\ IsInjective(tasks')
      /\ \A u : u \in Linked' <=> u \in Linked /\ u # t
  BY <1>0, Removed DEF TypeOK, Linked
<1>4. h \in PidHash
  BY <1>0, PidOf
<1>5. /\ id' \in [Task -> Ids]
      /\ \A u \in Task : u # t => id'[u] = id[u]
  <2>1. NoIds \in Ids
    BY Arithmetic DEF NoIds, Ids
  <2> QED BY <1>0, <2>1 DEF TypeOK
<1>6. pidhash[h] \in Seq(Task) /\ IsInjective(pidhash[h]) /\ t \in ToSet(pidhash[h])
  BY <1>0, <1>4 DEF TypeOK, Chained
<1> HIDE DEF h
<1>7. /\ without(pidhash[h], t) \in Seq(Task) /\ IsInjective(without(pidhash[h], t))
      /\ \A u : u \in ToSet(without(pidhash[h], t)) <=> u \in ToSet(pidhash[h]) /\ u # t
  BY <1>6, Removed
<1>8. /\ pidhash'[h] = without(pidhash[h], t)
      /\ \A k \in PidHash : k # h => pidhash'[k] = pidhash[k]
      /\ pidhash' \in [PidHash -> Seq(Task)]
  BY <1>0, <1>4, <1>7 DEF TypeOK
<1>9. TypeOK'
  <2>1. Copying' \subseteq Task \ Linked' /\ Forking' \subseteq Linked'
    BY <1>0, <1>1, <1>3 DEF TypeOK
  <2>2. at' \in 0 .. Len(tasks') + 1
    BY <1>0, <1>3, Positions
  <2> QED BY <1>0, <1>3, <1>5, <1>8, <2>1, <2>2 DEF TypeOK
<1>10. Chained'
  <2>1. ASSUME NEW k \in PidHash
        PROVE  /\ IsInjective(pidhash'[k])
               /\ \A u \in Task :
                    u \in ToSet(pidhash'[k]) <=> u \in Linked' /\ pid_hashfn[id'[u].pid] = k
    <3>1. /\ IsInjective(pidhash[k])
          /\ \A u \in Task : u \in ToSet(pidhash[k]) <=> u \in Linked /\ pid_hashfn[id[u].pid] = k
      BY DEF Chained
    <3>2. CASE k = h
      BY <1>3, <1>5, <1>7, <1>8, <3>1, <3>2
    <3>3. CASE k # h
      BY <1>3, <1>5, <1>8, <3>1, <3>3 DEF h
    <3> QED BY <3>2, <3>3
  <2>2. \A u \in Linked' \cup Copying' : id'[u].pid # 0
    BY <1>1, <1>2, <1>3, <1>5 DEF Chained
  <2>3. InitTask \in Linked'
    BY <1>0, <1>3 DEF Chained
  <2> QED BY <2>1, <2>2, <2>3 DEF Chained
<1>11. Distinct'
  BY <1>0, <1>1, <1>2, <1>3, <1>5 DEF Distinct, Sane, Latest
<1>12. PidsBeyond' /\ IdsBeyond'
  BY <1>0, <1>2, <1>3, <1>5 DEF PidsBeyond, IdsBeyond, Beyond, Sane, IdsOf
<1>13. Inherits'
  <2>1. \A u \in Copying : copying[u] \in Linked /\ copying[u] # t
    BY <1>0 DEF TypeOK, Forking
  <2> QED BY <1>0, <1>1, <1>2, <1>5, <2>1 DEF Inherits, IdsOf
<1>14. Called' /\ Passed' /\ Tried'
  BY <1>0, NobodySearches
<1> QED BY <1>9, <1>10, <1>11, <1>12, <1>13, <1>14

\* Another group or session for t, with a number that is in use already.
LEMMA Regrouped ==
    ASSUME IInv, NEW t \in Linked, at = 0,
           UNCHANGED <<tasks, copying, pidhash, last_pid, next_safe, at, call, exhausted, lapped>>,
           regrouped => regrouped', regrouped' \in BOOLEAN, t \in Forking => regrouped',
           id' \in [Task -> Ids], id'[t].pid = id[t].pid,
           \A u \in Task : u # t => id'[u] = id[u],
           \A n \in IdsOf(t)' : \E u \in Linked : n \in IdsOf(u)
    PROVE  IInv'
<1> USE DEF IInv
<1>1. UNCHANGED <<Linked, Copying, Forking>>
  BY DEF Linked, Copying, Forking
<1>2. Linked \subseteq Task /\ t \in Task /\ t \notin Copying /\ Copying \subseteq Task
  <2>1. Linked \subseteq Task
    BY Positions DEF TypeOK, Linked
  <2> QED BY <2>1 DEF TypeOK
<1>3. \A u \in Task : id'[u].pid = id[u].pid
  OBVIOUS
<1>4. TypeOK'
  BY <1>1 DEF TypeOK
<1>5. Chained'
  <2>1. \A h \in PidHash, u \in Task :
          u \in ToSet(pidhash[h])' <=> u \in Linked' /\ pid_hashfn[id'[u].pid] = h
    BY <1>1, <1>3 DEF Chained
  <2>2. \A u \in Linked' \cup Copying' : id'[u].pid # 0
    BY <1>1, <1>2, <1>3 DEF Chained
  <2> QED BY <1>1, <2>1, <2>2 DEF Chained
<1>6. Distinct'
  BY <1>1, <1>2, <1>3 DEF Distinct, Sane, Latest
<1>7. PidsBeyond'
  BY <1>1, <1>2, <1>3 DEF PidsBeyond, Beyond, Sane
<1>8. IdsBeyond'
  <2> SUFFICES ASSUME Sane, ~regrouped, NEW u \in Linked
               PROVE  \A n \in IdsOf(u)' : Beyond(n)'
    BY <1>1 DEF IdsBeyond, Sane
  <2>0. \A v \in Linked : \A n \in IdsOf(v) : Beyond(n)
    BY DEF IdsBeyond
  <2>1. CASE u = t
    BY <2>0, <2>1 DEF Beyond
  <2>2. CASE u # t
    <3>1. IdsOf(u)' = IdsOf(u)
      BY <1>2, <2>2 DEF IdsOf
    <3> QED BY <2>0, <3>1 DEF Beyond
  <2> QED BY <2>1, <2>2
<1>9. Inherits'
  <2> SUFFICES ASSUME ~regrouped', NEW c \in Copying
               PROVE  {id'[c].pgrp, id'[c].tgid, id'[c].session} \subseteq IdsOf(copying[c])'
    BY <1>1 DEF Inherits
  <2>1. copying[c] \in Forking /\ copying[c] \in Linked /\ c # t
    BY <1>2 DEF Forking, TypeOK
  <2>2. copying[c] # t
    BY <2>1
  <2>3. id'[copying[c]] = id[copying[c]] /\ id'[c] = id[c]
    BY <1>2, <2>1, <2>2
  <2> QED BY <2>3 DEF Inherits, IdsOf
<1>10. Called' /\ Passed' /\ Tried'
  BY NobodySearches
<1> QED BY <1>4, <1>5, <1>6, <1>7, <1>8, <1>9, <1>10

LEMMA SetsidKeeps ==
    ASSUME IInv, NEW t \in Task, setsid(t)
    PROVE  IInv'
<1>1. t \in Linked /\ t \notin Forking /\ at = 0
  BY DEF setsid
<1>2. id[t] \in Ids
  BY DEF IInv, TypeOK
<1>3. id' = [id EXCEPT ![t].pgrp = id[t].pid, ![t].session = id[t].pid]
  BY DEF setsid
<1>4. /\ id'[t].pid = id[t].pid /\ id'[t].pgrp = id[t].pid
      /\ id'[t].session = id[t].pid /\ id'[t].tgid = id[t].tgid
      /\ id' \in [Task -> Ids]
      /\ \A u \in Task : u # t => id'[u] = id[u]
  BY <1>2, <1>3 DEF IInv, TypeOK, Ids
<1>5. \A n \in IdsOf(t)' : \E u \in Linked : n \in IdsOf(u)
  BY <1>1, <1>4 DEF IdsOf
<1>6. /\ UNCHANGED <<tasks, copying, pidhash, last_pid, next_safe, at, call, exhausted, lapped>>
      /\ regrouped' = regrouped /\ regrouped \in BOOLEAN
  BY DEF setsid, IInv, TypeOK
<1> QED BY <1>1, <1>4, <1>5, <1>6, Regrouped

LEMMA SetpgidKeeps ==
    ASSUME IInv, NEW t \in Task, setpgid(t)
    PROVE  IInv'
<1>1. t \in Linked /\ at = 0 /\ Linked \subseteq Task
  <2>1. Linked \subseteq Task
    BY Positions DEF IInv, TypeOK, Linked
  <2> QED BY <2>1 DEF setpgid
<1>2. id[t] \in Ids
  BY DEF IInv, TypeOK
<1>3. PICK u \in Linked : id' = [id EXCEPT ![t].pgrp = IF u = t THEN id[t].pid ELSE id[u].pgrp]
  BY DEF setpgid
<1> DEFINE pgrp == IF u = t THEN id[t].pid ELSE id[u].pgrp
<1>4. pgrp \in 0 .. PID_MAX - 1 /\ pgrp \in IdsOf(u)
  BY <1>1, <1>2 DEF IInv, TypeOK, Ids, IdsOf
<1>5. id' = [id EXCEPT ![t].pgrp = pgrp]
  BY <1>3
<1> HIDE DEF pgrp
<1>6. /\ id'[t].pid = id[t].pid /\ id'[t].pgrp = pgrp
      /\ id'[t].session = id[t].session /\ id'[t].tgid = id[t].tgid
      /\ id' \in [Task -> Ids]
      /\ \A v \in Task : v # t => id'[v] = id[v]
  BY <1>2, <1>4, <1>5 DEF IInv, TypeOK, Ids
<1>7. \A n \in IdsOf(t)' : \E v \in Linked : n \in IdsOf(v)
  BY <1>1, <1>4, <1>6 DEF IdsOf
<1>8. /\ UNCHANGED <<tasks, copying, pidhash, last_pid, next_safe, at, call, exhausted, lapped>>
      /\ regrouped => regrouped'
      /\ t \in Forking => regrouped'
      /\ regrouped' \in BOOLEAN
  BY DEF setpgid, IInv, TypeOK
<1> QED BY <1>1, <1>6, <1>7, <1>8, Regrouped

-----------------------------------------------------------------------------
(* The invariant.                                                          *)

LEMMA InitInv == Init => IInv
<1> SUFFICES ASSUME Init PROVE IInv
  OBVIOUS
<1>1. /\ tasks = <<InitTask>> /\ tasks \in Seq(Task) /\ Len(tasks) = 1 /\ IsInjective(tasks)
      /\ \A u : u \in Linked <=> u = InitTask
  <2>0. tasks = <<InitTask>> /\ InitTask \in Task
    BY PidAssumption DEF Init
  <2>1. tasks = <<InitTask>> /\ tasks \in Seq(Task) /\ Len(tasks) = 1 /\ tasks[1] = InitTask
    <3>1. <<InitTask>> \in Seq(Task) /\ Len(<<InitTask>>) = 1 /\ <<InitTask>>[1] = InitTask
      BY <2>0
    <3> QED BY <2>0, <3>1
  <2>2. \A u : u \in Linked <=> \E i \in 1 .. Len(tasks) : tasks[i] = u
    <3>1. tasks \in Seq(Task)
      BY <2>1
    <3> QED BY <3>1, Positions DEF Linked
  <2>3. DOMAIN tasks = 1 .. Len(tasks)
    BY <2>1
  <2>4. IsInjective(tasks)
    BY <2>1, <2>3 DEF IsInjective
  <2>5. \A u : u \in Linked <=> u = InitTask
    BY <2>1, <2>2
  <2> QED BY <2>1, <2>4, <2>5
<1>2. Copying = {} /\ Forking = {}
  BY DEF Init, Copying, Forking
<1>3. /\ id \in [Task -> Ids] /\ id[InitTask].pid = 1
      /\ IdsOf(InitTask) \subseteq {0, 1}
  <2>1. id = [t \in Task |-> IF t = InitTask THEN [NoIds EXCEPT !.pid = 1, !.tgid = 1] ELSE NoIds]
    BY DEF Init
  <2>2. NoIds \in Ids /\ [NoIds EXCEPT !.pid = 1, !.tgid = 1] \in Ids
    <3>1. 0 \in 0 .. PID_MAX - 1 /\ 1 \in 0 .. PID_MAX - 1
      BY Arithmetic
    <3> QED BY <3>1 DEF NoIds, Ids
  <2>3. id[InitTask] = [NoIds EXCEPT !.pid = 1, !.tgid = 1]
    BY <2>1, PidAssumption
  <2>4. id \in [Task -> Ids]
    BY <2>1, <2>2
  <2> QED BY <2>3, <2>4 DEF NoIds, IdsOf
<1>4. /\ pidhash \in [PidHash -> Seq(Task)]
      /\ \A h \in PidHash : /\ IsInjective(pidhash[h])
                            /\ \A u \in Task :
                                 u \in ToSet(pidhash[h]) <=> u = InitTask /\ pid_hashfn[1] = h
  <2>1. \A h \in PidHash : pidhash[h] = IF h = pid_hashfn[1] THEN <<InitTask>> ELSE << >>
    BY DEF Init
  <2>2. << >> \in Seq(Task) /\ IsInjective(<< >>) /\ ToSet(<< >>) = {}
    BY DEF IsInjective, ToSet
  <2>3. /\ <<InitTask>> \in Seq(Task) /\ IsInjective(<<InitTask>>)
        /\ \A u : u \in ToSet(<<InitTask>>) <=> u = InitTask
    BY <1>1 DEF Linked
  <2>4. pidhash \in [PidHash -> Seq(Task)]
    BY <2>2, <2>3 DEF Init
  <2> QED BY <2>1, <2>2, <2>3, <2>4
<1>5. TypeOK
  <2>1. last_pid \in 1 .. PID_MAX - 1 /\ next_safe \in 1 .. PID_MAX
    BY Arithmetic DEF Init
  <2>2. call \in [parent : Task, child : Task, beginpid : 0 .. PID_MAX - 1]
    BY PidAssumption, Arithmetic DEF Init, NoCall
  <2>3. at \in 0 .. Len(tasks) + 1
    BY <1>1 DEF Init
  <2>4. exhausted \in BOOLEAN /\ lapped \in BOOLEAN /\ regrouped \in BOOLEAN
    BY DEF Init
  <2> QED BY <1>1, <1>2, <1>3, <1>4, <2>1, <2>2, <2>3, <2>4 DEF TypeOK
<1>6. at = 0 /\ last_pid = 1
  BY DEF Init
<1>7. Chained /\ Distinct /\ Inherits
  BY <1>1, <1>2, <1>3, <1>4 DEF Chained, Distinct, Inherits
<1>8. PidsBeyond /\ IdsBeyond
  BY <1>1, <1>3, <1>6 DEF PidsBeyond, IdsBeyond, Beyond
<1>9. 1 .. at - 1 = {}
  BY <1>6
<1>10. Called /\ Passed /\ Tried
  BY <1>6, <1>9 DEF Called, Passed, Tried
<1> QED BY <1>5, <1>7, <1>8, <1>10 DEF IInv

LEMMA StutterKeeps ==
    ASSUME IInv, UNCHANGED vars
    PROVE  IInv'
<1>1. UNCHANGED <<Linked, Copying, Forking, InUse, Latest>>
  BY DEF vars, Linked, Copying, Forking, InUse, Latest, IdsOf
<1>2. TypeOK' /\ Chained' /\ Called' /\ Distinct'
  BY <1>1 DEF IInv, vars, TypeOK, Chained, Called, Distinct, Sane
<1>3. PidsBeyond' /\ IdsBeyond' /\ Passed' /\ Inherits' /\ Tried'
  BY <1>1 DEF IInv, vars, PidsBeyond, IdsBeyond, Passed, Inherits, Tried, Beyond, Sane, IdsOf
<1> QED BY <1>2, <1>3 DEF IInv

LEMMA Inductive == IInv /\ [Next]_vars => IInv'
<1> SUFFICES ASSUME IInv, [Next]_vars PROVE IInv'
  OBVIOUS
<1>1. CASE repeat
  BY <1>1, RepeatKeeps
<1>2. CASE for_each_task
  BY <1>2, ForEachTaskKeeps
<1>3. CASE found
  BY <1>3, FoundKeeps
<1>4. ASSUME NEW t \in Task, NEW c \in Task, get_pid(t, c) PROVE IInv'
  BY <1>4, TakenAtOnce, SearchBegins
<1>5. ASSUME NEW t \in Task, fork_fails(t) PROVE IInv'
  BY <1>5, ForkFailsKeeps
<1>6. ASSUME NEW t \in Task, SET_LINKS(t) PROVE IInv'
  BY <1>6, SetLinksKeeps
<1>7. ASSUME NEW t \in Task, unhash_process(t) PROVE IInv'
  BY <1>7, UnhashKeeps
<1>8. ASSUME NEW t \in Task, setsid(t) PROVE IInv'
  BY <1>8, SetsidKeeps
<1>9. ASSUME NEW t \in Task, setpgid(t) PROVE IInv'
  BY <1>9, SetpgidKeeps
<1>10. CASE UNCHANGED vars
  BY <1>10, StutterKeeps
<1> QED BY <1>1, <1>2, <1>3, <1>4, <1>5, <1>6, <1>7, <1>8, <1>9, <1>10 DEF Next

\* What every reachable state has.
LEMMA Reachable == Spec => []IInv
<1> QED BY InitInv, Inductive, PTL DEF Spec

(***************************************************************************)
(* The lists stay lists of tasks without repetition, next_safe and         *)
(* last_pid stay in the range of the pids, and only a linked task forks.   *)
(***************************************************************************)
THEOREM PidTypeCorrect == Spec => []TypeOK
<1>1. IInv => TypeOK
  BY DEF IInv
<1> QED BY <1>1, Reachable, PTL

(***************************************************************************)
(* next_safe is what get_pid() takes it for, whoever forks, ends, or is    *)
(* moved to another group or session between two calls: no linked task has *)
(* an id between last_pid and next_safe.                                   *)
(***************************************************************************)
THEOREM CacheCorrect == Spec => []CacheSound
<1>1. IInv => CacheSound
  <2> SUFFICES ASSUME IInv, at = 0, Sane, ~regrouped, NEW n \in InUse,
                      n \in last_pid + 1 .. next_safe - 1
               PROVE  FALSE
    BY DEF CacheSound
  <2>1. PICK t \in Linked : n \in IdsOf(t)
    BY DEF InUse
  <2>2. Beyond(n)
    BY <2>1 DEF IInv, IdsBeyond
  <2>3. last_pid \in Nat /\ next_safe \in Nat
    BY Arithmetic DEF IInv, TypeOK
  <2> QED BY <2>2, <2>3 DEF Beyond
<1> QED BY <1>1, Reachable, PTL

(***************************************************************************)
(* find_task_by_pid() finds exactly the task that has the pid, whatever    *)
(* pids share a chain of the hash: no pid is handed out twice, though it   *)
(* is out of the allocator's sight from get_pid() to SET_LINKS().          *)
(***************************************************************************)
THEOREM HashCorrect == Spec => []FindsTheTask
<1>1. IInv => FindsTheTask
  <2> SUFFICES ASSUME IInv, Sane, NEW pid \in 1 .. PID_MAX - 1
               PROVE  find_task_by_pid(pid) = {t \in Linked : id[t].pid = pid}
    BY DEF FindsTheTask
  <2> DEFINE h     == pid_hashfn[pid]
             chain == pidhash[h]
             hits  == {i \in 1 .. Len(chain) : id[chain[i]].pid = pid}
  <2>1. h \in PidHash
    BY PidAssumption
  <2>2. chain \in Seq(Task) /\ IsInjective(chain)
    BY <2>1 DEF IInv, TypeOK, Chained
  <2>3. /\ DOMAIN chain = 1 .. Len(chain)
        /\ \A i \in 1 .. Len(chain) : chain[i] \in Task
        /\ \A u : u \in ToSet(chain) <=> \E i \in 1 .. Len(chain) : chain[i] = u
    BY <2>2, Positions
  <2>4. \A u \in Task : u \in ToSet(chain) <=> u \in Linked /\ pid_hashfn[id[u].pid] = h
    BY <2>1 DEF IInv, Chained
  <2>5. Linked \subseteq Task
    BY Positions DEF IInv, TypeOK, Linked
  <2>6. \A u, v \in Linked : id[u].pid = id[v].pid => u = v
    BY DEF IInv, Distinct
  <2>7. find_task_by_pid(pid) = {chain[i] : i \in {j \in hits : \A k \in hits : j <= k}}
    BY DEF find_task_by_pid
  <2>8. h = pid_hashfn[pid]
    OBVIOUS
  <2> HIDE DEF h, chain
  <2>9. ASSUME NEW u \in find_task_by_pid(pid)
        PROVE  u \in Linked /\ id[u].pid = pid
    <3>1. PICK i \in 1 .. Len(chain) : u = chain[i] /\ id[chain[i]].pid = pid
      BY <2>7
    <3> QED BY <2>3, <2>4, <3>1
  <2>10. ASSUME NEW u \in Linked, id[u].pid = pid
         PROVE  u \in find_task_by_pid(pid)
    <3>1. u \in ToSet(chain)
      BY <2>4, <2>5, <2>8, <2>10
    <3>2. PICK i \in 1 .. Len(chain) : chain[i] = u
      BY <2>3, <3>1
    <3>3. i \in hits
      BY <2>10, <3>2
    <3>4. ASSUME NEW k \in hits PROVE i <= k
      <4>1. k \in 1 .. Len(chain) /\ id[chain[k]].pid = pid
        OBVIOUS
      <4>2. chain[k] \in Linked
        BY <2>3, <2>4, <4>1
      <4>3. chain[k] = chain[i]
        BY <2>6, <2>10, <3>2, <4>1, <4>2
      <4>4. k = i
        BY <2>2, <2>3, <4>1, <4>3 DEF IsInjective
      <4> QED BY <4>4
    <3> HIDE DEF hits
    <3> QED BY <2>7, <3>2, <3>3, <3>4
  <2> QED BY <2>9, <2>10
<1> QED BY <1>1, Reachable, PTL

-----------------------------------------------------------------------------
(* The answer of get_pid().                                                *)

\* Who starts to copy has a pid that is no id of a linked task, above the pids of
\* those who copied before.
LEMMA FreshPid ==
    ASSUME TypeOK, Inherits, ~regrouped,
           NEW t \in Linked \ Forking, NEW c \in Task, c \notin Linked \cup Copying,
           NEW begin, NEW pid \in 1 .. PID_MAX - 1, start_copying(t, c, begin, pid),
           \A u \in Linked : pid \notin IdsOf(u),
           \A u \in Copying : id[u].pid < pid
    PROVE  \A d \in Copying' \ Copying, u \in Linked \cup Copying : id'[d].pid \notin IdsOf(u)
<1>1. \A d \in Copying' \ Copying : d = c
  BY DEF start_copying, Copying
<1>2. id'[c].pid = pid
  BY Started
<1>3. ASSUME NEW u \in Copying PROVE pid \notin IdsOf(u)
  <2>1. copying[u] \in Linked /\ u \in Task
    BY DEF TypeOK, Forking
  <2>2. {id[u].pgrp, id[u].tgid, id[u].session} \subseteq IdsOf(copying[u])
    BY DEF Inherits
  <2>3. id[u].pid # pid
    <3>1. id[u].pid \in 0 .. PID_MAX - 1
      BY <2>1 DEF TypeOK, Ids
    <3> QED BY <3>1
  <2> QED BY <2>1, <2>2, <2>3 DEF IdsOf
<1> QED BY <1>1, <1>2, <1>3

\* Without a search, because of next_safe.
LEMMA AtOnceIsFresh ==
    ASSUME IInv, NEW t \in Task, NEW c \in Task, get_pid(t, c), ~must_search(last_pid + 1),
           Sane', ~regrouped
    PROVE  \A d \in Copying' \ Copying, u \in Linked \cup Copying : id'[d].pid \notin IdsOf(u)
<1>0. /\ at = 0 /\ t \in Linked \ Forking /\ c \notin Linked \cup Copying
      /\ last_pid + 1 < next_safe /\ last_pid + 1 \in 1 .. PID_MAX - 1 /\ last_pid \in Nat
      /\ start_copying(t, c, last_pid, last_pid + 1)
  BY Arithmetic DEF get_pid, may_fork, must_search, IInv, TypeOK
<1>1. lapped \in BOOLEAN /\ last_pid + 1 \in Nat
  BY <1>0 DEF IInv, TypeOK
<1>2. /\ exhausted' = exhausted
      /\ lapped => lapped'
  BY <1>0, <1>1, NotLapped
<1>3. Sane
  BY <1>2 DEF Sane
<1>4. \A u \in Linked : \A n \in IdsOf(u) : Beyond(n)
  BY <1>0, <1>3 DEF IInv, IdsBeyond
<1>5. \A u \in Linked : last_pid + 1 \notin IdsOf(u)
  BY <1>0, <1>4 DEF Beyond
<1>6. ASSUME NEW u \in Copying PROVE id[u].pid < last_pid + 1
  <2>1. id[u].pid <= last_pid
    BY <1>0, <1>3 DEF IInv, Distinct, Latest
  <2>2. id[u].pid \in Nat
    BY Arithmetic DEF IInv, TypeOK, Ids
  <2> QED BY <1>0, <2>1, <2>2
<1> QED BY <1>0, <1>5, <1>6, FreshPid DEF IInv

\* With a search, because it has passed every task.
LEMMA FoundIsFresh ==
    ASSUME IInv, found, Sane', ~regrouped
    PROVE  \A d \in Copying' \ Copying, u \in Linked \cup Copying : id'[d].pid \notin IdsOf(u)
<1> DEFINE t == call.parent
           c == call.child
<1>0. /\ at = Len(tasks) + 1 /\ at # 0
      /\ start_copying(t, c, call.beginpid, last_pid)
  BY Positions DEF found, IInv, TypeOK
<1>1. t \in Linked \ Forking /\ c \in Task /\ c \notin Linked \cup Copying
  BY <1>0 DEF IInv, Called, TypeOK
<1>2. /\ exhausted' = exhausted
      /\ lapped => lapped'
      /\ ~lapped' => Copying = {} \/ call.beginpid < last_pid
  <2>1. /\ last_pid \in Nat /\ call.beginpid \in Nat
        /\ lapped \in BOOLEAN
    BY Arithmetic DEF IInv, TypeOK
  <2> HIDE DEF t, c
  <2> QED BY <1>0, <2>1, NotLapped
<1>3. Sane
  BY <1>2 DEF Sane
<1>4. last_pid \in 1 .. PID_MAX - 1 /\ last_pid \in Nat /\ call.beginpid \in Nat
  BY Arithmetic DEF IInv, TypeOK
<1>5. \A u \in Linked : last_pid \notin IdsOf(u)
  BY <1>0, AllPassed DEF IInv
<1>6. ASSUME NEW u \in Copying PROVE id[u].pid < last_pid
  <2>1. id[u].pid <= call.beginpid
    BY <1>0, <1>3 DEF IInv, Distinct, Latest
  <2>2. id[u].pid \in Nat
    BY Arithmetic DEF IInv, TypeOK, Ids
  <2>3. call.beginpid < last_pid
    BY <1>2 DEF Sane
  <2> QED BY <1>4, <2>1, <2>2, <2>3
<1> HIDE DEF t, c
<1> QED BY <1>0, <1>1, <1>4, <1>5, <1>6, FreshPid DEF IInv

\* Nobody else starts to copy, and only the search gives up.
LEMMA OthersAnswerNothing ==
    ASSUME IInv, [Next]_vars, ~found,
           \A t \in Task, c \in Task : get_pid(t, c) => must_search(last_pid + 1)
    PROVE  /\ Copying' \ Copying = {}
           /\ exhausted' => exhausted \/ repeat
<1>1. CASE repeat \/ for_each_task
  BY <1>1 DEF repeat, for_each_task, Copying
<1>2. ASSUME NEW t \in Task, NEW c \in Task, get_pid(t, c)
      PROVE  Copying' = Copying /\ exhausted' = exhausted
  BY <1>2 DEF get_pid, Copying
<1>3. ASSUME NEW t \in Task, fork_fails(t) \/ SET_LINKS(t)
      PROVE  Copying' \subseteq Copying /\ exhausted' = exhausted
  BY <1>3 DEF fork_fails, SET_LINKS, forget, Copying
<1>4. ASSUME NEW t \in Task, unhash_process(t) \/ setsid(t) \/ setpgid(t)
      PROVE  Copying' = Copying /\ exhausted' = exhausted
  BY <1>4 DEF unhash_process, setsid, setpgid, Copying
<1>5. CASE UNCHANGED vars
  BY <1>5 DEF vars, Copying
<1> QED BY <1>1, <1>2, <1>3, <1>4, <1>5 DEF Next

\* The search gives up when it has come round.
LEMMA NoneLeft ==
    ASSUME IInv, repeat, ~exhausted, exhausted'
    PROVE  RESERVED .. PID_MAX - 1 \subseteq InUse \cup {call.beginpid}
<1>1. /\ at # 0 /\ last_pid \in InUse
      /\ last_pid' = call.beginpid
  <2>1. at \in 1 .. Len(tasks)
    BY DEF repeat
  <2>2. at # 0
    BY <2>1
  <2>3. last_pid \in InUse
    BY <2>1, TaskAtHand DEF repeat, IInv
  <2> QED BY <2>2, <2>3 DEF repeat
<1>2. last_pid' = wrap(last_pid + 1)
  BY Arithmetic DEF repeat, IInv, TypeOK
<1>3. wrap(last_pid + 1) = call.beginpid
  BY <1>1, <1>2
<1> SUFFICES ASSUME NEW n \in RESERVED .. PID_MAX - 1
             PROVE  n \in InUse \cup {call.beginpid}
  OBVIOUS
<1> QED BY <1>1, <1>3, NextCandidate DEF IInv

(***************************************************************************)
(* get_pid() hands out only what nobody has as one of its four ids, those  *)
(* it cannot see included, as long as it has not failed, no search wrapped *)
(* during a fork and no forking task changed its group.  The first time it *)
(* fails, and unless a search wrapped during a fork before, every pid is   *)
(* in use with the possible exception of the one the search began with.    *)
(***************************************************************************)
THEOREM AnswerCorrect == Spec => RightAnswer
<1> DEFINE Answer ==
        /\ Sane' /\ ~regrouped =>
             \A c \in Copying' \ Copying, t \in Linked \cup Copying : id'[c].pid \notin IdsOf(t)
        /\ Sane /\ exhausted' =>
             RESERVED .. PID_MAX - 1 \subseteq InUse \cup {call.beginpid}
<1>1. ASSUME IInv, [Next]_vars PROVE Answer
  <2>1. CASE found
    <3>1. exhausted' = exhausted
      BY <2>1 DEF found, start_copying
    <3> QED BY <1>1, <2>1, <3>1, FoundIsFresh DEF Sane
  <2>2. ASSUME NEW t \in Task, NEW c \in Task, get_pid(t, c), ~must_search(last_pid + 1)
        PROVE  Answer
    <3>1. exhausted' = exhausted
      BY <2>2 DEF get_pid, start_copying
    <3> QED BY <1>1, <2>2, <3>1, AtOnceIsFresh DEF Sane
  <2>3. CASE ~found /\ \A t \in Task, c \in Task : get_pid(t, c) => must_search(last_pid + 1)
    <3>1. Copying' \ Copying = {} /\ (exhausted' => exhausted \/ repeat)
      BY <1>1, <2>3, OthersAnswerNothing
    <3> QED BY <1>1, <3>1, NoneLeft DEF Sane
  <2> QED BY <2>1, <2>2, <2>3
<1>2. IInv /\ [Next]_vars => [Answer]_vars
  BY <1>1
<1> HIDE DEF Answer
<1>3. [][Next]_vars /\ []IInv => [][Answer]_vars
  BY <1>2, PTL
<1>4. Spec => [][Answer]_vars
  BY <1>3, Reachable, PTL DEF Spec
<1> QED BY <1>4 DEF RightAnswer, Answer
=============================================================================
