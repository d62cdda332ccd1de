------------------------- MODULE CollectionLemmas -------------------------
(***************************************************************************)
(* Facts about sequences and sets that the library states in other forms:  *)
(* element-wise descriptions of InsertAt and RemoveAt, which the list      *)
(* primitives of the models are made of, two facts about finite sets and   *)
(* sets of numbers, and what joining and leaving do to a queue of entries. *)
(***************************************************************************)
EXTENDS Integers, SequencesExt, SequenceTheorems, FiniteSetTheorems, WellFoundedInduction,
        TLAPS

\* InsertAt shifts the entries from position i on by one.
LEMMA InsertAtProperties ==
    ASSUME NEW S, NEW q \in Seq(S), NEW p \in S, NEW i \in 1 .. Len(q) + 1
    PROVE  /\ InsertAt(q, i, p) \in Seq(S)
           /\ Len(InsertAt(q, i, p)) = Len(q) + 1
           /\ \A j \in 1 .. Len(q) + 1 :
                InsertAt(q, i, p)[j] = IF j < i THEN q[j] ELSE IF j = i THEN p ELSE q[j - 1]
<1> DEFINE front == SubSeq(q, 1, i - 1)
           mid   == front \o <<p>>
           back  == SubSeq(q, i, Len(q))
<1>0. Len(q) \in Nat /\ \A j \in 1 .. Len(q) : q[j] \in S
  BY LenProperties
<1>1. /\ front \in Seq(S) /\ Len(front) = i - 1
      /\ \A j \in 1 .. i - 1 : front[j] = q[j]
  <2>1. \A j \in 1 .. i - 1 : q[j] \in S
    BY <1>0
  <2>2. /\ front \in Seq(S)
        /\ Len(front) = IF 1 <= i - 1 THEN (i - 1) - 1 + 1 ELSE 0
        /\ \A j \in 1 .. (i - 1) - 1 + 1 : front[j] = q[1 + j - 1]
    BY <2>1, <1>0, SubSeqProperties
  <2> QED BY <2>2, <1>0
<1>2. /\ back \in Seq(S) /\ Len(back) = Len(q) - i + 1
      /\ \A j \in 1 .. Len(q) - i + 1 : back[j] = q[i + j - 1]
  <2>1. \A j \in i .. Len(q) : q[j] \in S
    BY <1>0
  <2>2. /\ back \in Seq(S)
        /\ Len(back) = IF i <= Len(q) THEN Len(q) - i + 1 ELSE 0
        /\ \A j \in 1 .. Len(q) - i + 1 : back[j] = q[i + j - 1]
    BY <2>1, <1>0, SubSeqProperties
  <2> QED BY <2>2, <1>0
<1>3. <<p>> \in Seq(S) /\ Len(<<p>>) = 1 /\ <<p>>[1] = p
  OBVIOUS
<1>4. /\ mid \in Seq(S) /\ Len(mid) = i
      /\ \A j \in 1 .. i : mid[j] = IF j <= i - 1 THEN front[j] ELSE <<p>>[j - (i - 1)]
  <2> HIDE DEF front
  <2> QED BY <1>0, <1>1, <1>3, ConcatProperties DEF mid
<1>5. /\ mid \o back \in Seq(S) /\ Len(mid \o back) = Len(q) + 1
      /\ \A j \in 1 .. Len(q) + 1 :
            (mid \o back)[j] = IF j <= i THEN mid[j] ELSE back[j - i]
  <2> HIDE DEF mid, back
  <2>1. /\ mid \o back \in Seq(S) /\ Len(mid \o back) = Len(mid) + Len(back)
        /\ \A j \in 1 .. Len(mid) + Len(back) :
              (mid \o back)[j] = IF j <= Len(mid) THEN mid[j] ELSE back[j - Len(mid)]
    BY <1>2, <1>4, ConcatProperties
  <2>2. Len(mid) = i /\ Len(mid) + Len(back) = Len(q) + 1
    BY <1>0, <1>2, <1>4
  <2> QED BY <2>1, <2>2
<1>6. InsertAt(q, i, p) = mid \o back
  BY DEF InsertAt
<1>7. ASSUME NEW j \in 1 .. Len(q) + 1
      PROVE  (mid \o back)[j] = IF j < i THEN q[j] ELSE IF j = i THEN p ELSE q[j - 1]
  <2> HIDE DEF mid, back, front
  <2>1. CASE j < i
    BY <2>1, <1>0, <1>1, <1>4, <1>5
  <2>2. CASE j = i
    <3>1. (mid \o back)[i] = mid[i] /\ i \in 1 .. i /\ ~(i <= i - 1) /\ i - (i - 1) = 1
      BY <1>0, <1>5
    <3>2. mid[i] = p
      BY <3>1, <1>3, <1>4
    <3> QED BY <2>2, <3>1, <3>2, <1>0
  <2>3. CASE j > i
    BY <2>3, <1>0, <1>2, <1>5
  <2>4. j < i \/ j = i \/ j > i
    BY <1>0
  <2> QED BY <2>1, <2>2, <2>3, <2>4, Zenon
<1> QED BY <1>5, <1>6, <1>7

\* RemoveAt shifts the entries behind position i back by one.
LEMMA RemoveAtProperties ==
    ASSUME NEW S, NEW q \in Seq(S), NEW i \in 1 .. Len(q)
    PROVE  /\ RemoveAt(q, i) \in Seq(S)
           /\ Len(RemoveAt(q, i)) = Len(q) - 1
           /\ \A j \in 1 .. Len(q) - 1 :
                RemoveAt(q, i)[j] = IF j < i THEN q[j] ELSE q[j + 1]
<1> DEFINE front == SubSeq(q, 1, i - 1)
           back  == SubSeq(q, i + 1, Len(q))
<1>0. Len(q) \in Nat /\ \A j \in 1 .. Len(q) : q[j] \in S
  BY LenProperties
<1>1. /\ front \in Seq(S) /\ Len(front) = i - 1
      /\ \A j \in 1 .. i - 1 : front[j] = q[j]
  <2>1. \A j \in 1 .. i - 1 : q[j] \in S
    BY <1>0
  <2>2. /\ front \in Seq(S)
        /\ Len(front) = IF 1 <= i - 1 THEN (i - 1) - 1 + 1 ELSE 0
        /\ \A j \in 1 .. (i - 1) - 1 + 1 : front[j] = q[1 + j - 1]
    BY <2>1, <1>0, SubSeqProperties
  <2> QED BY <2>2, <1>0
<1>2. /\ back \in Seq(S) /\ Len(back) = Len(q) - i
      /\ \A j \in 1 .. Len(q) - i : back[j] = q[i + j]
  <2>1. \A j \in i + 1 .. Len(q) : q[j] \in S
    BY <1>0
  <2>2. /\ back \in Seq(S)
        /\ Len(back) = IF i + 1 <= Len(q) THEN Len(q) - (i + 1) + 1 ELSE 0
        /\ \A j \in 1 .. Len(q) - (i + 1) + 1 : back[j] = q[(i + 1) + j - 1]
    BY <2>1, <1>0, SubSeqProperties
  <2> QED BY <2>2, <1>0
<1>3. /\ front \o back \in Seq(S) /\ Len(front \o back) = Len(q) - 1
      /\ \A j \in 1 .. Len(q) - 1 :
            (front \o back)[j] = IF j <= i - 1 THEN front[j] ELSE back[j - (i - 1)]
  <2> HIDE DEF front, back
  <2>1. /\ front \o back \in Seq(S) /\ Len(front \o back) = Len(front) + Len(back)
        /\ \A j \in 1 .. Len(front) + Len(back) :
              (front \o back)[j] = IF j <= Len(front) THEN front[j] ELSE back[j - Len(front)]
    BY <1>1, <1>2, ConcatProperties
  <2>2. Len(front) = i - 1 /\ Len(front) + Len(back) = Len(q) - 1
    BY <1>0, <1>1, <1>2
  <2> QED BY <2>1, <2>2
<1>4. RemoveAt(q, i) = front \o back
  BY DEF RemoveAt
<1>5. ASSUME NEW j \in 1 .. Len(q) - 1
      PROVE  (front \o back)[j] = IF j < i THEN q[j] ELSE q[j + 1]
  <2> HIDE DEF front, back
  <2>1. CASE j < i
    BY <2>1, <1>0, <1>1, <1>3
  <2>2. CASE j >= i
    BY <2>2, <1>0, <1>2, <1>3
  <2>3. j < i \/ j >= i
    BY <1>0
  <2> QED BY <2>1, <2>2, <2>3, Zenon
<1> QED BY <1>3, <1>4, <1>5

-----------------------------------------------------------------------------
(* Sets.                                                                   *)

\* The size of a set that gains or loses one element at most.
LEMMA OneMore ==
    ASSUME NEW S, NEW T, NEW c, IsFiniteSet(S),
           \A t : t # c => (t \in S <=> t \in T)
    PROVE  Cardinality(T) = IF c \in T /\ c \notin S THEN Cardinality(S) + 1
                            ELSE IF c \in S /\ c \notin T THEN Cardinality(S) - 1
                            ELSE Cardinality(S)
<1>1. CASE c \in T /\ c \notin S
  <2>1. T = S \cup {c}
    BY <1>1
  <2> QED BY <1>1, <2>1, FS_AddElement
<1>2. CASE c \in S /\ c \notin T
  <2>1. T = S \ {c}
    BY <1>2
  <2> QED BY <1>2, <2>1, FS_RemoveElement
<1>3. CASE (c \in S) <=> (c \in T)
  <2>1. T = S
    BY <1>3
  <2> QED BY <1>3, <2>1
<1> QED BY <1>1, <1>2, <1>3

\* A set of numbers has a least element.
LEMMA Least ==
    ASSUME NEW S \in SUBSET Nat, S # {}
    PROVE  \E x \in S : \A y \in S : x <= y
<1> DEFINE Less == {pair \in Nat \X Nat : pair[1] < pair[2]}
<1>1. IsWellFoundedOn(Less, Nat)
  BY NatLessThanWellFounded DEF OpToRel
<1>2. \A x, y \in Nat : <<y, x>> \in Less <=> y < x
  OBVIOUS
<1> HIDE DEF Less
<1>3. PICK x \in S : \A y \in S : ~ (<<y, x>> \in Less)
  BY <1>1, WFMin
<1>4. \A y \in S : ~ (y < x)
  BY <1>2, <1>3, Zenon
<1> QED BY <1>4

-----------------------------------------------------------------------------
(* Queues whose entries are records with the fields task and exclusive.    *)

\* The task p has an entry on q; no task has two.
OnQueue(q, p) == \E i \in 1 .. Len(q) : q[i].task = p
Unique(q) == \A i, j \in 1 .. Len(q) : q[i].task = q[j].task => i = j

\* The flags that the entries of q have.
Flags(q, F) == \A i \in 1 .. Len(q) : q[i].exclusive \in F

\* A queue without two entries of a task has no entry twice.
LEMMA UniqueInjective ==
    ASSUME NEW S, NEW q \in Seq(S), Unique(q)
    PROVE  IsInjective(q)
<1>1. DOMAIN q = 1 .. Len(q)
  BY LenProperties
<1> QED BY <1>1 DEF Unique, IsInjective

\* list_add(): the entry becomes the first.
LEMMA HeadJoined ==
    ASSUME NEW S, NEW q \in Seq(S), NEW e \in S,
           Unique(q), ~OnQueue(q, e.task), NEW F, Flags(q, F), e.exclusive \in F
    PROVE  /\ <<e>> \o q \in Seq(S) /\ Len(<<e>> \o q) = Len(q) + 1
           /\ Unique(<<e>> \o q) /\ Flags(<<e>> \o q, F)
           /\ \A p : OnQueue(<<e>> \o q, p) <=> OnQueue(q, p) \/ p = e.task
<1> DEFINE s == <<e>> \o q
<1>0. Len(q) \in Nat
  BY LenProperties
<1>1. <<e>> \in Seq(S) /\ Len(<<e>>) = 1 /\ <<e>>[1] = e
  OBVIOUS
<1>2. /\ s \in Seq(S) /\ Len(s) = Len(q) + 1
      /\ \A j \in 1 .. Len(q) + 1 : s[j] = IF j = 1 THEN e ELSE q[j - 1]
  <2>1. /\ s \in Seq(S) /\ Len(s) = Len(<<e>>) + Len(q)
        /\ \A j \in 1 .. Len(<<e>>) + Len(q) :
              s[j] = IF j <= Len(<<e>>) THEN <<e>>[j] ELSE q[j - Len(<<e>>)]
    BY <1>1, ConcatProperties
  <2>2. Len(<<e>>) + Len(q) = Len(q) + 1
    BY <1>0, <1>1
  <2> HIDE DEF s
  <2>3. ASSUME NEW j \in 1 .. Len(q) + 1
        PROVE  s[j] = IF j = 1 THEN e ELSE q[j - 1]
    BY <1>0, <1>1, <2>1, <2>2
  <2> QED BY <2>1, <2>2, <2>3
<1> HIDE DEF s
<1>3. Unique(s)
  <2> SUFFICES ASSUME NEW a \in 1 .. Len(q) + 1, NEW b \in 1 .. Len(q) + 1, s[a].task = s[b].task
               PROVE  a = b
    BY <1>2 DEF Unique
  <2>1. \A j \in 1 .. Len(q) : q[j].task # e.task
    BY DEF OnQueue
  <2>2. ASSUME NEW x \in 2 .. Len(q) + 1
        PROVE  s[x].task # s[1].task
    <3>1. x - 1 \in 1 .. Len(q) /\ s[x] = q[x - 1] /\ s[1] = e
      BY <1>0, <1>2
    <3> QED BY <2>1, <3>1
  <2>3. CASE a # 1 /\ b # 1
    <3>1. /\ a - 1 \in 1 .. Len(q) /\ b - 1 \in 1 .. Len(q)
          /\ q[a - 1].task = q[b - 1].task
      BY <2>3, <1>0, <1>2
    <3>2. a - 1 = b - 1
      BY <3>1 DEF Unique
    <3> QED BY <3>2, <1>0
  <2>4. a = 1 \/ a \in 2 .. Len(q) + 1
    BY <1>0
  <2>5. b = 1 \/ b \in 2 .. Len(q) + 1
    BY <1>0
  <2>6. CASE a = 1 \/ b = 1
    BY <2>2, <2>4, <2>5, <2>6
  <2> QED BY <2>3, <2>6
<1>4. Flags(s, F)
  BY <1>0, <1>2 DEF Flags
<1>5. ASSUME NEW p
      PROVE  OnQueue(s, p) <=> OnQueue(q, p) \/ p = e.task
  <2>1. OnQueue(s, p) => OnQueue(q, p) \/ p = e.task
    BY <1>0, <1>2 DEF OnQueue
  <2>2. ASSUME OnQueue(q, p)
        PROVE  OnQueue(s, p)
    <3>1. PICK i \in 1 .. Len(q) : q[i].task = p
      BY <2>2 DEF OnQueue
    <3>2. i + 1 \in 1 .. Len(s) /\ s[i + 1] = q[i]
      BY <1>0, <1>2
    <3> QED BY <3>1, <3>2 DEF OnQueue
  <2>3. ASSUME p = e.task
        PROVE  OnQueue(s, p)
    <3>1. 1 \in 1 .. Len(s) /\ s[1] = e
      BY <1>0, <1>2
    <3> QED BY <2>3, <3>1 DEF OnQueue
  <2> QED BY <2>1, <2>2, <2>3
<1> QED BY <1>2, <1>3, <1>4, <1>5 DEF s

\* list_add_tail(): the entry becomes the last.
LEMMA TailJoined ==
    ASSUME NEW S, NEW q \in Seq(S), NEW e \in S,
           Unique(q), ~OnQueue(q, e.task), NEW F, Flags(q, F), e.exclusive \in F
    PROVE  /\ Append(q, e) \in Seq(S) /\ Len(Append(q, e)) = Len(q) + 1
           /\ Unique(Append(q, e)) /\ Flags(Append(q, e), F)
           /\ \A p : OnQueue(Append(q, e), p) <=> OnQueue(q, p) \/ p = e.task
<1> DEFINE s == Append(q, e)
<1>0. Len(q) \in Nat
  BY LenProperties
<1>2. /\ s \in Seq(S) /\ Len(s) = Len(q) + 1
      /\ \A j \in 1 .. Len(q) : s[j] = q[j]
      /\ s[Len(q) + 1] = e
  BY AppendProperties
<1> HIDE DEF s
<1>3. Unique(s)
  BY <1>0, <1>2 DEF Unique, OnQueue
<1>4. Flags(s, F)
  BY <1>0, <1>2 DEF Flags
<1>5. ASSUME NEW p
      PROVE  OnQueue(s, p) <=> OnQueue(q, p) \/ p = e.task
  BY <1>0, <1>2 DEF OnQueue
<1> QED BY <1>2, <1>3, <1>4, <1>5 DEF s

\* list_del() of the entry of p: it goes, and no other.
LEMMA EntryRemoved ==
    ASSUME NEW S, NEW q \in Seq(S), NEW F,
           Unique(q), Flags(q, F), NEW p, OnQueue(q, p)
    PROVE  LET s == RemoveAt(q, CHOOSE i \in 1 .. Len(q) : q[i].task = p)
           IN  /\ s \in Seq(S) /\ Len(s) = Len(q) - 1
               /\ Unique(s) /\ Flags(s, F)
               /\ \A r : OnQueue(s, r) <=> OnQueue(q, r) /\ r # p
<1> DEFINE i == CHOOSE i \in 1 .. Len(q) : q[i].task = p
           s == RemoveAt(q, i)
           back(j) == IF j < i THEN j ELSE j + 1
<1>0. Len(q) \in Nat
  BY LenProperties
<1>1. i \in 1 .. Len(q) /\ q[i].task = p
  BY DEF OnQueue
<1> HIDE DEF i
<1>2. /\ s \in Seq(S) /\ Len(s) = Len(q) - 1
      /\ \A j \in 1 .. Len(q) - 1 : s[j] = IF j < i THEN q[j] ELSE q[j + 1]
  BY <1>1, RemoveAtProperties
<1> HIDE DEF s
<1>3. \A j \in 1 .. Len(s) : back(j) \in 1 .. Len(q) /\ back(j) # i /\ s[j] = q[back(j)]
  BY <1>0, <1>1, <1>2
<1>4. Unique(s)
  <2> SUFFICES ASSUME NEW a \in 1 .. Len(s), NEW b \in 1 .. Len(s), s[a].task = s[b].task
               PROVE  a = b
    BY DEF Unique
  <2>1. back(a) = back(b)
    BY <1>3 DEF Unique
  <2> QED BY <2>1, <1>0, <1>1, <1>2
<1>5. Flags(s, F)
  BY <1>3 DEF Flags
<1>6. ASSUME NEW r
      PROVE  OnQueue(s, r) <=> OnQueue(q, r) /\ r # p
  <2>1. ASSUME OnQueue(s, r)
        PROVE  OnQueue(q, r) /\ r # p
    <3>1. PICK j \in 1 .. Len(s) : s[j].task = r
      BY <2>1 DEF OnQueue
    <3>2. back(j) \in 1 .. Len(q) /\ back(j) # i /\ q[back(j)].task = r
      BY <1>3, <3>1
    <3> HIDE DEF back
    <3> QED BY <3>2, <1>1 DEF OnQueue, Unique
  <2>2. ASSUME OnQueue(q, r), r # p
        PROVE  OnQueue(s, r)
    <3>1. PICK j \in 1 .. Len(q) : q[j].task = r
      BY <2>2 DEF OnQueue
    <3>2. CASE j < i
      <4>1. j \in 1 .. Len(s) /\ s[j] = q[j]
        BY <3>2, <1>0, <1>1, <1>2
      <4> QED BY <3>1, <4>1 DEF OnQueue
    <3>3. CASE j > i
      <4>1. j - 1 \in 1 .. Len(s) /\ s[j - 1] = q[j]
        BY <3>3, <1>0, <1>1, <1>2
      <4> QED BY <3>1, <4>1 DEF OnQueue
    <3> QED BY <2>2, <3>1, <3>2, <3>3, <1>0, <1>1
  <2> QED BY <2>1, <2>2
<1> HIDE DEF back
<1>7. /\ s \in Seq(S) /\ Len(s) = Len(q) - 1 /\ Unique(s) /\ Flags(s, F)
      /\ \A r : OnQueue(s, r) <=> OnQueue(q, r) /\ r # p
  BY <1>2, <1>4, <1>5, <1>6
<1> QED BY <1>7, Zenon DEF s, i

\* A queue has as many entries as tasks on it.
LEMMA LengthBound ==
    ASSUME NEW S, NEW q \in Seq(S), Unique(q), NEW T, IsFiniteSet(T),
           \A i \in 1 .. Len(q) : q[i].task \in T
    PROVE  Len(q) <= Cardinality(T)
<1>0. Len(q) \in Nat
  BY LenProperties
<1> DEFINE f == [i \in 1 .. Len(q) |-> q[i].task]
<1>1. f \in Injection(1 .. Len(q), T)
  BY DEF Injection, IsInjective, Unique
<1>2. Cardinality(1 .. Len(q)) <= Cardinality(T)
  BY <1>1, FS_Injection
<1>3. \A n \in Nat : Cardinality(1 .. n) = n
  BY FS_Interval
<1> QED BY <1>0, <1>2, <1>3
=============================================================================
