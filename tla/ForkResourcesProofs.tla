------------------------ MODULE ForkResourcesProofs ------------------------
(***************************************************************************)
(* The invariants of ForkResources and its refinement of AtomicFork, for   *)
(* every number of tasks and objects, any limits and any CLONE flags.      *)
(***************************************************************************)
EXTENDS ForkResources, CollectionLemmas

-----------------------------------------------------------------------------
(* The inductive invariant.                                                *)

\* The task t has a reference to the object o.
Holds(t, k, o) == (k \in Copied(at[t]) /\ res[t][k] = o) \/ (k = "mm" /\ newmm[t] = o)

Half == {"mm_init", "dup_mmap"}

\* Whoever forks is alive until its do_fork() is over.
ParentLives(c) == at[c] \in Copying \cup Undoing => Alive(parent[c])

\* copy_mm() works on an mm of its own while its parent keeps one.
NewMm(c) ==
    /\ newmm[c] # NULL <=> at[c] \in Half
    /\ at[c] \in Half => /\ res[c]["mm"] = NULL /\ res[parent[c]]["mm"] # NULL
                         /\ "mm" \notin share[c]
                         /\ \A t \in Task \ {c} : ~Holds(t, "mm", newmm[c])

\* A child has its parent's resources: those to be shared, and those that
\* do_fork() has not come to.
Inherits(c) ==
    at[c] \in Copying =>
        \A k \in Kind : /\ k \in share[c] \/ k \notin Copied(at[c])
                        /\ k = "mm" => at[c] \notin Half
                        => res[c][k] = res[parent[c]][k]

\* What a child does not share nobody else has.
Unshared(c) ==
    at[c] \in Copying =>
        \A k \in Copied(at[c]) \ share[c] :
            \/ k = "mm" /\ res[c][k] = NULL /\ res[parent[c]][k] = NULL
            \/ res[c][k] # NULL /\ \A t \in Task \ {c} : ~Holds(t, k, res[c][k])

\* Only an address space may be missing.
Complete(c) == \A k \in Copied(at[c]) \ {"mm"} : res[c][k] # NULL

Accepted(c) == at[c] \in Copying => accepted(share[c])

Sound(c) == ParentLives(c) /\ NewMm(c) /\ Inherits(c) /\ Unshared(c) /\ Complete(c) /\ Accepted(c)

IInv == TypeOK /\ (\A c \in Task : Sound(c)) /\ ReferencesExact /\ FsInOneNamespace

-----------------------------------------------------------------------------
(* Labels, lists and counts.                                               *)

\* What is copied at each label.
LEMMA CopiedAt ==
    /\ Copied("files") = {} /\ Copied("fs") = {"files"} /\ Copied("sig") = {"files", "fs"}
    /\ Copied("mm") = {"files", "fs", "sig"}
    /\ Copied("mm_init") = {"files", "fs", "sig"} /\ Copied("dup_mmap") = {"files", "fs", "sig"}
    /\ Copied("namespace") = {"files", "fs", "sig", "mm"} /\ Copied("thread") = Kind
    /\ Copied("exit_namespace") = Kind /\ Copied("exit_mm") = {"files", "fs", "sig", "mm"}
    /\ Copied("exit_sig") = {"files", "fs", "sig"} /\ Copied("exit_fs") = {"files", "fs"}
    /\ Copied("exit_files") = {"files"} /\ Copied("cleanup") = {} /\ Copied("cleanup_count") = {}
    /\ Copied("free") = {} /\ Copied("unused") = {} /\ Copied("zombie") = {}
    /\ Copied("alive") = Kind
BY DEF Copied

Links == [next : [Obj \cup {InitMm} -> Ptr \cup {InitMm}],
          prev : [Obj \cup {InitMm} -> Ptr \cup {InitMm}], nr : Int]

\* The operations on the list of mms keep its type.
LEMMA LinksType ==
    ASSUME NEW list \in Links, NEW mm \in Obj, NEW head \in Obj \cup {InitMm}
    PROVE  /\ list_add(list, mm, head) \in Links
           /\ list_del(list, mm) \in Links
           /\ free_mm(list, mm) \in Links
           /\ copy_links(list, mm, head) \in Links
<1> DEFINE A == Obj \cup {InitMm}
           F == [A -> Ptr \cup {InitMm}]
<1>1. /\ list = [next |-> list.next, prev |-> list.prev, nr |-> list.nr]
      /\ list.next \in F /\ list.prev \in F /\ list.nr \in Int
  BY DEF Links
<1>2. Links = [next : F, prev : F, nr : Int]
  BY DEF Links
<1>3. ASSUME NEW f \in F, NEW g \in F, NEW n \in Int
      PROVE  [next |-> f, prev |-> g, nr |-> n] \in Links
  BY <1>2
<1>4. ASSUME NEW f \in F, NEW x, NEW y \in Ptr \cup {InitMm}
      PROVE  [f EXCEPT ![x] = y] \in F
  OBVIOUS
<1>5. mm \in Ptr /\ NULL \in Ptr /\ head \in Ptr \cup {InitMm}
  BY DEF Ptr
<1> HIDE DEF F
<1>6. list_add(list, mm, head) \in Links
  <2> DEFINE n == list.next[head]
             g1 == [list.prev EXCEPT ![n] = mm]
             g2 == [g1 EXCEPT ![mm] = head]
             f1 == [list.next EXCEPT ![mm] = n]
             f2 == [f1 EXCEPT ![head] = mm]
  <2>1. n \in Ptr \cup {InitMm}
    BY <1>1 DEF F
  <2>2. g2 \in F /\ f2 \in F
    BY <1>1, <1>4, <1>5, <2>1
  <2>3. list_add(list, mm, head) = [next |-> f2, prev |-> g2, nr |-> list.nr + 1]
    BY <1>1 DEF list_add
  <2> QED BY <1>1, <1>3, <2>2, <2>3
<1>7. list_del(list, mm) \in Links
  <2> DEFINE q == list.prev[mm]
             n == list.next[mm]
             g1 == [list.prev EXCEPT ![n] = q]
             f1 == [list.next EXCEPT ![q] = n]
  <2>1. n \in Ptr \cup {InitMm} /\ q \in Ptr \cup {InitMm}
    BY <1>1 DEF F
  <2>2. g1 \in F /\ f1 \in F
    BY <1>1, <1>4, <2>1
  <2>3. list_del(list, mm) = [next |-> f1, prev |-> g1, nr |-> list.nr - 1]
    BY <1>1 DEF list_del
  <2> QED BY <1>1, <1>3, <2>2, <2>3
<1>8. free_mm(list, mm) \in Links
  <2> DEFINE g1 == [list.prev EXCEPT ![mm] = NULL]
             f1 == [list.next EXCEPT ![mm] = NULL]
  <2>2. g1 \in F /\ f1 \in F
    BY <1>1, <1>4, <1>5
  <2>3. free_mm(list, mm) = [next |-> f1, prev |-> g1, nr |-> list.nr]
    BY <1>1 DEF free_mm, set_links
  <2> QED BY <1>1, <1>3, <2>2, <2>3
<1>9. copy_links(list, mm, head) \in Links
  <2> DEFINE g1 == [list.prev EXCEPT ![mm] = list.prev[head]]
             f1 == [list.next EXCEPT ![mm] = list.next[head]]
  <2>1. list.prev[head] \in Ptr \cup {InitMm} /\ list.next[head] \in Ptr \cup {InitMm}
    BY <1>1 DEF F
  <2>2. g1 \in F /\ f1 \in F
    BY <1>1, <1>4, <2>1
  <2>3. copy_links(list, mm, head) = [next |-> f1, prev |-> g1, nr |-> list.nr]
    BY <1>1 DEF copy_links, set_links
  <2> QED BY <1>1, <1>3, <2>2, <2>3
<1> QED BY <1>6, <1>7, <1>8, <1>9

\* mmput() keeps the type of the list.
LEMMA MmputType ==
    ASSUME NEW list \in Links, NEW mm \in Ptr
    PROVE  mmput(list, mm) \in Links
<1>1. CASE mm = NULL
  BY <1>1 DEF mmput
<1>2. CASE mm # NULL
  <2>1. mm \in Obj
    BY <1>2 DEF Ptr
  <2>2. list_del(list, mm) \in Links
    BY <2>1, LinksType
  <2>3. free_mm(list_del(list, mm), mm) \in Links
    BY <2>1, <2>2, LinksType
  <2> QED BY <2>3 DEF mmput
<1> QED BY <1>1, <1>2

\* get() and put() change the count of one object by one.
LEMMA GetPut ==
    ASSUME NEW n \in [Obj -> Int], NEW p \in Ptr
    PROVE  /\ get(n, p) \in [Obj -> Int] /\ put(n, p) \in [Obj -> Int]
           /\ \A o \in Obj : /\ get(n, p)[o] = IF o = p THEN n[o] + 1 ELSE n[o]
                             /\ put(n, p)[o] = IF o = p THEN n[o] - 1 ELSE n[o]
BY ResourcesAssumption DEF get, put, Ptr

\* The allocator hands out an object that nobody has.
LEMMA Allocated ==
    ASSUME IInv, NEW k \in Kind, NEW o \in kmem_cache_alloc(k)
    PROVE  o \in Obj /\ o # NULL /\ count[k][o] = 0 /\ \A t \in Task : ~Holds(t, k, o)
<1>1. o \in Free(k)
  BY DEF kmem_cache_alloc
<1>2. o \in Obj /\ o # NULL /\ count[k][o] = 0
  BY <1>1, ResourcesAssumption DEF Free
<1>3. Cardinality(Holders(k, o)) = 0
  BY <1>2 DEF IInv, ReferencesExact, ObjectsExact
<1>4. IsFiniteSet(Holders(k, o))
  BY ResourcesAssumption, FS_Subset DEF Holders
<1>5. Holders(k, o) = {}
  BY <1>3, <1>4, FS_EmptySet
<1> QED BY <1>2, <1>5 DEF Holders, Holds

-----------------------------------------------------------------------------
(* What a step changes is about one task.                                  *)

\* The other tasks are left alone.
Others(c) ==
    \A t \in Task \ {c} :
        /\ at'[t] = at[t] /\ res'[t] = res[t] /\ newmm'[t] = newmm[t]
        /\ parent'[t] = parent[t] /\ share'[t] = share[t]

\* A reference is to an object that some live task has, or to a new one.
Origin(c) ==
    \A k \in Kind, o \in Obj :
        Holds(c, k, o)' /\ ~Holds(c, k, o) =>
            \/ \E u \in Task : Alive(u) /\ Holds(u, k, o)
            \/ \A u \in Task : ~Holds(u, k, o)

\* The number of holders of an object after a step of c.
LEMMA Recount ==
    ASSUME IInv, NEW c \in Task, Others(c), NEW k \in Kind, NEW o \in Obj
    PROVE  Cardinality(Holders(k, o)') =
               IF Holds(c, k, o)' /\ ~Holds(c, k, o) THEN count[k][o] + 1
               ELSE IF Holds(c, k, o) /\ ~Holds(c, k, o)' THEN count[k][o] - 1
               ELSE count[k][o]
<1> DEFINE S == Holders(k, o)
           T == Holders(k, o)'
<1>1. IsFiniteSet(S) /\ Cardinality(S) = count[k][o]
  BY ResourcesAssumption, FS_Subset DEF Holders, IInv, ReferencesExact, ObjectsExact
<1>2. \A t : /\ t \in S <=> t \in Task /\ Holds(t, k, o)
             /\ t \in T <=> t \in Task /\ Holds(t, k, o)'
  BY DEF Holders, Holds
<1>3. \A t : t # c => (t \in S <=> t \in T)
  BY <1>2 DEF Others, Holds
<1> HIDE DEF S, T
<1>4. Cardinality(T) = IF c \in T /\ c \notin S THEN Cardinality(S) + 1
                       ELSE IF c \in S /\ c \notin T THEN Cardinality(S) - 1
                       ELSE Cardinality(S)
  BY <1>1, <1>3, OneMore
<1> QED BY <1>1, <1>2, <1>4 DEF T

\* The tasks that are charged for, use modules and are linked after a step of c.
LEMMA Recharge ==
    ASSUME IInv, NEW c \in Task, \A t \in Task \ {c} : at'[t] = at[t]
    PROVE  /\ Cardinality(Charged') =
                 IF c \in Charged' /\ c \notin Charged THEN processes + 1
                 ELSE IF c \in Charged /\ c \notin Charged' THEN processes - 1 ELSE processes
           /\ Cardinality(Using') =
                 IF c \in Using' /\ c \notin Using THEN uses + 1
                 ELSE IF c \in Using /\ c \notin Using' THEN uses - 1 ELSE uses
           /\ Cardinality(Linked') =
                 IF c \in Linked' /\ c \notin Linked THEN nr_threads + 1
                 ELSE IF c \in Linked /\ c \notin Linked' THEN nr_threads - 1 ELSE nr_threads
<1>1. IsFiniteSet(Charged) /\ IsFiniteSet(Using) /\ IsFiniteSet(Linked)
  BY ResourcesAssumption, FS_Subset DEF Charged, Using, Linked
<1>2. /\ Cardinality(Charged) = processes /\ Cardinality(Using) = uses
      /\ Cardinality(Linked) = nr_threads
  BY DEF IInv, ReferencesExact, ChargesExact
<1>3. \A t : t # c => /\ t \in Charged <=> t \in Charged'
                      /\ t \in Using <=> t \in Using'
                      /\ t \in Linked <=> t \in Linked'
  BY DEF Charged, Using, Linked
<1>4. Cardinality(Charged') = IF c \in Charged' /\ c \notin Charged THEN Cardinality(Charged) + 1
                 ELSE IF c \in Charged /\ c \notin Charged' THEN Cardinality(Charged) - 1
                 ELSE Cardinality(Charged)
  BY <1>1, <1>3, OneMore
<1>5. Cardinality(Using') = IF c \in Using' /\ c \notin Using THEN Cardinality(Using) + 1
                 ELSE IF c \in Using /\ c \notin Using' THEN Cardinality(Using) - 1
                 ELSE Cardinality(Using)
  BY <1>1, <1>3, OneMore
<1>6. Cardinality(Linked') = IF c \in Linked' /\ c \notin Linked THEN Cardinality(Linked) + 1
                 ELSE IF c \in Linked /\ c \notin Linked' THEN Cardinality(Linked) - 1
                 ELSE Cardinality(Linked)
  BY <1>1, <1>3, OneMore
<1> QED BY <1>2, <1>4, <1>5, <1>6

\* A step of c leaves the other tasks sound.
LEMMA OthersSound ==
    ASSUME IInv, NEW c \in Task, Others(c), Alive(c) => ~Forking(c), Origin(c),
           NEW d \in Task, d # c
    PROVE  Sound(d)'
<1>1. Sound(d) /\ at[d] \in Copying \cup Undoing \cup {"unused", "alive", "zombie"}
  BY DEF IInv, TypeOK
<1>2. /\ at'[d] = at[d] /\ res'[d] = res[d] /\ newmm'[d] = newmm[d]
      /\ parent'[d] = parent[d] /\ share'[d] = share[d]
  BY DEF Others
<1>3. at[d] \in Copying \cup Undoing =>
        /\ parent[d] \in Task \ {c} /\ Alive(parent[d])
        /\ at'[parent[d]] = at[parent[d]] /\ res'[parent[d]] = res[parent[d]]
  BY <1>1 DEF IInv, TypeOK, Sound, ParentLives, Forking, Others
<1>4. \A q \in Copying \cup Half : q \in Copying \cup Undoing
  BY DEF Copying, Half
<1>5. ParentLives(d)' /\ Inherits(d)' /\ Complete(d)' /\ Accepted(d)'
  BY <1>1, <1>2, <1>3, <1>4 DEF Sound, ParentLives, Inherits, Complete, Accepted, Alive
<1>6. Unshared(d)'
  <2> SUFFICES ASSUME at[d] \in Copying, NEW k \in Copied(at[d]) \ share[d]
               PROVE  \/ k = "mm" /\ res[d][k] = NULL /\ res[parent[d]][k] = NULL
                      \/ res[d][k] # NULL /\ \A t \in Task \ {d} : ~Holds(t, k, res[d][k])'
    BY <1>2, <1>3, <1>4 DEF Unshared, Holds
  <2>1. CASE k = "mm" /\ res[d][k] = NULL /\ res[parent[d]][k] = NULL
    BY <2>1
  <2>2. CASE res[d][k] # NULL /\ \A t \in Task \ {d} : ~Holds(t, k, res[d][k])
    <3>0. PICK o : o = res[d][k]
      OBVIOUS
    <3>1. k \in Kind
      BY CopiedAt, <1>1 DEF Copying, Undoing, Kind
    <3>2. o \in Obj /\ Holds(d, k, o) /\ ~Alive(d)
      BY <2>2, <3>0, <3>1 DEF IInv, TypeOK, Ptr, Holds, Alive, Copying
    <3>3. ~Holds(c, k, o)'
      <4>1. \A t \in Task \ {d} : ~Holds(t, k, o)
        BY <2>2, <3>0
      <4> QED BY <4>1, <3>1, <3>2 DEF Origin
    <3>4. \A t \in Task \ {c, d} : ~Holds(t, k, o)'
      BY <2>2, <3>0 DEF Others, Holds
    <3>5. \A t \in Task \ {d} : ~Holds(t, k, o)'
      BY <3>3, <3>4
    <3> QED BY <1>2, <2>2, <3>0, <3>5 DEF Holds
  <2> QED BY <1>1, <2>1, <2>2 DEF Sound, Unshared
<1>7. NewMm(d)'
  <2> SUFFICES ASSUME at[d] \in Half
               PROVE  \A t \in Task \ {d} : ~Holds(t, "mm", newmm[d])'
    BY <1>1, <1>2, <1>3, <1>4 DEF Sound, NewMm, Holds
  <2>1. PICK o : o = newmm[d]
    OBVIOUS
  <2>2. o \in Obj /\ Holds(d, "mm", o) /\ ~Alive(d) /\ "mm" \in Kind
    BY <2>1, <1>1 DEF IInv, TypeOK, Ptr, Holds, Alive, Half, Sound, NewMm, Kind
  <2>3. \A t \in Task \ {d} : ~Holds(t, "mm", o)
    BY <2>1, <1>1 DEF Sound, NewMm
  <2>4. ~Holds(c, "mm", o)'
    BY <2>2, <2>3 DEF Origin
  <2>5. \A t \in Task \ {d} : ~Holds(t, "mm", o)'
    BY <2>3, <2>4 DEF Others, Holds
  <2> QED BY <1>2, <2>1, <2>5 DEF Holds
<1> QED BY <1>5, <1>6, <1>7 DEF Sound

\* TypeOK but for the sign of counters.
Typed ==
    /\ at \in [Task -> Copying \cup Undoing \cup {"unused", "alive", "zombie"}]
    /\ parent \in [Task -> Task]
    /\ share \in [Task -> SUBSET Kind]
    /\ res \in [Task -> [Kind -> Ptr]]
    /\ newmm \in [Task -> Ptr]
    /\ count \in [Kind -> [Obj -> Int]]
    /\ mmlist \in Links
    /\ exempt \subseteq Task /\ peak \in Nat /\ half \in BOOLEAN

\* A step of c counts what c gets and gives back.
Counts(c) ==
    \A k \in Kind, o \in Obj :
        count'[k][o] = IF Holds(c, k, o)' /\ ~Holds(c, k, o) THEN count[k][o] + 1
                       ELSE IF Holds(c, k, o) /\ ~Holds(c, k, o)' THEN count[k][o] - 1
                       ELSE count[k][o]

Charges(c) ==
    /\ processes' = IF c \in Charged' /\ c \notin Charged THEN processes + 1
                    ELSE IF c \in Charged /\ c \notin Charged' THEN processes - 1 ELSE processes
    /\ uses' = IF c \in Using' /\ c \notin Using THEN uses + 1
               ELSE IF c \in Using /\ c \notin Using' THEN uses - 1 ELSE uses
    /\ nr_threads' = IF c \in Linked' /\ c \notin Linked THEN nr_threads + 1
                     ELSE IF c \in Linked /\ c \notin Linked' THEN nr_threads - 1 ELSE nr_threads

\* c shares an fs_struct after its step only with tasks in its namespace.
FsOf(c) ==
    Alive(c)' => \A u \in Task \ {c} : Alive(u) /\ res'[c]["fs"] = res[u]["fs"]
                                         => res'[c]["namespace"] = res[u]["namespace"]

\* A step that changes one task and counts what it changes keeps the invariant.
LEMMA Step ==
    ASSUME IInv, NEW c \in Task, Others(c), Alive(c) => ~Forking(c), Origin(c), Typed',
           Sound(c)', Counts(c), Charges(c), FsOf(c)
    PROVE  IInv'
<1>1. \A d \in Task : Sound(d)'
  <2>1. ASSUME NEW d \in Task, d # c
        PROVE  Sound(d)'
    BY <2>1, OthersSound
  <2> QED BY <2>1
<1>2. ObjectsExact'
  <2> SUFFICES ASSUME NEW k \in Kind, NEW o \in Obj
               PROVE  count'[k][o] = Cardinality(Holders(k, o)')
    BY DEF ObjectsExact
  <2> QED BY Recount DEF Counts
<1>3. ChargesExact'
  <2>1. \A t \in Task \ {c} : at'[t] = at[t]
    BY DEF Others
  <2> QED BY <2>1, Recharge DEF ChargesExact, Charges
<1>4. TypeOK'
  <2>1. ASSUME NEW k \in Kind, NEW o \in Obj
        PROVE  count'[k][o] \in Nat
    <3>1. IsFiniteSet(Holders(k, o)')
      BY ResourcesAssumption, FS_Subset DEF Holders
    <3> QED BY <3>1, <1>2, FS_CardinalityType DEF ObjectsExact
  <2>2. count' \in [Kind -> [Obj -> Nat]]
    <3>1. ASSUME NEW k \in Kind
          PROVE  count'[k] \in [Obj -> Nat]
      BY <2>1 DEF Typed
    <3> QED BY <3>1 DEF Typed
  <2>3. processes' \in Nat /\ uses' \in Nat /\ nr_threads' \in Nat
    <3>1. IsFiniteSet(Charged') /\ IsFiniteSet(Using') /\ IsFiniteSet(Linked')
      BY ResourcesAssumption, FS_Subset DEF Charged, Using, Linked
    <3> QED BY <3>1, <1>3, FS_CardinalityType DEF ChargesExact
  <2> QED BY <2>2, <2>3 DEF Typed, TypeOK, Links
<1>5. FsInOneNamespace'
  <2> SUFFICES ASSUME NEW t \in Task, NEW u \in Task, Alive(t)', Alive(u)',
                      res'[t]["fs"] = res'[u]["fs"]
               PROVE  res'[t]["namespace"] = res'[u]["namespace"]
    BY DEF FsInOneNamespace
  <2>1. CASE t = c \/ u = c
    BY <2>1 DEF FsOf, Others, Alive
  <2>2. CASE t # c /\ u # c
    BY <2>2 DEF Others, Alive, IInv, FsInOneNamespace
  <2> QED BY <2>1, <2>2
<1> QED BY <1>1, <1>2, <1>3, <1>4, <1>5 DEF IInv, ReferencesExact

-----------------------------------------------------------------------------
(* One lemma per action.                                                   *)

\* The checks at the head of do_fork(), and the copy of the task_struct.
LEMMA StepDoFork ==
    ASSUME IInv, NEW t \in Task, NEW c \in Task, NEW S \in Sharing, do_fork(t, c, S)
    PROVE  IInv'
<1>1. PICK capable, label :
        /\ label \in first_label(S, capable)
        /\ at' = [at EXCEPT ![c] = label]
        /\ processes' = IF label = "free" THEN processes ELSE processes + 1
        /\ uses' = IF label \in {"files", "cleanup"} THEN uses + 1 ELSE uses
  BY DEF do_fork
<1>2. label \in {"free", "cleanup_count", "files", "cleanup"}
  BY <1>1 DEF first_label
<1>3. /\ at[t] = "alive" /\ at[c] = "unused" /\ t # c /\ accepted(S)
      /\ parent' = [parent EXCEPT ![c] = t] /\ share' = [share EXCEPT ![c] = S]
      /\ res' = [res EXCEPT ![c] = res[t]]
      /\ UNCHANGED <<newmm, count, mmlist, nr_threads, half>>
  BY DEF do_fork, Alive
<1>4. TypeOK /\ Sound(c) /\ S \in SUBSET Kind /\ NULL \notin Obj
  BY ResourcesAssumption DEF IInv
<1>5. newmm[c] = NULL
  BY <1>3, <1>4 DEF Sound, NewMm, Half
<1>6. \A k \in Kind, o \in Obj : ~Holds(c, k, o) /\ ~Holds(c, k, o)'
  BY <1>1, <1>2, <1>3, <1>4, <1>5, CopiedAt DEF Holds, TypeOK
<1>7. peak' \in Nat /\ exempt' \subseteq Task
  <2>1. IsFiniteSet(InFlight')
    BY ResourcesAssumption, FS_Subset DEF InFlight
  <2>2. Cardinality(InFlight') \in Nat
    BY <2>1, FS_CardinalityType
  <2>3. exempt' \in {exempt, exempt \cup {c}}
    BY DEF do_fork
  <2> QED BY <1>4, <2>2, <2>3 DEF do_fork, larger, TypeOK
<1>8. Typed'
  BY <1>1, <1>2, <1>3, <1>4, <1>7 DEF Typed, TypeOK, Links, Copying, Undoing
<1>9. Others(c) /\ ~Alive(c)
  BY <1>1, <1>3, <1>4 DEF Others, TypeOK, Alive
<1>10. Sound(c)'
  <2>1. /\ at'[c] = label /\ parent'[c] = t /\ share'[c] = S /\ newmm'[c] = NULL
        /\ res'[c] = res[t] /\ res'[t] = res[t] /\ at'[t] = "alive"
    BY <1>1, <1>3, <1>4, <1>5 DEF TypeOK
  <2>2. Copied(label) = {} /\ label \notin Half
    BY <1>2, CopiedAt DEF Half
  <2> QED BY <1>3, <2>1, <2>2
        DEF Sound, ParentLives, NewMm, Inherits, Unshared, Complete, Accepted, Alive
<1>11. Origin(c) /\ Counts(c)
  BY <1>3, <1>6 DEF Origin, Counts
<1>12. Charges(c)
  BY <1>1, <1>2, <1>3, <1>4 DEF Charges, Charged, Using, Linked, TypeOK
<1>13. FsOf(c)
  BY <1>1, <1>2, <1>4 DEF FsOf, Alive, TypeOK
<1> QED BY <1>8, <1>9, <1>10, <1>11, <1>12, <1>13, Step

\* copy_files(), copy_fs(), copy_sighand() and copy_namespace().
LEMMA StepCopy ==
    ASSUME IInv, NEW c \in Task, NEW k \in DOMAIN after, copy(c, k)
    PROVE  IInv'
<1> DEFINE p == parent[c]
           old == res[p][k]
           done == after[k]
           failed == bad_fork[k]
<1>1. /\ at[c] = k /\ k \in {"files", "fs", "sig", "namespace"} /\ k \in Kind
      /\ done \in {"fs", "sig", "mm", "thread"} /\ failed \in Undoing
      /\ Copied(done) = Copied(k) \cup {k} /\ k \notin Copied(k) /\ Copied(failed) = Copied(k)
      /\ done \notin Half /\ failed \notin Half /\ k \notin Half
      /\ k \in Copying /\ done \in Copying /\ failed \notin Copying
  <2>1. k \in {"files", "fs", "sig", "namespace"} /\ at[c] = k
    BY DEF copy, after
  <2>2. /\ after["files"] = "fs" /\ after["fs"] = "sig" /\ after["sig"] = "mm"
        /\ after["namespace"] = "thread" /\ bad_fork["files"] = "cleanup"
        /\ bad_fork["fs"] = "exit_files" /\ bad_fork["sig"] = "exit_fs"
        /\ bad_fork["namespace"] = "exit_mm"
    BY DEF after, bad_fork
  <2> HIDE DEF done, failed
  <2>3. /\ Copied(done) = Copied(k) \cup {k} /\ k \notin Copied(k)
        /\ Copied(failed) = Copied(k)
    BY <2>1, <2>2, CopiedAt DEF Kind, done, failed
  <2>4. /\ done \in {"fs", "sig", "mm", "thread"}
        /\ failed \in {"cleanup", "exit_files", "exit_fs", "exit_mm"}
    BY <2>1, <2>2 DEF done, failed
  <2> QED BY <2>1, <2>3, <2>4 DEF Kind, Undoing, Half, Copying
<1>2. TypeOK /\ Sound(c) /\ NULL \notin Obj
  BY ResourcesAssumption DEF IInv
<1>3. p \in Task /\ at[p] = "alive" /\ p # c /\ old # NULL /\ newmm[c] = NULL
  <2>1. p \in Task /\ at[p] = "alive" /\ newmm[c] = NULL /\ Sound(p)
    BY <1>1, <1>2 DEF Sound, ParentLives, NewMm, Alive, TypeOK, IInv
  <2> QED BY <1>1, <2>1, CopiedAt DEF Sound, Complete, Kind
<1>4. res[c][k] = old
  BY <1>1, <1>2 DEF Sound, Inherits
<1>5. UNCHANGED <<parent, share, newmm, mmlist, processes, uses, nr_threads, exempt, peak, half>>
  BY DEF copy, Goto
<1> HIDE DEF p, old, done, failed
<1>6. ASSUME k \in share[c], count' = [count EXCEPT ![k] = get(@, old)],
             at' = [at EXCEPT ![c] = done], UNCHANGED res
      PROVE  IInv'
  <2>1. /\ at'[c] = done /\ old \in Obj /\ Holds(p, k, old) /\ Alive(p)
        /\ count[k] \in [Obj -> Int] /\ old \in Ptr
    BY <1>1, <1>2, <1>3, <1>6, CopiedAt DEF TypeOK, Ptr, Holds, Alive, Kind, old
  <2>2. /\ count'[k] = get(count[k], old) /\ count'[k] \in [Obj -> Int]
        /\ \A o \in Obj : count'[k][o] = IF o = old THEN count[k][o] + 1 ELSE count[k][o]
        /\ \A j \in Kind \ {k} : count'[j] = count[j]
    <3>1. count'[k] = get(count[k], old) /\ \A j \in Kind \ {k} : count'[j] = count[j]
      BY <1>1, <1>2, <1>6 DEF TypeOK
    <3>2. /\ get(count[k], old) \in [Obj -> Int]
          /\ \A o \in Obj : get(count[k], old)[o] = IF o = old THEN count[k][o] + 1 ELSE count[k][o]
      BY <2>1, GetPut
    <3> QED BY <3>1, <3>2
  <2>3. \A j \in Kind, o \in Obj :
          /\ j # k => (Holds(c, j, o)' <=> Holds(c, j, o))
          /\ ~Holds(c, k, o) /\ (Holds(c, k, o)' <=> o = old)
    BY <1>1, <1>2, <1>3, <1>4, <1>5, <1>6, <2>1 DEF Holds
  <2>4. Others(c) /\ ~Alive(c)
    BY <1>1, <1>2, <1>5, <1>6 DEF Others, TypeOK, Alive, Copying
  <2>5. Origin(c)
    BY <2>1, <2>3, <1>3 DEF Origin
  <2>6. Counts(c)
    BY <1>1, <2>2, <2>3 DEF Counts
  <2>7. Typed'
    <3>1. count' \in [Kind -> [Obj -> Int]]
      BY <1>2, <1>6, <2>2 DEF TypeOK
    <3> QED BY <3>1, <1>1, <1>2, <1>5, <1>6 DEF Typed, TypeOK, Links, Copying
  <2>8. Sound(c)'
    <3>1. /\ at'[c] = done /\ parent'[c] = p /\ share'[c] = share[c] /\ newmm'[c] = newmm[c]
          /\ at'[p] = at[p] /\ res' = res
      BY <1>2, <1>3, <1>5, <1>6, <2>1 DEF TypeOK, p
    <3>2. ParentLives(c)' /\ NewMm(c)' /\ Accepted(c)' /\ Complete(c)' /\ Inherits(c)'
      BY <3>1, <1>1, <1>2, <1>3, <1>4
        DEF Sound, ParentLives, NewMm, Accepted, Complete, Inherits, Alive, p, old
    <3>3. Unshared(c)'
      <4>1. \A j, o : \A t \in Task \ {c} : Holds(t, j, o)' <=> Holds(t, j, o)
        BY <2>4 DEF Holds, Others
      <4>2. at[c] \in Copying /\ Copied(done) \ share[c] = Copied(at[c]) \ share[c]
        BY <1>1, <1>6 DEF Copying
      <4>3. \A j \in Copied(at[c]) \ share[c] :
              \/ j = "mm" /\ res[c][j] = NULL /\ res[p][j] = NULL
              \/ res[c][j] # NULL /\ \A t \in Task \ {c} : ~Holds(t, j, res[c][j])
        BY <1>2, <4>2 DEF Sound, Unshared, p
      <4>4. \A j \in Copied(done) \ share[c] :
              \/ j = "mm" /\ res[c][j] = NULL /\ res[p][j] = NULL
              \/ res[c][j] # NULL /\ \A t \in Task \ {c} : ~Holds(t, j, res[c][j])'
        BY <3>1, <4>1, <4>2, <4>3 DEF Holds
      <4> QED BY <3>1, <4>4 DEF Unshared
    <3> QED BY <3>2, <3>3 DEF Sound
  <2>9. Charges(c)
    BY <1>1, <1>2, <1>5, <2>1 DEF Charges, Charged, Using, Linked, Copying
  <2>10. FsOf(c)
    BY <1>1, <2>1 DEF FsOf, Alive, Copying
  <2> QED BY <2>4, <2>5, <2>6, <2>7, <2>8, <2>9, <2>10, Step
<1>7. ASSUME k \notin share[c], NEW o1 \in kmem_cache_alloc(k), res' = [res EXCEPT ![c][k] = o1],
             count' = [count EXCEPT ![k][o1] = 1], at' = [at EXCEPT ![c] = done]
      PROVE  IInv'
  <2>1. /\ o1 \in Obj /\ o1 # NULL /\ count[k][o1] = 0 /\ \A t \in Task : ~Holds(t, k, o1)
        /\ at'[c] = done /\ res'[c][k] = o1 /\ res'[c] \in [Kind -> Ptr]
        /\ \A j \in Kind \ {k} : res'[c][j] = res[c][j]
    BY <1>1, <1>2, <1>7, Allocated DEF TypeOK, Ptr
  <2>2. /\ count' \in [Kind -> [Obj -> Int]]
        /\ \A o \in Obj : count'[k][o] = IF o = o1 THEN 1 ELSE count[k][o]
        /\ \A j \in Kind \ {k} : count'[j] = count[j]
    BY <1>1, <1>2, <1>7, <2>1 DEF TypeOK
  <2>3. \A j \in Kind, o \in Obj :
          /\ j # k => (Holds(c, j, o)' <=> Holds(c, j, o))
          /\ ~Holds(c, k, o) /\ (Holds(c, k, o)' <=> o = o1)
    BY <1>1, <1>2, <1>3, <1>5, <2>1 DEF Holds
  <2>4. Others(c) /\ ~Alive(c)
    BY <1>1, <1>2, <1>5, <1>7 DEF Others, TypeOK, Alive, Copying
  <2>5. Origin(c)
    BY <2>1, <2>3 DEF Origin
  <2>6. Counts(c)
    BY <1>1, <2>1, <2>2, <2>3 DEF Counts
  <2>7. Typed'
    BY <1>1, <1>2, <1>5, <1>7, <2>1, <2>2 DEF Typed, TypeOK, Links, Copying
  <2>8. Sound(c)'
    <3>1. /\ parent'[c] = p /\ share'[c] = share[c] /\ newmm'[c] = newmm[c]
          /\ at'[p] = at[p] /\ res'[p] = res[p]
      BY <1>2, <1>3, <1>5, <1>7, <2>1 DEF TypeOK, p
    <3>2. ParentLives(c)' /\ NewMm(c)' /\ Accepted(c)'
      BY <3>1, <2>1, <1>1, <1>2, <1>3
        DEF Sound, ParentLives, NewMm, Accepted, Alive, p
    <3>3. Complete(c)' /\ Inherits(c)'
      BY <3>1, <2>1, <1>1, <1>2, <1>7 DEF Sound, Complete, Inherits, p
    <3>4. Unshared(c)'
      <4>1. \A j, o : \A t \in Task \ {c} : Holds(t, j, o)' <=> Holds(t, j, o)
        BY <2>4 DEF Holds, Others
      <4>2. \A j \in Copied(done) \ share[c] :
              \/ j = "mm" /\ res'[c][j] = NULL /\ res'[p][j] = NULL
              \/ res'[c][j] # NULL /\ \A t \in Task \ {c}, o \in {res'[c][j]} : ~Holds(t, j, o)'
        <5> TAKE j \in Copied(done) \ share[c]
        <5>1. CASE j = k
          BY <5>1, <4>1, <2>1
        <5>2. CASE j # k
          <6>1. j \in Copied(k) /\ j \in Kind
            BY <5>2, <1>1, CopiedAt DEF Kind
          <6>2. \/ j = "mm" /\ res[c][j] = NULL /\ res[p][j] = NULL
                \/ res[c][j] # NULL /\ \A t \in Task \ {c} : ~Holds(t, j, res[c][j])
            BY <6>1, <1>1, <1>2 DEF Sound, Unshared, p
          <6>3. res'[c][j] = res[c][j] /\ res'[p][j] = res[p][j]
            BY <6>1, <5>2, <3>1, <2>1
          <6> QED BY <6>2, <6>3, <4>1
        <5> QED BY <5>1, <5>2
      <4> QED BY <4>2, <3>1, <2>1 DEF Unshared, Holds
    <3> QED BY <3>2, <3>3, <3>4 DEF Sound
  <2>9. Charges(c)
    BY <1>1, <1>2, <1>5, <2>1 DEF Charges, Charged, Using, Linked, Copying
  <2>10. FsOf(c)
    BY <1>1, <2>1 DEF FsOf, Alive, Copying
  <2> QED BY <2>4, <2>5, <2>6, <2>7, <2>8, <2>9, <2>10, Step
<1>8. ASSUME res' = res \/ res' = [res EXCEPT ![c][k] = NULL], UNCHANGED count,
             at' = [at EXCEPT ![c] = failed]
      PROVE  IInv'
  <2>1. /\ at'[c] = failed /\ res' \in [Task -> [Kind -> Ptr]]
        /\ \A j \in Kind \ {k} : res'[c][j] = res[c][j]
        /\ \A t \in Task \ {c} : res'[t] = res[t]
    <3>1. NULL \in Ptr
      BY DEF Ptr
    <3>2. CASE res' = res
      BY <3>2, <1>1, <1>2, <1>8 DEF TypeOK
    <3>3. CASE res' = [res EXCEPT ![c][k] = NULL]
      BY <3>1, <3>3, <1>1, <1>2, <1>8 DEF TypeOK
    <3> QED BY <3>2, <3>3, <1>8
  <2>2. \A j \in Kind, o \in Obj : Holds(c, j, o)' <=> Holds(c, j, o)
    BY <1>1, <1>2, <1>3, <1>5, <2>1 DEF Holds
  <2>3. Others(c) /\ ~Alive(c)
    BY <1>1, <1>2, <1>5, <1>8, <2>1 DEF Others, TypeOK, Alive, Copying
  <2>4. Origin(c) /\ Counts(c)
    BY <1>8, <2>2 DEF Origin, Counts
  <2>5. Typed'
    <3>1. count' \in [Kind -> [Obj -> Int]]
      BY <1>2, <1>8 DEF TypeOK
    <3> QED BY <3>1, <1>1, <1>2, <1>5, <1>8, <2>1 DEF Typed, TypeOK, Links
  <2>6. Sound(c)'
    <3>1. /\ parent'[c] = p /\ newmm'[c] = newmm[c] /\ at'[p] = at[p]
          /\ \A j \in Copied(k) : res'[c][j] = res[c][j]
      <4>1. \A j \in Copied(k) : j \in Kind /\ j # k
        BY <1>1, CopiedAt DEF Kind
      <4> QED BY <4>1, <2>1, <1>2, <1>3, <1>5, <1>8 DEF TypeOK, p
    <3> QED BY <3>1, <2>1, <1>1, <1>2, <1>3
          DEF Sound, ParentLives, NewMm, Inherits, Unshared, Complete, Accepted, Alive, p
  <2>7. Charges(c)
    BY <1>1, <1>2, <1>5, <2>1 DEF Charges, Charged, Using, Linked, Copying, Undoing, bad_fork, failed
  <2>8. FsOf(c)
    BY <1>1, <2>1 DEF FsOf, Alive, Undoing
  <2> QED BY <2>3, <2>4, <2>5, <2>6, <2>7, <2>8, Step
<1> QED BY <1>1, <1>3, <1>6, <1>7, <1>8 DEF copy, Goto, p, old, done, failed

\* copy_mm() up to mm_init().
LEMMA StepCopyMm ==
    ASSUME IInv, NEW c \in Task, copy_mm(c)
    PROVE  IInv'
<1> DEFINE p == parent[c]
           old == res[p]["mm"]
<1>1. /\ at[c] = "mm" /\ "mm" \in Kind
      /\ Copied("namespace") = Copied("mm") \cup {"mm"} /\ "mm" \notin Copied("mm")
      /\ Copied("mm_init") = Copied("mm") /\ Copied("exit_sig") = Copied("mm")
      /\ "mm" \notin Half /\ "namespace" \notin Half /\ "mm_init" \in Half /\ "exit_sig" \notin Half
      /\ {"mm", "namespace", "mm_init"} \subseteq Copying /\ "exit_sig" \in Undoing
      /\ "exit_sig" \notin Copying
  BY CopiedAt DEF copy_mm, Kind, Copying, Undoing, Half
<1>2. TypeOK /\ Sound(c) /\ NULL \notin Obj
  BY ResourcesAssumption DEF IInv
<1>3. p \in Task /\ at[p] = "alive" /\ p # c /\ newmm[c] = NULL /\ old \in Ptr
  BY <1>1, <1>2 DEF Sound, ParentLives, NewMm, Alive, TypeOK
<1>4. res[c]["mm"] = old
  BY <1>1, <1>2 DEF Sound, Inherits
<1>5. UNCHANGED <<parent, share, processes, uses, nr_threads, exempt, peak, half>> /\ ~Alive(c)
  BY <1>1 DEF copy_mm, Goto, Alive
<1> HIDE DEF p, old
<1>6. ASSUME "mm" \in share[c] \/ old = NULL, count' = [count EXCEPT !["mm"] = get(@, old)],
             at' = [at EXCEPT ![c] = "namespace"], UNCHANGED <<res, newmm, mmlist>>
      PROVE  IInv'
  <2>1. /\ at'[c] = "namespace" /\ (old # NULL => old \in Obj)
        /\ Holds(p, "mm", old) /\ Alive(p) /\ count["mm"] \in [Obj -> Int]
    BY <1>1, <1>2, <1>3, <1>6, CopiedAt DEF TypeOK, Ptr, Holds, Alive, old
  <2>2. /\ count'["mm"] \in [Obj -> Int]
        /\ \A o \in Obj : count'["mm"][o] = IF o = old THEN count["mm"][o] + 1 ELSE count["mm"][o]
        /\ \A j \in Kind \ {"mm"} : count'[j] = count[j]
    <3>1. count'["mm"] = get(count["mm"], old) /\ \A j \in Kind \ {"mm"} : count'[j] = count[j]
      BY <1>1, <1>2, <1>6 DEF TypeOK
    <3>2. /\ get(count["mm"], old) \in [Obj -> Int]
          /\ \A o \in Obj : get(count["mm"], old)[o]
                              = IF o = old THEN count["mm"][o] + 1 ELSE count["mm"][o]
      BY <2>1, <1>3, GetPut
    <3> QED BY <3>1, <3>2
  <2>3. \A j \in Kind, o \in Obj :
          /\ j # "mm" => (Holds(c, j, o)' <=> Holds(c, j, o))
          /\ ~Holds(c, "mm", o) /\ (Holds(c, "mm", o)' <=> o = old)
    BY <1>1, <1>2, <1>3, <1>4, <1>5, <1>6, <2>1 DEF Holds
  <2>4. Others(c)
    BY <1>1, <1>2, <1>5, <1>6 DEF Others, TypeOK
  <2>5. Origin(c)
    BY <2>1, <2>3, <1>3 DEF Origin
  <2>6. Counts(c)
    BY <1>1, <2>2, <2>3 DEF Counts
  <2>7. Typed'
    <3>1. count' \in [Kind -> [Obj -> Int]]
      <4>1. \A j \in Kind : count[j] \in [Obj -> Int]
        BY <1>2 DEF TypeOK
      <4>2. \A j \in Kind : count'[j] \in [Obj -> Int]
        BY <2>2, <4>1
      <4> QED BY <4>2, <1>2, <1>6 DEF TypeOK
    <3> QED BY <3>1, <1>1, <1>2, <1>5, <1>6 DEF Typed, TypeOK, Links, Copying
  <2>8. Sound(c)'
    <3>1. /\ at'[c] = "namespace" /\ parent'[c] = p /\ share'[c] = share[c]
          /\ newmm'[c] = NULL /\ at'[p] = at[p] /\ res' = res
      BY <1>2, <1>3, <1>5, <1>6, <2>1 DEF TypeOK, p
    <3>2. ParentLives(c)' /\ NewMm(c)' /\ Accepted(c)' /\ Complete(c)' /\ Inherits(c)'
      BY <3>1, <1>1, <1>2, <1>3, <1>4
        DEF Sound, ParentLives, NewMm, Accepted, Complete, Inherits, Alive, p, old
    <3>3. Unshared(c)'
      <4>1. \A j, o : \A t \in Task \ {c} : Holds(t, j, o)' <=> Holds(t, j, o)
        BY <2>4 DEF Holds, Others
      <4>2. "mm" \in share[c] \/ (res[c]["mm"] = NULL /\ res[p]["mm"] = NULL)
        BY <1>4, <1>6 DEF old
      <4> QED BY <3>1, <4>1, <4>2, <1>1, <1>2 DEF Sound, Unshared, Holds, p
    <3> QED BY <3>2, <3>3 DEF Sound
  <2>9. Charges(c)
    BY <1>1, <1>2, <1>5, <2>1 DEF Charges, Charged, Using, Linked
  <2>10. FsOf(c)
    BY <2>1 DEF FsOf, Alive
  <2> QED BY <1>5, <2>4, <2>5, <2>6, <2>7, <2>8, <2>9, <2>10, Step
<1>7. ASSUME "mm" \notin share[c], old # NULL, NEW o1 \in kmem_cache_alloc("mm"),
             newmm' = [newmm EXCEPT ![c] = o1], count' = [count EXCEPT !["mm"][o1] = 1],
             mmlist' = copy_links(mmlist, o1, old), res' = [res EXCEPT ![c]["mm"] = NULL],
             at' = [at EXCEPT ![c] = "mm_init"]
      PROVE  IInv'
  <2>1. /\ o1 \in Obj /\ o1 # NULL /\ count["mm"][o1] = 0 /\ \A t \in Task : ~Holds(t, "mm", o1)
        /\ at'[c] = "mm_init" /\ newmm'[c] = o1 /\ old \in Obj
    BY <1>1, <1>2, <1>3, <1>7, Allocated DEF TypeOK, Ptr
  <2>2. /\ res' \in [Task -> [Kind -> Ptr]] /\ res'[c]["mm"] = NULL
        /\ \A j \in Kind \ {"mm"} : res'[c][j] = res[c][j]
        /\ \A t \in Task \ {c} : res'[t] = res[t]
    <3>1. NULL \in Ptr
      BY DEF Ptr
    <3> QED BY <3>1, <1>1, <1>2, <1>7 DEF TypeOK
  <2>3. /\ count' \in [Kind -> [Obj -> Int]]
        /\ \A o \in Obj : count'["mm"][o] = IF o = o1 THEN 1 ELSE count["mm"][o]
        /\ \A j \in Kind \ {"mm"} : count'[j] = count[j]
    BY <1>1, <1>2, <1>7, <2>1 DEF TypeOK
  <2>4. \A j \in Kind, o \in Obj :
          /\ j # "mm" => (Holds(c, j, o)' <=> Holds(c, j, o))
          /\ ~Holds(c, "mm", o) /\ (Holds(c, "mm", o)' <=> o = o1)
    BY <1>1, <1>2, <1>3, <2>1, <2>2 DEF Holds
  <2>5. Others(c)
    BY <1>2, <1>5, <1>7, <2>2 DEF Others, TypeOK
  <2>6. Origin(c)
    BY <2>1, <2>4 DEF Origin
  <2>7. Counts(c)
    BY <1>1, <2>1, <2>3, <2>4 DEF Counts
  <2>8. Typed'
    <3>1. mmlist \in Links
      BY <1>2 DEF TypeOK, Links
    <3>2. mmlist' \in Links
      BY <3>1, <2>1, <1>7, LinksType
    <3>3. newmm' \in [Task -> Ptr]
      BY <1>2, <1>7, <2>1 DEF TypeOK, Ptr
    <3> QED BY <3>2, <3>3, <1>1, <1>2, <1>5, <1>7, <2>2, <2>3 DEF Typed, TypeOK
  <2>9. Sound(c)'
    <3>1. /\ parent'[c] = p /\ share'[c] = share[c] /\ at'[p] = at[p] /\ res'[p] = res[p]
      BY <1>2, <1>3, <1>5, <1>7, <2>2 DEF TypeOK, p
    <3>2. \A j, o : \A t \in Task \ {c} : Holds(t, j, o)' <=> Holds(t, j, o)
      BY <2>5 DEF Holds, Others
    <3>3. ParentLives(c)' /\ Accepted(c)'
      BY <3>1, <2>1, <1>1, <1>2, <1>3 DEF Sound, ParentLives, Accepted, Alive, p
    <3>4. Complete(c)' /\ Inherits(c)'
      BY <3>1, <2>1, <2>2, <1>1, <1>2, <1>7, CopiedAt DEF Sound, Complete, Inherits, p, Kind
    <3>5. NewMm(c)'
      <4>1. \A t \in Task \ {c} : ~Holds(t, "mm", o1)'
        BY <3>2, <2>1
      <4> QED BY <4>1, <3>1, <2>1, <2>2, <1>1, <1>7 DEF NewMm, Holds, old
    <3>6. Unshared(c)'
      <4>1. \A j \in Copied("mm") : j \in Kind /\ j # "mm" /\ res'[c][j] = res[c][j]
        BY <1>1, <2>2, CopiedAt DEF Kind
      <4>2. \A j \in Copied("mm") \ share[c] :
                res[c][j] # NULL /\ \A t \in Task \ {c} : ~Holds(t, j, res[c][j])
        BY <1>1, <1>2, <4>1 DEF Sound, Unshared
      <4>3. \A j \in Copied("mm") \ share[c] :
                res'[c][j] # NULL /\ \A t \in Task \ {c}, o \in {res'[c][j]} : ~Holds(t, j, o)'
        BY <4>1, <4>2, <3>2
      <4> QED BY <4>3, <3>1, <2>1, <1>1 DEF Unshared, Holds
    <3> QED BY <3>3, <3>4, <3>5, <3>6 DEF Sound
  <2>10. Charges(c) /\ FsOf(c)
    BY <1>1, <1>2, <1>5, <2>1 DEF Charges, Charged, Using, Linked, FsOf, Alive
  <2> QED BY <1>5, <2>5, <2>6, <2>7, <2>8, <2>9, <2>10, Step
<1>8. ASSUME res' = [res EXCEPT ![c]["mm"] = NULL], at' = [at EXCEPT ![c] = "exit_sig"],
             UNCHANGED <<newmm, count, mmlist>>
      PROVE  IInv'
  <2>1. /\ res' \in [Task -> [Kind -> Ptr]] /\ at'[c] = "exit_sig"
        /\ \A j \in Kind \ {"mm"} : res'[c][j] = res[c][j]
        /\ \A t \in Task \ {c} : res'[t] = res[t]
    <3>1. NULL \in Ptr
      BY DEF Ptr
    <3> QED BY <3>1, <1>1, <1>2, <1>8 DEF TypeOK
  <2>2. \A j \in Kind, o \in Obj : Holds(c, j, o)' <=> Holds(c, j, o)
    BY <1>1, <1>2, <1>3, <1>8, <2>1 DEF Holds
  <2>3. Others(c)
    BY <1>2, <1>5, <1>8, <2>1 DEF Others, TypeOK
  <2>4. Origin(c) /\ Counts(c)
    BY <1>8, <2>2 DEF Origin, Counts
  <2>5. Typed'
    <3>1. count' \in [Kind -> [Obj -> Int]]
      BY <1>2, <1>8 DEF TypeOK
    <3> QED BY <3>1, <1>1, <1>2, <1>5, <1>8, <2>1 DEF Typed, TypeOK, Links
  <2>6. Sound(c)'
    <3>1. /\ parent'[c] = p /\ newmm'[c] = NULL /\ at'[p] = at[p]
          /\ \A j \in Copied("mm") : j # "mm" /\ res'[c][j] = res[c][j]
      <4>1. \A j \in Copied("mm") : j \in Kind /\ j # "mm"
        BY <1>1, CopiedAt DEF Kind
      <4> QED BY <4>1, <2>1, <1>2, <1>3, <1>5, <1>8 DEF TypeOK, p
    <3> QED BY <3>1, <2>1, <1>1, <1>2, <1>3
          DEF Sound, ParentLives, NewMm, Inherits, Unshared, Complete, Accepted, Alive, p
  <2>7. Charges(c) /\ FsOf(c)
    BY <1>1, <1>2, <1>5, <2>1 DEF Charges, Charged, Using, Linked, FsOf, Alive
  <2> QED BY <1>5, <2>3, <2>4, <2>5, <2>6, <2>7, Step
<1>9. bad_fork["mm"] = "exit_sig"
  BY DEF bad_fork
<1> QED BY <1>1, <1>3, <1>6, <1>7, <1>8, <1>9 DEF copy_mm, Goto, p, old

\* copy_mm() gives up its new mm: a common part of two steps.
LEMMA StepDrop ==
    ASSUME IInv, NEW c \in Task, at[c] \in Half, drop_newmm(c), mmlist' \in Links, half' \in BOOLEAN
    PROVE  IInv'
<1> DEFINE p == parent[c]
           mm == newmm[c]
<1>1. /\ at[c] \in Copying /\ at[c] \in {"mm_init", "dup_mmap"} /\ "mm" \in Kind
      /\ Copied(at[c]) = {"files", "fs", "sig"} /\ Copied("exit_sig") = {"files", "fs", "sig"}
      /\ "exit_sig" \notin Half /\ "exit_sig" \in Undoing /\ "exit_sig" \notin Copying
  BY CopiedAt DEF Half, Kind, Copying, Undoing
<1>2. TypeOK /\ Sound(c) /\ NULL \notin Obj
  BY ResourcesAssumption DEF IInv
<1>3. p \in Task /\ at[p] = "alive" /\ p # c /\ mm # NULL /\ mm \in Obj /\ ~Alive(c)
  BY <1>1, <1>2 DEF Sound, ParentLives, NewMm, Alive, TypeOK, Ptr
<1>4. /\ UNCHANGED <<parent, share, processes, uses, nr_threads, exempt, peak, res>>
      /\ at' = [at EXCEPT ![c] = "exit_sig"] /\ newmm' = [newmm EXCEPT ![c] = NULL]
      /\ count' = [count EXCEPT !["mm"] = put(@, mm)]
  BY DEF drop_newmm, Goto, bad_fork
<1> HIDE DEF p, mm
<1>5. at'[c] = "exit_sig" /\ newmm'[c] = NULL /\ count["mm"] \in [Obj -> Int] /\ mm \in Ptr
  BY <1>2, <1>3, <1>4, <1>1 DEF TypeOK, Ptr
<1>6. /\ count'["mm"] \in [Obj -> Int]
      /\ \A o \in Obj : count'["mm"][o] = IF o = mm THEN count["mm"][o] - 1 ELSE count["mm"][o]
      /\ \A j \in Kind \ {"mm"} : count'[j] = count[j]
  <2>1. count'["mm"] = put(count["mm"], mm) /\ \A j \in Kind \ {"mm"} : count'[j] = count[j]
    BY <1>1, <1>2, <1>4 DEF TypeOK
  <2>2. /\ put(count["mm"], mm) \in [Obj -> Int]
        /\ \A o \in Obj : put(count["mm"], mm)[o]
                            = IF o = mm THEN count["mm"][o] - 1 ELSE count["mm"][o]
    BY <1>5, GetPut
  <2> QED BY <2>1, <2>2
<1>7. \A j \in Kind, o \in Obj :
        /\ j # "mm" => (Holds(c, j, o)' <=> Holds(c, j, o))
        /\ ~Holds(c, "mm", o)' /\ (Holds(c, "mm", o) <=> o = mm)
  BY <1>1, <1>2, <1>3, <1>4, <1>5 DEF Holds, mm
<1>8. Others(c) /\ Origin(c)
  BY <1>2, <1>4, <1>7 DEF Others, TypeOK, Origin
<1>9. Counts(c)
  BY <1>1, <1>6, <1>7 DEF Counts
<1>10. Typed'
  <2>1. count' \in [Kind -> [Obj -> Int]]
    <3>1. \A j \in Kind : count[j] \in [Obj -> Int]
      BY <1>2 DEF TypeOK
    <3>2. \A j \in Kind : count'[j] \in [Obj -> Int]
      BY <1>6, <3>1
    <3> QED BY <3>2, <1>2, <1>4 DEF TypeOK
  <2>2. newmm' \in [Task -> Ptr]
    BY <1>2, <1>4 DEF TypeOK, Ptr
  <2> QED BY <2>1, <2>2, <1>1, <1>2, <1>4 DEF Typed, TypeOK
<1>11. Sound(c)'
  <2>1. /\ parent'[c] = p /\ at'[p] = at[p] /\ res' = res
    BY <1>2, <1>3, <1>4 DEF TypeOK, p
  <2> QED BY <2>1, <1>1, <1>2, <1>3, <1>5
        DEF Sound, ParentLives, NewMm, Inherits, Unshared, Complete, Accepted, Alive, p
<1>12. Charges(c) /\ FsOf(c)
  BY <1>1, <1>2, <1>4, <1>5 DEF Charges, Charged, Using, Linked, FsOf, Alive
<1> QED BY <1>3, <1>8, <1>9, <1>10, <1>11, <1>12, Step

\* mm_init() and init_new_context().
LEMMA StepMmInit ==
    ASSUME IInv, NEW c \in Task, mm_init(c)
    PROVE  IInv'
<1> DEFINE p == parent[c]
           mm == newmm[c]
           pmm == res[p]["mm"]
<1>1. /\ at[c] = "mm_init" /\ "mm_init" \in Half /\ "mm_init" \in Copying /\ "mm" \in Kind
      /\ "dup_mmap" \in Half /\ "dup_mmap" \in Copying
      /\ Copied("mm_init") = {"files", "fs", "sig"} /\ Copied("dup_mmap") = {"files", "fs", "sig"}
  BY CopiedAt DEF mm_init, Half, Copying, Kind
<1>2. TypeOK /\ Sound(c) /\ NULL \notin Obj
  BY ResourcesAssumption DEF IInv
<1>3. /\ p \in Task /\ at[p] = "alive" /\ p # c /\ mm \in Obj /\ pmm \in Obj /\ ~Alive(c)
      /\ mm \in Ptr
  BY <1>1, <1>2 DEF Sound, ParentLives, NewMm, Alive, TypeOK, Ptr
<1>4. mmlist \in Links /\ half \in BOOLEAN
  BY <1>2 DEF TypeOK, Links
<1>5. ASSUME mmlist' = list_add(mmlist, mm, pmm), Goto(c, "dup_mmap"),
             UNCHANGED <<res, newmm, count, half>>
      PROVE  IInv'
  <2>1. /\ at' = [at EXCEPT ![c] = "dup_mmap"] /\ at'[c] = "dup_mmap"
        /\ UNCHANGED <<parent, share, processes, uses, nr_threads, exempt, peak>>
    BY <1>2, <1>5 DEF Goto, TypeOK
  <2>2. \A j \in Kind, o \in Obj : Holds(c, j, o)' <=> Holds(c, j, o)
    BY <1>1, <1>5, <2>1 DEF Holds
  <2>3. Others(c) /\ Origin(c) /\ Counts(c)
    BY <1>2, <1>5, <2>1, <2>2 DEF Others, TypeOK, Origin, Counts
  <2>4. mmlist' \in Links
    BY <1>3, <1>4, <1>5, LinksType
  <2>5. Typed'
    <3>1. count' \in [Kind -> [Obj -> Int]]
      BY <1>2, <1>5 DEF TypeOK
    <3> QED BY <3>1, <2>1, <2>4, <1>1, <1>2, <1>5 DEF Typed, TypeOK
  <2>6. Sound(c)'
    <3>1. at'[p] = at[p] /\ \A t \in Task \ {c} : \A j, o : Holds(t, j, o)' <=> Holds(t, j, o)
      BY <1>2, <1>3, <2>1, <2>3 DEF TypeOK, Others, Holds
    <3>2. ParentLives(c)' /\ Accepted(c)' /\ Complete(c)'
      BY <3>1, <2>1, <1>1, <1>2, <1>3, <1>5
        DEF Sound, ParentLives, Accepted, Complete, Alive
    <3>3. Inherits(c)' /\ NewMm(c)'
      BY <3>1, <2>1, <1>1, <1>2, <1>3, <1>5 DEF Sound, Inherits, NewMm, Holds
    <3>4. Unshared(c)'
      BY <3>1, <2>1, <1>1, <1>2, <1>5 DEF Sound, Unshared, Holds
    <3> QED BY <3>2, <3>3, <3>4 DEF Sound
  <2>7. Charges(c) /\ FsOf(c)
    BY <1>1, <1>2, <2>1 DEF Charges, Charged, Using, Linked, FsOf, Alive
  <2> QED BY <1>3, <2>3, <2>5, <2>6, <2>7, Step
<1>6. ASSUME drop_newmm(c), mmlist' = free_mm(mmlist, mm), UNCHANGED half
      PROVE  IInv'
  <2>1. mmlist' \in Links
    BY <1>3, <1>4, <1>6, LinksType
  <2> QED BY <2>1, <1>1, <1>4, <1>6, StepDrop
<1>7. ASSUME drop_newmm(c), mmlist' = mmput(mmlist, mm), half' = TRUE
      PROVE  IInv'
  <2>1. mmlist' \in Links
    BY <1>3, <1>4, <1>7, MmputType
  <2> QED BY <2>1, <1>1, <1>7, StepDrop
<1> HIDE DEF p, mm, pmm
<1> QED BY <1>5, <1>6, <1>7 DEF mm_init, p, mm, pmm

\* dup_mmap() and the end of copy_mm().
LEMMA StepDupMmap ==
    ASSUME IInv, NEW c \in Task, dup_mmap(c)
    PROVE  IInv'
<1> DEFINE p == parent[c]
           mm == newmm[c]
<1>1. /\ at[c] = "dup_mmap" /\ "dup_mmap" \in Half /\ "dup_mmap" \in Copying /\ "mm" \in Kind
      /\ "namespace" \notin Half /\ "namespace" \in Copying
      /\ Copied("dup_mmap") = {"files", "fs", "sig"}
      /\ Copied("namespace") = {"files", "fs", "sig", "mm"}
  BY CopiedAt DEF dup_mmap, Half, Copying, Kind
<1>2. TypeOK /\ Sound(c) /\ NULL \notin Obj
  BY ResourcesAssumption DEF IInv
<1>3. /\ p \in Task /\ at[p] = "alive" /\ p # c /\ mm \in Obj /\ mm \in Ptr /\ mm # NULL
      /\ ~Alive(c) /\ res[c]["mm"] = NULL /\ "mm" \notin share[c]
      /\ \A t \in Task \ {c} : ~Holds(t, "mm", mm)
  BY <1>1, <1>2 DEF Sound, ParentLives, NewMm, Alive, TypeOK, Ptr
<1>4. mmlist \in Links /\ half \in BOOLEAN
  BY <1>2 DEF TypeOK, Links
<1>5. ASSUME res' = [res EXCEPT ![c]["mm"] = mm], newmm' = [newmm EXCEPT ![c] = NULL],
             Goto(c, "namespace"), UNCHANGED <<count, mmlist, half>>
      PROVE  IInv'
  <2> HIDE DEF p, mm
  <2>1. /\ at' = [at EXCEPT ![c] = "namespace"] /\ at'[c] = "namespace"
        /\ UNCHANGED <<parent, share, processes, uses, nr_threads, exempt, peak>>
        /\ newmm'[c] = NULL /\ newmm' \in [Task -> Ptr]
    BY <1>2, <1>5 DEF Goto, TypeOK, Ptr
  <2>2. /\ res' \in [Task -> [Kind -> Ptr]] /\ res'[c]["mm"] = mm
        /\ \A j \in Kind \ {"mm"} : res'[c][j] = res[c][j]
        /\ \A t \in Task \ {c} : res'[t] = res[t]
    BY <1>1, <1>2, <1>3, <1>5 DEF TypeOK
  <2>3. \A j \in Kind, o \in Obj : Holds(c, j, o)' <=> Holds(c, j, o)
    BY <1>1, <1>2, <1>3, <1>5, <2>1, <2>2 DEF Holds, mm
  <2>4. Others(c) /\ Origin(c) /\ Counts(c)
    BY <1>2, <1>5, <2>1, <2>2, <2>3 DEF Others, TypeOK, Origin, Counts
  <2>5. Typed'
    <3>1. count' \in [Kind -> [Obj -> Int]]
      BY <1>2, <1>5 DEF TypeOK
    <3> QED BY <3>1, <2>1, <2>2, <1>1, <1>2, <1>4, <1>5 DEF Typed, TypeOK
  <2>6. Sound(c)'
    <3>1. /\ at'[p] = at[p] /\ \A t \in Task \ {c} : \A j, o : Holds(t, j, o)' <=> Holds(t, j, o)
          /\ parent'[c] = p /\ share'[c] = share[c] /\ res'[p] = res[p]
      BY <1>2, <1>3, <2>1, <2>2, <2>4 DEF TypeOK, Others, Holds, p
    <3>2. ParentLives(c)' /\ Accepted(c)' /\ NewMm(c)'
      BY <3>1, <2>1, <1>1, <1>2, <1>3 DEF Sound, ParentLives, Accepted, NewMm, Alive
    <3>3. Complete(c)' /\ Inherits(c)'
      BY <3>1, <2>1, <2>2, <1>1, <1>2, <1>3 DEF Sound, Complete, Inherits, p, Half, Kind
    <3>4. Unshared(c)'
      <4>1. \A j \in Copied("dup_mmap") : j \in Kind /\ j # "mm" /\ res'[c][j] = res[c][j]
        BY <1>1, <2>2 DEF Kind
      <4>2. \A j \in Copied("dup_mmap") \ share[c] :
                res[c][j] # NULL /\ \A t \in Task \ {c} : ~Holds(t, j, res[c][j])
        BY <1>1, <1>2, <4>1 DEF Sound, Unshared
      <4>3. \A j \in Copied("namespace") \ share[c] :
                res'[c][j] # NULL /\ \A t \in Task \ {c}, o \in {res'[c][j]} : ~Holds(t, j, o)'
        BY <4>1, <4>2, <3>1, <2>2, <1>1, <1>3
      <4> QED BY <4>3, <3>1, <2>1, <1>1 DEF Unshared, Holds
    <3> QED BY <3>2, <3>3, <3>4 DEF Sound
  <2>7. Charges(c) /\ FsOf(c)
    BY <1>1, <1>2, <2>1 DEF Charges, Charged, Using, Linked, FsOf, Alive
  <2> QED BY <1>3, <2>4, <2>5, <2>6, <2>7, Step
<1>6. ASSUME drop_newmm(c), mmlist' = mmput(mmlist, mm), UNCHANGED half
      PROVE  IInv'
  <2>1. mmlist' \in Links
    BY <1>3, <1>4, <1>6, MmputType
  <2> QED BY <2>1, <1>1, <1>4, <1>6, StepDrop
<1> HIDE DEF p, mm
<1> QED BY <1>5, <1>6 DEF dup_mmap, p, mm

\* copy_thread() fails.
LEMMA StepThreadFails ==
    ASSUME IInv, NEW c \in Task, thread_fails(c)
    PROVE  IInv'
<1>1. /\ at[c] = "thread" /\ "thread" \in Copying /\ "thread" \notin Half
      /\ "exit_namespace" \in Undoing /\ "exit_namespace" \notin Copying
      /\ "exit_namespace" \notin Half
      /\ Copied("thread") = Kind /\ Copied("exit_namespace") = Kind
  BY CopiedAt DEF thread_fails, Half, Copying, Undoing
<1>2. TypeOK /\ Sound(c)
  BY DEF IInv
<1>3. /\ at' = [at EXCEPT ![c] = "exit_namespace"] /\ at'[c] = "exit_namespace"
      /\ UNCHANGED <<parent, share, processes, uses, nr_threads, exempt, peak>>
      /\ UNCHANGED <<res, newmm, count, mmlist, half>>
  BY <1>2 DEF thread_fails, Goto, bad_fork, TypeOK
<1>4. \A j \in Kind, o \in Obj : Holds(c, j, o)' <=> Holds(c, j, o)
  BY <1>1, <1>3 DEF Holds
<1>5. Others(c) /\ Origin(c) /\ Counts(c) /\ ~Alive(c)
  BY <1>1, <1>2, <1>3, <1>4 DEF Others, TypeOK, Origin, Counts, Alive
<1>6. Typed'
  <2>1. count' \in [Kind -> [Obj -> Int]]
    BY <1>2, <1>3 DEF TypeOK
  <2> QED BY <2>1, <1>1, <1>2, <1>3 DEF Typed, TypeOK, Links
<1>7. Sound(c)'
  <2>1. parent[c] \in Task /\ at[parent[c]] = "alive" /\ at'[parent[c]] = "alive"
    BY <1>1, <1>2, <1>3 DEF TypeOK, Sound, ParentLives, Alive
  <2> QED BY <2>1, <1>1, <1>2, <1>3
        DEF Sound, ParentLives, NewMm, Inherits, Unshared, Complete, Accepted, Alive
<1>8. Charges(c) /\ FsOf(c)
  BY <1>1, <1>2, <1>3 DEF Charges, Charged, Using, Linked, FsOf, Alive
<1> QED BY <1>5, <1>6, <1>7, <1>8, Step

\* The child is linked: it lives.
LEMMA StepSetLinks ==
    ASSUME IInv, NEW c \in Task, SET_LINKS(c)
    PROVE  IInv'
<1> DEFINE p == parent[c]
<1>1. /\ at[c] = "thread" /\ "thread" \in Copying /\ "thread" \notin Half
      /\ "alive" \notin Copying \cup Undoing /\ "alive" \notin Half
      /\ Copied("thread") = Kind /\ Copied("alive") = Kind
      /\ "fs" \in Kind /\ "namespace" \in Kind
  BY CopiedAt DEF SET_LINKS, Half, Copying, Undoing, Kind
<1>2. TypeOK /\ Sound(c)
  BY DEF IInv
<1>3. /\ at' = [at EXCEPT ![c] = "alive"] /\ at'[c] = "alive"
      /\ parent' = [parent EXCEPT ![c] = InitTask] /\ share' = [share EXCEPT ![c] = {}]
      /\ nr_threads' = nr_threads + 1
      /\ UNCHANGED <<res, newmm, count, mmlist, processes, uses, exempt, peak, half>>
  BY <1>2 DEF SET_LINKS, TypeOK
<1>4. \A j \in Kind, o \in Obj : Holds(c, j, o)' <=> Holds(c, j, o)
  BY <1>1, <1>3 DEF Holds
<1>5. Others(c) /\ Origin(c) /\ Counts(c) /\ ~Alive(c)
  BY <1>1, <1>2, <1>3, <1>4 DEF Others, TypeOK, Origin, Counts, Alive
<1>6. Typed'
  <2>1. count' \in [Kind -> [Obj -> Int]]
    BY <1>2, <1>3 DEF TypeOK
  <2> QED BY <2>1, <1>1, <1>2, <1>3, ResourcesAssumption DEF Typed, TypeOK, Links
<1>7. Sound(c)'
  BY <1>1, <1>2, <1>3
     DEF Sound, ParentLives, NewMm, Inherits, Unshared, Complete, Accepted
<1>8. Charges(c)
  BY <1>1, <1>2, <1>3 DEF Charges, Charged, Using, Linked
<1>9. FsOf(c)
  <2> SUFFICES ASSUME NEW u \in Task \ {c}, Alive(u), res[c]["fs"] = res[u]["fs"]
               PROVE  res[c]["namespace"] = res[u]["namespace"]
    BY <1>3 DEF FsOf
  <2>1. Holds(u, "fs", res[u]["fs"])
    BY CopiedAt, <1>1 DEF Alive, Holds
  <2>2. "fs" \in share[c]
    BY <2>1, <1>1, <1>2 DEF Sound, Unshared
  <2>3. "namespace" \in share[c]
    BY <2>2, <1>1, <1>2 DEF Sound, Accepted, accepted
  <2>4. res[c]["fs"] = res[p]["fs"] /\ res[c]["namespace"] = res[p]["namespace"]
    BY <2>2, <2>3, <1>1, <1>2 DEF Sound, Inherits
  <2>5. p \in Task /\ Alive(p)
    BY <1>1, <1>2 DEF Sound, ParentLives, TypeOK
  <2> QED BY <2>4, <2>5 DEF IInv, FsInOneNamespace
<1> QED BY <1>5, <1>6, <1>7, <1>8, <1>9, Step

\* The bad_fork exits that give a resource back.
LEMMA StepBadForkExit ==
    ASSUME IInv, NEW c \in Task, bad_fork_exit(c)
    PROVE  IInv'
<1> DEFINE q == at[c]
           p == parent[c]
<1>0. q \in DOMAIN exiting
  BY DEF bad_fork_exit
<1>1. PICK k \in Kind, done \in Undoing :
        /\ k = exiting[q] /\ done = next_exit[q]
        /\ q \in Undoing /\ q \notin Copying /\ q \notin Half
        /\ done \notin Copying /\ done \notin Half
        /\ Copied(q) = Copied(done) \cup {k} /\ k \notin Copied(done) /\ Copied(q) \subseteq Kind
        /\ q \notin {"cleanup", "cleanup_count", "free"} /\ done \notin {"cleanup_count", "free"}
  <2> DEFINE k0 == exiting[q]
             d0 == next_exit[q]
  <2>1. q \in {"exit_namespace", "exit_mm", "exit_sig", "exit_fs", "exit_files"}
    BY <1>0 DEF exiting
  <2>2. /\ exiting["exit_namespace"] = "namespace" /\ exiting["exit_mm"] = "mm"
        /\ exiting["exit_sig"] = "sig" /\ exiting["exit_fs"] = "fs"
        /\ exiting["exit_files"] = "files"
    BY DEF exiting
  <2>3. /\ next_exit["exit_namespace"] = "exit_mm" /\ next_exit["exit_mm"] = "exit_sig"
        /\ next_exit["exit_sig"] = "exit_fs" /\ next_exit["exit_fs"] = "exit_files"
        /\ next_exit["exit_files"] = "cleanup"
    BY DEF next_exit
  <2> HIDE DEF q
  <2>4. /\ Copied(q) = Copied(d0) \cup {k0} /\ k0 \notin Copied(d0) /\ Copied(q) \subseteq Kind
        /\ k0 \in Kind
    BY <2>1, <2>2, <2>3, CopiedAt DEF Kind
  <2>5. d0 \in {"exit_mm", "exit_sig", "exit_fs", "exit_files", "cleanup"}
    BY <2>1, <2>3
  <2>6. /\ d0 \in Undoing /\ d0 \notin Copying /\ d0 \notin Half
        /\ q \in Undoing /\ q \notin Copying /\ q \notin Half
        /\ q \notin {"cleanup", "cleanup_count", "free"} /\ d0 \notin {"cleanup_count", "free"}
    <3> HIDE DEF k0, d0
    <3> QED BY <2>1, <2>5 DEF Copying, Undoing, Half
  <2> QED BY <2>4, <2>6
<1>1a. PICK obj : obj = res[c][k]
  OBVIOUS
<1>2. TypeOK /\ Sound(c) /\ NULL \notin Obj
  BY ResourcesAssumption DEF IInv
<1>3. /\ at' = [at EXCEPT ![c] = done] /\ at'[c] = done
      /\ res' = [res EXCEPT ![c][k] = NULL]
      /\ count' = [count EXCEPT ![k] = put(@, obj)]
      /\ mmlist' = IF k = "mm" THEN mmput(mmlist, obj) ELSE mmlist
      /\ UNCHANGED <<parent, share, processes, uses, nr_threads, exempt, peak>>
      /\ UNCHANGED <<newmm, half>>
  BY <1>1, <1>1a, <1>2 DEF bad_fork_exit, Goto, TypeOK
<1>4. /\ p \in Task /\ at[p] = "alive" /\ p # c /\ newmm[c] = NULL /\ ~Alive(c)
      /\ obj \in Ptr /\ count[k] \in [Obj -> Int]
  BY <1>1, <1>1a, <1>2 DEF Sound, ParentLives, NewMm, Alive, TypeOK, Undoing
<1> HIDE DEF p, q
<1>5. /\ res' \in [Task -> [Kind -> Ptr]] /\ res'[c][k] = NULL
      /\ \A j \in Kind \ {k} : res'[c][j] = res[c][j]
      /\ \A t \in Task \ {c} : res'[t] = res[t]
  <2>1. NULL \in Ptr
    BY DEF Ptr
  <2> QED BY <2>1, <1>1, <1>2, <1>3 DEF TypeOK
<1>6. /\ count'[k] \in [Obj -> Int]
      /\ \A o \in Obj : count'[k][o] = IF o = obj THEN count[k][o] - 1 ELSE count[k][o]
      /\ \A j \in Kind \ {k} : count'[j] = count[j]
  <2>1. count'[k] = put(count[k], obj) /\ \A j \in Kind \ {k} : count'[j] = count[j]
    BY <1>1, <1>2, <1>3 DEF TypeOK
  <2>2. /\ put(count[k], obj) \in [Obj -> Int]
        /\ \A o \in Obj : put(count[k], obj)[o] = IF o = obj THEN count[k][o] - 1 ELSE count[k][o]
    BY <1>4, GetPut
  <2> QED BY <2>1, <2>2
<1>7. \A j \in Kind, o \in Obj :
        /\ j # k => (Holds(c, j, o)' <=> Holds(c, j, o))
        /\ ~Holds(c, k, o)' /\ (Holds(c, k, o) <=> o = obj)
  BY <1>1, <1>1a, <1>2, <1>3, <1>4, <1>5 DEF Holds, q
<1>8. Others(c) /\ Origin(c)
  BY <1>2, <1>3, <1>5, <1>7 DEF Others, TypeOK, Origin
<1>9. Counts(c)
  BY <1>1, <1>6, <1>7 DEF Counts
<1>10. Typed'
  <2>1. count' \in [Kind -> [Obj -> Int]]
    <3>1. \A j \in Kind : count[j] \in [Obj -> Int]
      BY <1>2 DEF TypeOK
    <3>2. \A j \in Kind : count'[j] \in [Obj -> Int]
      BY <1>6, <3>1
    <3> QED BY <3>2, <1>2, <1>3 DEF TypeOK
  <2>2. mmlist \in Links
    BY <1>2 DEF TypeOK, Links
  <2>3. mmlist' \in Links
    BY <2>2, <1>3, <1>4, MmputType
  <2> QED BY <2>1, <2>3, <1>1, <1>2, <1>3, <1>5 DEF Typed, TypeOK
<1>11. Sound(c)'
  <2>1. parent'[c] = p /\ at'[p] = at[p] /\ \A j \in Copied(done) : res'[c][j] = res[c][j]
    BY <1>1, <1>2, <1>3, <1>4, <1>5 DEF TypeOK, p
  <2> QED BY <2>1, <1>1, <1>2, <1>3, <1>4
        DEF Sound, ParentLives, NewMm, Inherits, Unshared, Complete, Accepted, Alive, q
<1>12. Charges(c) /\ FsOf(c)
  BY <1>1, <1>2, <1>3 DEF Charges, Charged, Using, Linked, FsOf, Alive, Undoing, q
<1> QED BY <1>4, <1>8, <1>9, <1>10, <1>11, <1>12, Step

\* The rest of the bad_fork exits.
LEMMA StepBadForkCleanup ==
    ASSUME IInv, NEW c \in Task, bad_fork_cleanup(c)
    PROVE  IInv'
<1>1. /\ at[c] \in {"cleanup", "cleanup_count", "free"} /\ at[c] \notin Half
      /\ "unused" \notin Copying \cup Undoing /\ "unused" \notin Half
      /\ Copied(at[c]) = {} /\ Copied("unused") = {}
  BY CopiedAt DEF bad_fork_cleanup, Half, Copying, Undoing
<1>2. TypeOK /\ Sound(c) /\ NULL \in Ptr
  BY DEF IInv, Ptr
<1>3. /\ at' = [at EXCEPT ![c] = "unused"] /\ at'[c] = "unused"
      /\ parent' = [parent EXCEPT ![c] = InitTask] /\ share' = [share EXCEPT ![c] = {}]
      /\ res' = [res EXCEPT ![c] = Nothing]
      /\ uses' = (IF at[c] = "cleanup" THEN uses - 1 ELSE uses)
      /\ processes' = (IF at[c] = "free" THEN processes ELSE processes - 1)
      /\ exempt' = exempt \ {c} /\ UNCHANGED <<newmm, count, mmlist, nr_threads, peak, half>>
  BY <1>2 DEF bad_fork_cleanup, TypeOK
<1>4. res' \in [Task -> [Kind -> Ptr]] /\ \A t \in Task \ {c} : res'[t] = res[t]
  BY <1>2, <1>3 DEF TypeOK, Nothing
<1>5. \A j \in Kind, o \in Obj : Holds(c, j, o)' <=> Holds(c, j, o)
  BY <1>1, <1>3 DEF Holds
<1>6. Others(c) /\ Origin(c) /\ Counts(c) /\ ~Alive(c)
  BY <1>1, <1>2, <1>3, <1>4, <1>5 DEF Others, TypeOK, Origin, Counts, Alive
<1>7. Typed'
  <2>1. count' \in [Kind -> [Obj -> Int]]
    BY <1>2, <1>3 DEF TypeOK
  <2> QED BY <2>1, <1>2, <1>3, <1>4, ResourcesAssumption DEF Typed, TypeOK, Links
<1>8. Sound(c)'
  BY <1>1, <1>2, <1>3
     DEF Sound, ParentLives, NewMm, Inherits, Unshared, Complete, Accepted
<1>9. Charges(c) /\ FsOf(c)
  BY <1>1, <1>2, <1>3 DEF Charges, Charged, Using, Linked, FsOf, Alive
<1> QED BY <1>6, <1>7, <1>8, <1>9, Step

\* A task replaces its mm.
LEMMA StepExec ==
    ASSUME IInv, NEW c \in Task, exec(c)
    PROVE  IInv'
<1>1. PICK o1 \in kmem_cache_alloc("mm") :
        /\ count' = [count EXCEPT !["mm"] = [put(@, res[c]["mm"]) EXCEPT ![o1] = 1]]
        /\ mmlist' = mmput(list_add(mmlist, o1, InitMm), res[c]["mm"])
        /\ res' = [res EXCEPT ![c]["mm"] = o1]
  BY DEF exec
<1>2. /\ at[c] = "alive" /\ Alive(c) /\ ~Forking(c) /\ "mm" \in Kind /\ Copied("alive") = Kind
      /\ "alive" \notin Copying \cup Undoing /\ "alive" \notin Half
      /\ {"files", "fs", "sig", "namespace"} \subseteq Kind \ {"mm"}
      /\ UNCHANGED <<at, parent, share, newmm, processes, uses, nr_threads, exempt, peak, half>>
  BY CopiedAt DEF exec, Alive, Kind, Copying, Undoing, Half
<1>3. TypeOK /\ Sound(c) /\ NULL \notin Obj /\ mmlist \in Links
  BY ResourcesAssumption DEF IInv, TypeOK, Links
<1>4. PICK old : old = res[c]["mm"]
  OBVIOUS
<1>5. /\ newmm[c] = NULL /\ old \in Ptr /\ o1 \in Obj /\ o1 # NULL /\ count["mm"][o1] = 0
      /\ \A t \in Task : ~Holds(t, "mm", o1)
  BY <1>2, <1>3, <1>4, Allocated DEF Sound, NewMm, TypeOK
<1>6. /\ old # o1 /\ \A o : Holds(c, "mm", o) /\ o \in Obj <=> o = old /\ o \in Obj
  BY <1>2, <1>3, <1>4, <1>5 DEF Holds
<1>7. /\ res' \in [Task -> [Kind -> Ptr]] /\ res'[c]["mm"] = o1
      /\ \A j \in Kind \ {"mm"} : res'[c][j] = res[c][j]
      /\ \A t \in Task \ {c} : res'[t] = res[t]
  <2>1. o1 \in Ptr
    BY <1>5 DEF Ptr
  <2> QED BY <2>1, <1>1, <1>2, <1>3 DEF TypeOK
<1>8. /\ count'["mm"] \in [Obj -> Int]
      /\ \A o \in Obj : count'["mm"][o] = IF o = o1 THEN 1
                                          ELSE IF o = old THEN count["mm"][o] - 1
                                          ELSE count["mm"][o]
      /\ \A j \in Kind \ {"mm"} : count'[j] = count[j]
  <2>1. /\ count'["mm"] = [put(count["mm"], old) EXCEPT ![o1] = 1]
        /\ \A j \in Kind \ {"mm"} : count'[j] = count[j]
    BY <1>1, <1>2, <1>3, <1>4 DEF TypeOK
  <2>2. count["mm"] \in [Obj -> Int]
    BY <1>2, <1>3 DEF TypeOK
  <2>3. /\ put(count["mm"], old) \in [Obj -> Int]
        /\ \A o \in Obj : put(count["mm"], old)[o]
                            = IF o = old THEN count["mm"][o] - 1 ELSE count["mm"][o]
    BY <2>2, <1>5, GetPut
  <2> QED BY <2>1, <2>3, <1>5
<1>9. \A j \in Kind, o \in Obj :
        /\ j # "mm" => (Holds(c, j, o)' <=> Holds(c, j, o))
        /\ Holds(c, "mm", o)' <=> o = o1
  BY <1>2, <1>3, <1>5, <1>7 DEF Holds
<1>10. Others(c)
  BY <1>2, <1>7 DEF Others
<1>11. Origin(c)
  BY <1>5, <1>9 DEF Origin
<1>12. Counts(c)
  BY <1>2, <1>5, <1>6, <1>8, <1>9 DEF Counts
<1>13. Typed'
  <2>1. count' \in [Kind -> [Obj -> Int]]
    <3>1. \A j \in Kind : count[j] \in [Obj -> Int]
      BY <1>3 DEF TypeOK
    <3>2. \A j \in Kind : count'[j] \in [Obj -> Int]
      BY <1>8, <3>1
    <3> QED BY <3>2, <1>1, <1>3 DEF TypeOK
  <2>2. list_add(mmlist, o1, InitMm) \in Links
    BY <1>3, <1>5, LinksType
  <2>3. mmlist' \in Links
    BY <2>2, <1>1, <1>4, <1>5, MmputType
  <2> QED BY <2>1, <2>3, <1>2, <1>3, <1>7 DEF Typed, TypeOK
<1>14. Sound(c)'
  <2>1. at'[c] = "alive" /\ newmm'[c] = NULL
    BY <1>2, <1>5
  <2>2. \A j \in Kind \ {"mm"} : res[c][j] # NULL
    BY <1>2, <1>3 DEF Sound, Complete
  <2> QED BY <2>1, <2>2, <1>2, <1>7
        DEF Sound, ParentLives, NewMm, Inherits, Unshared, Complete, Accepted
<1>15. Charges(c)
  BY <1>2 DEF Charges, Charged, Using, Linked
<1>16. FsOf(c)
  BY <1>2, <1>7 DEF FsOf, IInv, FsInOneNamespace, Alive
<1> QED BY <1>2, <1>10, <1>11, <1>12, <1>13, <1>14, <1>15, <1>16, Step

\* A task gives back what it has.
LEMMA StepDoExit ==
    ASSUME IInv, NEW c \in Task, do_exit(c)
    PROVE  IInv'
<1>1. /\ at[c] = "alive" /\ ~Forking(c) /\ Copied("alive") = Kind /\ Copied("zombie") = {}
      /\ "alive" \notin Half /\ "zombie" \notin Copying \cup Undoing /\ "zombie" \notin Half
      /\ "mm" \in Kind
  BY CopiedAt DEF do_exit, Alive, Copying, Undoing, Half, Kind
<1>2. TypeOK /\ Sound(c) /\ NULL \notin Obj /\ NULL \in Ptr /\ mmlist \in Links
  BY ResourcesAssumption DEF IInv, TypeOK, Links, Ptr
<1>3. /\ at' = [at EXCEPT ![c] = "zombie"] /\ at'[c] = "zombie"
      /\ count' = [k \in Kind |-> put(count[k], res[c][k])]
      /\ mmlist' = mmput(mmlist, res[c]["mm"])
      /\ res' = [res EXCEPT ![c] = Nothing] /\ uses' = uses - 1
      /\ UNCHANGED <<parent, share, newmm, processes, nr_threads, exempt, peak, half>>
  BY <1>2 DEF do_exit, TypeOK
<1>4. newmm[c] = NULL
  BY <1>1, <1>2 DEF Sound, NewMm
<1>5. res' \in [Task -> [Kind -> Ptr]] /\ \A t \in Task \ {c} : res'[t] = res[t]
  BY <1>2, <1>3 DEF TypeOK, Nothing
<1>6. \A j \in Kind, o \in Obj :
        ~Holds(c, j, o)' /\ (Holds(c, j, o) <=> o = res[c][j])
  BY <1>1, <1>2, <1>3, <1>4 DEF Holds
<1>7. ASSUME NEW j \in Kind
      PROVE  /\ count'[j] \in [Obj -> Int]
             /\ \A o \in Obj : count'[j][o] = IF o = res[c][j] THEN count[j][o] - 1
                                              ELSE count[j][o]
  <2>1. count[j] \in [Obj -> Int] /\ res[c][j] \in Ptr /\ count'[j] = put(count[j], res[c][j])
    BY <1>2, <1>3 DEF TypeOK
  <2>2. PICK x \in Ptr : x = res[c][j]
    BY <2>1
  <2>3. /\ put(count[j], x) \in [Obj -> Int]
        /\ \A o \in Obj : put(count[j], x)[o] = IF o = x THEN count[j][o] - 1 ELSE count[j][o]
    BY <2>1, GetPut
  <2> QED BY <2>1, <2>2, <2>3
<1>8. Others(c) /\ Origin(c)
  BY <1>2, <1>3, <1>5, <1>6 DEF Others, TypeOK, Origin
<1>9. Counts(c)
  BY <1>6, <1>7 DEF Counts
<1>10. Typed'
  <2>1. count' \in [Kind -> [Obj -> Int]]
    BY <1>3, <1>7
  <2>2. res[c]["mm"] \in Ptr
    BY <1>1, <1>2 DEF TypeOK
  <2>3. mmlist' \in Links
    BY <2>2, <1>2, <1>3, MmputType
  <2> QED BY <2>1, <2>3, <1>2, <1>3, <1>5 DEF Typed, TypeOK
<1>11. Sound(c)'
  BY <1>1, <1>3, <1>4
     DEF Sound, ParentLives, NewMm, Inherits, Unshared, Complete, Accepted
<1>12. Charges(c) /\ FsOf(c)
  BY <1>1, <1>2, <1>3 DEF Charges, Charged, Using, Linked, FsOf, Alive
<1> QED BY <1>1, <1>8, <1>9, <1>10, <1>11, <1>12, Step

\* The task_struct of a zombie is freed.
LEMMA StepReleaseTask ==
    ASSUME IInv, NEW c \in Task, release_task(c)
    PROVE  IInv'
<1>1. /\ at[c] = "zombie" /\ "unused" \notin Copying \cup Undoing /\ "unused" \notin Half
      /\ "zombie" \notin Half /\ Copied("zombie") = {} /\ Copied("unused") = {}
  BY CopiedAt DEF release_task, Copying, Undoing, Half
<1>2. TypeOK /\ Sound(c)
  BY DEF IInv
<1>3. /\ at' = [at EXCEPT ![c] = "unused"] /\ at'[c] = "unused"
      /\ processes' = processes - 1 /\ nr_threads' = nr_threads - 1
      /\ exempt' \subseteq exempt
      /\ UNCHANGED <<parent, share, res, newmm, count, mmlist, uses, peak, half>>
  BY <1>2 DEF release_task, TypeOK
<1>4. \A j \in Kind, o \in Obj : Holds(c, j, o)' <=> Holds(c, j, o)
  BY <1>1, <1>3 DEF Holds
<1>5. Others(c) /\ Origin(c) /\ Counts(c) /\ ~Alive(c)
  BY <1>1, <1>2, <1>3, <1>4 DEF Others, TypeOK, Origin, Counts, Alive
<1>6. Typed'
  <2>1. count' \in [Kind -> [Obj -> Int]]
    BY <1>2, <1>3 DEF TypeOK
  <2> QED BY <2>1, <1>2, <1>3 DEF Typed, TypeOK, Links
<1>7. Sound(c)'
  BY <1>1, <1>2, <1>3
     DEF Sound, ParentLives, NewMm, Inherits, Unshared, Complete, Accepted
<1>8. Charges(c) /\ FsOf(c)
  BY <1>1, <1>2, <1>3 DEF Charges, Charged, Using, Linked, FsOf, Alive
<1> QED BY <1>5, <1>6, <1>7, <1>8, Step

-----------------------------------------------------------------------------
(* Init and Next together.                                                 *)

\* init_task alone holds what there is at boot.
LEMMA InitInv == Init => IInv
<1> SUFFICES ASSUME Init
             PROVE  IInv
  OBVIOUS
<1>1. /\ InitTask \in Task /\ NULL \notin Obj /\ \A k \in Kind : boot(k) \in Obj
      /\ NULL \in Ptr /\ "mm" \in Kind /\ InitMm \in Obj \cup {InitMm}
  BY ResourcesAssumption DEF boot, Ptr, Kind
<1>2. /\ at = [t \in Task |-> IF t = InitTask THEN "alive" ELSE "unused"]
      /\ res = [t \in Task |-> IF t = InitTask
                               THEN [k \in Kind |-> IF k = "mm" THEN NULL ELSE boot(k)]
                               ELSE Nothing]
      /\ newmm = [t \in Task |-> NULL]
      /\ count = [k \in Kind |-> [o \in Obj |-> IF k # "mm" /\ o = boot(k) THEN 1 ELSE 0]]
      /\ parent = [t \in Task |-> InitTask] /\ share = [t \in Task |-> {}]
      /\ processes = 1 /\ uses = 1 /\ nr_threads = 1 /\ exempt = {}
      /\ peak = 0 /\ half = FALSE
  BY DEF Init
<1>3. /\ Copied("alive") = Kind /\ Copied("unused") = {}
      /\ \A q \in {"alive", "unused"} : q \notin Copying /\ q \notin Undoing /\ q \notin Half
  BY CopiedAt DEF Copying, Undoing, Half
<1>4. TypeOK
  <2>1. mmlist \in [next : [Obj \cup {InitMm} -> Ptr \cup {InitMm}],
                    prev : [Obj \cup {InitMm} -> Ptr \cup {InitMm}], nr : Int]
    BY <1>1 DEF Init
  <2>2. res \in [Task -> [Kind -> Ptr]]
    BY <1>1, <1>2 DEF Nothing, Ptr
  <2>3. count \in [Kind -> [Obj -> Nat]]
    BY <1>2
  <2> QED BY <1>1, <1>2, <2>1, <2>2, <2>3 DEF TypeOK
<1>5. \A c \in Task : Sound(c)
  <2> TAKE c \in Task
  <2>1. \A k \in Kind \ {"mm"} : res[InitTask][k] = boot(k) /\ boot(k) # NULL
    BY <1>1, <1>2
  <2>2. CASE c = InitTask
    BY <2>1, <2>2, <1>1, <1>2, <1>3
       DEF Sound, ParentLives, NewMm, Inherits, Unshared, Complete, Accepted
  <2>3. CASE c # InitTask
    BY <2>3, <1>1, <1>2, <1>3
       DEF Sound, ParentLives, NewMm, Inherits, Unshared, Complete, Accepted
  <2> QED BY <2>2, <2>3
<1>6. ObjectsExact
  <2> SUFFICES ASSUME NEW k \in Kind, NEW o \in Obj
               PROVE  count[k][o] = Cardinality(Holders(k, o))
    BY DEF ObjectsExact
  <2>1. \A t \in Task : t \in Holders(k, o) <=> t = InitTask /\ k # "mm" /\ o = boot(k)
    <3> TAKE t \in Task
    <3>1. newmm[t] # o
      BY <1>1, <1>2
    <3>2. CASE t = InitTask
      BY <3>1, <3>2, <1>1, <1>2, <1>3 DEF Holders
    <3>3. CASE t # InitTask
      BY <3>1, <3>3, <1>2, <1>3 DEF Holders
    <3> QED BY <3>2, <3>3
  <2>2. CASE k # "mm" /\ o = boot(k)
    <3>1. Holders(k, o) = {InitTask}
      BY <2>1, <2>2, <1>1 DEF Holders
    <3> QED BY <2>2, <3>1, <1>2, FS_Singleton
  <2>3. CASE ~(k # "mm" /\ o = boot(k))
    <3>1. Holders(k, o) = {}
      BY <2>1, <2>3 DEF Holders
    <3> QED BY <2>3, <3>1, <1>2, FS_EmptySet
  <2> QED BY <2>2, <2>3
<1>7. ChargesExact
  <2>1. Charged = {InitTask} /\ Using = {InitTask} /\ Linked = {InitTask}
    BY <1>1, <1>2 DEF Charged, Using, Linked
  <2> QED BY <2>1, <1>2, FS_Singleton DEF ChargesExact
<1>8. FsInOneNamespace
  BY <1>2 DEF FsInOneNamespace, Alive
<1> QED BY <1>4, <1>5, <1>6, <1>7, <1>8 DEF IInv, ReferencesExact

\* Every step keeps the invariant.
LEMMA Inductive == IInv /\ [Next]_vars => IInv'
<1> SUFFICES ASSUME IInv, [Next]_vars
             PROVE  IInv'
  OBVIOUS
<1>1. CASE UNCHANGED vars
  <2>1. /\ TypeOK' /\ ReferencesExact' /\ FsInOneNamespace'
    BY <1>1 DEF IInv, vars, TypeOK, ReferencesExact, ObjectsExact, ChargesExact, Holders,
                Charged, Using, Linked, FsInOneNamespace, Alive
  <2>2. \A c \in Task : Sound(c)'
    BY <1>1 DEF IInv, vars, Sound, ParentLives, NewMm, Inherits, Unshared, Complete, Accepted,
                Holds, Alive
  <2> QED BY <2>1, <2>2 DEF IInv
<1>2. ASSUME NEW t \in Task, NEW c \in Task, NEW S \in Sharing, do_fork(t, c, S)
      PROVE  IInv'
  BY <1>2, StepDoFork
<1>3. ASSUME NEW c \in Task, NEW k \in DOMAIN after, copy(c, k)
      PROVE  IInv'
  BY <1>3, StepCopy
<1>4. ASSUME NEW c \in Task,
             \/ copy_mm(c) \/ mm_init(c) \/ dup_mmap(c) \/ thread_fails(c) \/ SET_LINKS(c)
             \/ bad_fork_exit(c) \/ bad_fork_cleanup(c)
             \/ exec(c) \/ do_exit(c) \/ release_task(c)
      PROVE  IInv'
  BY <1>4, StepCopyMm, StepMmInit, StepDupMmap, StepThreadFails, StepSetLinks, StepBadForkExit,
     StepBadForkCleanup, StepExec, StepDoExit, StepReleaseTask
<1> QED BY <1>1, <1>2, <1>3, <1>4 DEF Next

\* The inductive invariant is one.
LEMMA Invariant == Spec => []IInv
BY InitInv, Inductive, PTL DEF Spec

-----------------------------------------------------------------------------
(* The results.                                                            *)

\* Every variable keeps its type; no use count becomes negative.
THEOREM ResourcesTypeCorrect == Spec => []TypeOK
BY Invariant, PTL DEF IInv

\* Every reference that do_fork() takes is given back exactly once.
THEOREM ReferencesCorrect == Spec => []ReferencesExact
BY Invariant, PTL DEF IInv

\* Tasks that share an fs_struct share their namespace.
THEOREM NamespacesCorrect == Spec => []FsInOneNamespace
BY Invariant, PTL DEF IInv

-----------------------------------------------------------------------------
(* The list of mms.                                                        *)

\* No part of L is a ring of its own.
Whole(list, L) ==
    \A part \in SUBSET L : part # {} /\ (\A o \in part : list.next[o] \in part) => part = L

\* The links of L are one ring, and mmlist_nr counts its entries.
Ring(list, L) ==
    /\ list.nr = Cardinality(L) - 1
    /\ \A o \in L : /\ list.next[o] \in L /\ list.prev[list.next[o]] = o
                    /\ list.prev[o] \in L /\ list.next[list.prev[o]] = o
    /\ Whole(list, L)

Entry == Obj \cup {InitMm}

LEMMA EntryFinite == \A L \in SUBSET Entry : IsFiniteSet(L)
<1>1. IsFiniteSet(Obj \cup {InitMm})
  <2>1. IsFiniteSet(Obj)
    BY ResourcesAssumption
  <2> QED BY <2>1, FS_AddElement
<1>2. IsFiniteSet(Entry)
  BY <1>1 DEF Entry
<1> QED BY <1>2, FS_Subset

LEMMA RingAdd ==
    ASSUME NEW list \in Links, NEW L \in SUBSET Entry, Ring(list, L),
           NEW mm \in Obj, mm \notin L, NEW head \in L
    PROVE  Ring(list_add(list, mm, head), L \cup {mm}) /\ list_add(list, mm, head) \in Links
<1> DEFINE n == list.next[head]
           added == list_add(list, mm, head)
<1>1. /\ list.next \in [Entry -> Ptr \cup {InitMm}] /\ list.prev \in [Entry -> Ptr \cup {InitMm}]
      /\ list.nr \in Int /\ mm \in Entry /\ head \in Entry /\ n \in L /\ n # mm /\ head # mm
  BY DEF Links, Entry, Ring
<1>2. /\ \A x \in Entry : added.next[x] = IF x = head THEN mm ELSE IF x = mm THEN n ELSE list.next[x]
      /\ \A x \in Entry : added.prev[x] = IF x = mm THEN head ELSE IF x = n THEN mm ELSE list.prev[x]
      /\ added.nr = list.nr + 1
  BY <1>1 DEF list_add
<1>3. added \in Links
  BY <1>1, LinksType DEF Entry
<1>4. Cardinality(L \cup {mm}) = Cardinality(L) + 1 /\ Cardinality(L) \in Nat
  <2>1. IsFiniteSet(L)
    BY EntryFinite
  <2> QED BY <2>1, FS_AddElement, FS_CardinalityType
<1> HIDE DEF added
<1>5. ASSUME NEW o \in L \cup {mm}
      PROVE  /\ added.next[o] \in L \cup {mm} /\ added.prev[added.next[o]] = o
             /\ added.prev[o] \in L \cup {mm} /\ added.next[added.prev[o]] = o
  <2>1. \A x \in L : /\ x \in Entry /\ x # mm /\ list.next[x] \in L /\ list.prev[list.next[x]] = x
                     /\ list.prev[x] \in L /\ list.next[list.prev[x]] = x
    BY DEF Ring
  <2> HIDE DEF n
  <2>2. list.prev[n] = head
    BY <2>1 DEF n
  <2>3. CASE o = mm
    BY <2>3, <2>1, <2>2, <1>1, <1>2
  <2>4. CASE o \in L
    <3>1. list.next[o] = n => o = head
      BY <2>1, <2>2, <2>4
    <3>2. list.prev[o] = head => o = n
      BY <2>1, <2>4 DEF n
    <3> QED BY <3>1, <3>2, <2>4, <2>1, <2>2, <1>1, <1>2
  <2> QED BY <2>3, <2>4
<1>6. added.nr = Cardinality(L \cup {mm}) - 1
  BY <1>1, <1>2, <1>4 DEF Ring
<1>8. Whole(added, L \cup {mm})
  <2> SUFFICES ASSUME NEW part \in SUBSET (L \cup {mm}), part # {},
                      \A o \in part : added.next[o] \in part
               PROVE  part = L \cup {mm}
    BY DEF Whole
  <2>1. added.next[head] = mm /\ added.next[mm] = n /\ n \in L /\ n # mm
    BY <1>1, <1>2
  <2>2. \A o \in L : o # head => added.next[o] = list.next[o]
    BY <1>2
  <2> DEFINE old == part \ {mm}
  <2>3. old \in SUBSET L /\ old # {}
    BY <2>1
  <2>4. \A o \in old : list.next[o] \in old
    <3>1. head \in part => n \in old
      BY <2>1
    <3>2. \A o \in old : o # head => list.next[o] \in old
      BY <2>2, <2>3 DEF Ring
    <3> QED BY <3>1, <3>2
  <2>5. old = L
    BY <2>3, <2>4 DEF Ring, Whole
  <2> QED BY <2>1, <2>5
<1>7. Ring(added, L \cup {mm}) /\ added \in Links
  BY <1>3, <1>5, <1>6, <1>8 DEF Ring
<1> QED BY <1>7 DEF added

\* Links outside of the ring may be anything.
LEMMA RingSet ==
    ASSUME NEW list \in Links, NEW L \in SUBSET Entry, Ring(list, L),
           NEW mm, mm \notin L, NEW x, NEW y
    PROVE  Ring(set_links(list, mm, x, y), L)
<1> DEFINE set == set_links(list, mm, x, y)
<1>1. /\ list.next \in [Entry -> Ptr \cup {InitMm}] /\ list.prev \in [Entry -> Ptr \cup {InitMm}]
  BY DEF Links, Entry
<1>2. \A o \in L : set.next[o] = list.next[o] /\ set.prev[o] = list.prev[o] /\ set.nr = list.nr
  BY <1>1 DEF set_links
<1>3. set.nr = list.nr
  BY DEF set_links
<1> HIDE DEF set
<1>5. Whole(set, L)
  <2>1. \A o \in L : set.next[o] = list.next[o]
    BY <1>2
  <2> QED BY <2>1 DEF Ring, Whole
<1>4. Ring(set, L)
  BY <1>2, <1>3, <1>5 DEF Ring
<1> QED BY <1>4 DEF set

LEMMA RingDel ==
    ASSUME NEW list \in Links, NEW L \in SUBSET Entry, Ring(list, L), NEW mm \in Obj, mm \in L
    PROVE  Ring(free_mm(list_del(list, mm), mm), L \ {mm})
<1> DEFINE n == list.next[mm]
           q == list.prev[mm]
           less == list_del(list, mm)
<1>1. /\ list.next \in [Entry -> Ptr \cup {InitMm}] /\ list.prev \in [Entry -> Ptr \cup {InitMm}]
      /\ list.nr \in Int /\ mm \in Entry
  BY DEF Links, Entry
<1>2. /\ \A x \in Entry : less.next[x] = IF x = q THEN n ELSE list.next[x]
      /\ \A x \in Entry : less.prev[x] = IF x = n THEN q ELSE list.prev[x]
      /\ less.nr = list.nr - 1
  BY <1>1 DEF list_del
<1>3. less \in Links
  BY <1>1, LinksType DEF Entry
<1>4. Cardinality(L \ {mm}) = Cardinality(L) - 1 /\ Cardinality(L) \in Nat
  <2>1. IsFiniteSet(L)
    BY EntryFinite
  <2> QED BY <2>1, FS_RemoveElement, FS_CardinalityType
<1> HIDE DEF less
<1>5. ASSUME NEW o \in L \ {mm}
      PROVE  /\ less.next[o] \in L \ {mm} /\ less.prev[less.next[o]] = o
             /\ less.prev[o] \in L \ {mm} /\ less.next[less.prev[o]] = o
  <2>1. \A x \in L : /\ x \in Entry /\ list.next[x] \in L /\ list.prev[list.next[x]] = x
                     /\ list.prev[x] \in L /\ list.next[list.prev[x]] = x
    BY DEF Ring
  <2>2. n \in L /\ q \in L /\ list.prev[n] = mm /\ list.next[q] = mm
    BY <2>1
  <2> HIDE DEF n, q
  <2>3. (list.next[o] = mm <=> o = q) /\ (list.prev[o] = mm <=> o = n)
    BY <2>1 DEF n, q
  <2>4. n = mm <=> q = mm
    BY <2>1 DEF n, q
  <2>5. less.next[o] \in L \ {mm} /\ less.prev[o] \in L \ {mm}
    BY <2>1, <2>2, <2>3, <2>4, <1>2
  <2>6. less.prev[less.next[o]] = o /\ less.next[less.prev[o]] = o
    BY <2>1, <2>2, <2>3, <2>4, <2>5, <1>2
  <2> QED BY <2>5, <2>6
<1>6. less.nr = Cardinality(L \ {mm}) - 1
  BY <1>1, <1>2, <1>4 DEF Ring
<1>9. Whole(less, L \ {mm})
  <2> SUFFICES ASSUME NEW part \in SUBSET (L \ {mm}), part # {},
                      \A o \in part : less.next[o] \in part
               PROVE  part = L \ {mm}
    BY DEF Whole
  <2>1. q \in L /\ list.next[q] = mm /\ q \in Entry
    BY DEF Ring
  <2>2. \A o \in L : o # q => less.next[o] = list.next[o]
    BY <1>2
  <2>3. q \in part
    <3> SUFFICES ASSUME q \notin part
                 PROVE  FALSE
      OBVIOUS
    <3>1. \A o \in part : list.next[o] \in part
      BY <2>2
    <3> QED BY <3>1 DEF Ring, Whole
  <2>4. n \in part
    BY <2>1, <2>3, <1>2
  <2> DEFINE all == part \cup {mm}
  <2>5. \A o \in all : list.next[o] \in all
    BY <2>1, <2>2, <2>4
  <2>6. all \in SUBSET L /\ all # {}
    OBVIOUS
  <2>7. all = L
    BY <2>5, <2>6 DEF Ring, Whole
  <2> QED BY <2>7
<1>7. Ring(less, L \ {mm})
  BY <1>5, <1>6, <1>9 DEF Ring
<1>8. Ring(set_links(less, mm, NULL, NULL), L \ {mm})
  BY <1>3, <1>7, RingSet
<1> QED BY <1>8 DEF free_mm, less

\* mmput() of an mm on the list takes it off when nobody else uses it.
LEMMA RingPut ==
    ASSUME NEW list \in Links, NEW L \in SUBSET Entry, Ring(list, L), NEW mm \in Ptr,
           mm # NULL => mm \in L
    PROVE  Ring(mmput(list, mm), IF mm # NULL /\ count["mm"][mm] = 1 THEN L \ {mm} ELSE L)
BY RingDel DEF mmput, Ptr

-----------------------------------------------------------------------------
\* The invariant speaks of Listed alone.
LEMMA ListedRing ==
    /\ MmlistExact <=> half \/ Ring(mmlist, Listed)
    /\ MmlistExact' <=> half' \/ Ring(mmlist', Listed')
    /\ Listed \in SUBSET Entry
    /\ InitMm \in Listed /\ InitMm \notin Obj /\ NULL \notin Listed
BY ResourcesAssumption, Zenon DEF MmlistExact, Ring, Whole, Listed, Entry

\* An mm in use is on the list from the head of dup_mmap() on.
LEMMA HeldIsListed ==
    ASSUME IInv, NEW t \in Task, at[t] # "mm_init", NEW o \in Obj, Holds(t, "mm", o)
    PROVE  o \in Listed /\ count["mm"][o] > 0
<1>1. t \in Holders("mm", o) /\ "mm" \in Kind
  BY DEF Holds, Holders, Kind
<1>2. count["mm"][o] = Cardinality(Holders("mm", o)) /\ IsFiniteSet(Holders("mm", o))
  BY <1>1, ResourcesAssumption, FS_Subset DEF Holders, IInv, ReferencesExact, ObjectsExact
<1>3. count["mm"][o] > 0
  BY <1>1, <1>2, FS_EmptySet, FS_CardinalityType
<1>4. ASSUME NEW c \in Task, at[c] = "mm_init"
      PROVE  newmm[c] # o
  BY <1>4 DEF IInv, Sound, NewMm, Half
<1> QED BY <1>3, <1>4 DEF Listed

\* A step that leaves the list alone and frees and allocates no mm.
LEMMA SameList ==
    ASSUME MmlistExact, mmlist' = mmlist, half' = half,
           \A o \in Obj : count'["mm"][o] > 0 <=> count["mm"][o] > 0,
           \A c \in Task : /\ at'[c] = "mm_init" <=> at[c] = "mm_init"
                           /\ newmm'[c] = newmm[c] \/ at[c] # "mm_init"
    PROVE  MmlistExact'
<1>1. Listed' = Listed
  BY DEF Listed
<1> QED BY <1>1, ListedRing

\* A step that gives back one reference to an mm that is on the list.
LEMMA PutListed ==
    ASSUME IInv, MmlistExact, half' = half, NEW c \in Task, NEW mm \in Ptr,
           mm # NULL => at[c] # "mm_init" /\ Holds(c, "mm", mm),
           mmlist' = mmput(mmlist, mm), count'["mm"] = put(count["mm"], mm),
           \A d \in Task : /\ at'[d] = "mm_init" <=> at[d] = "mm_init"
                           /\ newmm'[d] = newmm[d] \/ at[d] # "mm_init"
    PROVE  MmlistExact'
<1>1. mm # NULL => mm \in Obj /\ mm \in Listed /\ count["mm"][mm] > 0
  BY HeldIsListed DEF Ptr
<1>2. count["mm"] \in [Obj -> Nat] /\ mmlist \in Links
  BY DEF IInv, TypeOK, Kind, Links
<1>3. \A o \in Obj : count'["mm"][o] = IF o = mm THEN count["mm"][o] - 1 ELSE count["mm"][o]
  BY <1>2, GetPut
<1>4. Listed' = IF mm # NULL /\ count["mm"][mm] = 1 THEN Listed \ {mm} ELSE Listed
  <2>1. \A o \in Obj : count'["mm"][o] > 0 <=> count["mm"][o] > 0 /\ ~(o = mm /\ count["mm"][mm] = 1)
    BY <1>2, <1>3
  <2>2. ASSUME NEW o \in Obj
        PROVE  o \in Listed' <=> o \in Listed /\ ~(o = mm /\ count["mm"][mm] = 1)
    <3>1. \A d \in Task : (at'[d] = "mm_init" => newmm'[d] # o) <=> (at[d] = "mm_init" => newmm[d] # o)
      OBVIOUS
    <3> QED BY <3>1, <2>1, ListedRing DEF Listed
  <2>3. mm # NULL => mm \in Obj /\ mm # InitMm
    BY <1>1, ListedRing
  <2>4. \A o : o \in Listed' <=> o \in Listed /\ ~(mm # NULL /\ o = mm /\ count["mm"][mm] = 1)
    BY <2>2, <2>3, ListedRing DEF Listed
  <2> QED BY <2>4
<1>5. CASE half
  BY <1>5, ListedRing
<1>6. CASE Ring(mmlist, Listed)
  <2>1. Ring(mmput(mmlist, mm), IF mm # NULL /\ count["mm"][mm] = 1 THEN Listed \ {mm} ELSE Listed)
    BY <1>1, <1>2, <1>6, RingPut, ListedRing
  <2> QED BY <2>1, <1>4, ListedRing
<1> QED BY <1>5, <1>6, ListedRing

\* copy_mm(): the new mm is not on the list yet, whatever its links say.
LEMMA MmlistCopyMm ==
    ASSUME IInv, MmlistExact, NEW c \in Task, copy_mm(c)
    PROVE  MmlistExact'
<1> DEFINE old == res[parent[c]]["mm"]
<1>1. /\ count \in [Kind -> [Obj -> Nat]] /\ "mm" \in Kind /\ mmlist \in Links /\ old \in Ptr
      /\ at \in [Task -> Copying \cup Undoing \cup {"unused", "alive", "zombie"}]
      /\ newmm \in [Task -> Ptr] /\ at[c] = "mm"
  BY DEF IInv, TypeOK, Kind, Links, copy_mm
<1>2. ASSUME "mm" \in share[c] \/ old = NULL, count' = [count EXCEPT !["mm"] = get(@, old)],
             Goto(c, "namespace"), UNCHANGED <<newmm, mmlist, half>>
      PROVE  MmlistExact'
  <2>1. old # NULL => old \in Obj /\ count["mm"][old] > 0
    <3> SUFFICES ASSUME old # NULL
                 PROVE  old \in Obj /\ count["mm"][old] > 0
      OBVIOUS
    <3>1. parent[c] \in Task /\ at[parent[c]] = "alive" /\ Copied("alive") = Kind
      BY <1>1, CopiedAt DEF IInv, TypeOK, Sound, ParentLives, Alive, Copying
    <3>2. old \in Obj /\ Holds(parent[c], "mm", old)
      BY <3>1, <1>1 DEF Ptr, Holds
    <3> QED BY <3>1, <3>2, HeldIsListed
  <2>2. \A o \in Obj : count'["mm"][o] > 0 <=> count["mm"][o] > 0
    <3>1. count'["mm"] = get(count["mm"], old) /\ count["mm"] \in [Obj -> Int]
      BY <1>1, <1>2
    <3>2. \A o \in Obj : count'["mm"][o] = IF o = old THEN count["mm"][o] + 1 ELSE count["mm"][o]
      BY <1>1, <3>1, GetPut
    <3> HIDE DEF old
    <3>3. \A o \in Obj : count["mm"][o] \in Nat /\ o # NULL
      BY <1>1, ResourcesAssumption
    <3> QED BY <3>2, <3>3, <2>1
  <2> QED BY <1>1, <1>2, <2>2, SameList DEF Goto
<1>3. ASSUME NEW o \in kmem_cache_alloc("mm"), newmm' = [newmm EXCEPT ![c] = o],
             count' = [count EXCEPT !["mm"][o] = 1], mmlist' = copy_links(mmlist, o, old),
             Goto(c, "mm_init"), UNCHANGED half
      PROVE  MmlistExact'
  <2>1. o \in Obj /\ count["mm"][o] = 0 /\ \A t \in Task : ~Holds(t, "mm", o)
    BY <1>1, Allocated
  <2>2. /\ \A x \in Obj : count'["mm"][x] = IF x = o THEN 1 ELSE count["mm"][x]
        /\ at' = [at EXCEPT ![c] = "mm_init"]
    BY <1>1, <1>3, <2>1 DEF Goto
  <2>3. o \notin Listed /\ o # InitMm
    BY <2>1, ListedRing DEF Listed
  <2>4. ASSUME NEW x \in Obj
        PROVE  x \in Listed' <=> x \in Listed
    <3>1. \A d \in Task \ {c} : at'[d] = at[d] /\ newmm'[d] = newmm[d]
      BY <2>2, <1>1, <1>3
    <3>2. at'[c] = "mm_init" /\ newmm'[c] = o
      BY <2>2, <1>1, <1>3
    <3>3. CASE x = o
      BY <3>2, <3>3, <2>3, ListedRing DEF Listed
    <3>4. CASE x # o
      <4>1. \A d \in Task : (at'[d] = "mm_init" => newmm'[d] # x) <=> (at[d] = "mm_init" => newmm[d] # x)
        BY <3>1, <3>2, <3>4, <1>1
      <4> QED BY <4>1, <3>4, <2>2, ListedRing DEF Listed
    <3> QED BY <3>3, <3>4
  <2>5. Listed' = Listed
    BY <2>4 DEF Listed
  <2>6. Ring(mmlist, Listed) => Ring(mmlist', Listed)
    BY <1>1, <1>3, <2>3, RingSet, ListedRing DEF copy_links
  <2> QED BY <2>5, <2>6, <1>3, ListedRing
<1>4. ASSUME Goto(c, bad_fork["mm"]), UNCHANGED <<newmm, count, mmlist, half>>
      PROVE  MmlistExact'
  <2>1. at' = [at EXCEPT ![c] = "exit_sig"]
    BY <1>4 DEF Goto, bad_fork
  <2> QED BY <1>1, <1>4, <2>1, SameList
<1> HIDE DEF old
<1> QED BY <1>2, <1>3, <1>4 DEF copy_mm, old

\* mm_init(): the mm is linked behind its parent's, which is on the list, or
\* freed without having been there.
LEMMA MmlistMmInit ==
    ASSUME IInv, MmlistExact, NEW c \in Task, mm_init(c)
    PROVE  MmlistExact'
<1> DEFINE p == parent[c]
           mm == newmm[c]
           pmm == res[p]["mm"]
<1>1. /\ count \in [Kind -> [Obj -> Nat]] /\ "mm" \in Kind /\ mmlist \in Links
      /\ at \in [Task -> Copying \cup Undoing \cup {"unused", "alive", "zombie"}]
      /\ newmm \in [Task -> Ptr] /\ at[c] = "mm_init" /\ "mm_init" \in Half
      /\ Copied("alive") = Kind /\ Sound(c)
  BY CopiedAt DEF IInv, TypeOK, Kind, Links, mm_init, Half
<1>2. /\ p \in Task /\ at[p] = "alive" /\ mm \in Obj /\ pmm \in Obj
      /\ \A t \in Task \ {c} : ~Holds(t, "mm", mm)
  <2>1. p \in Task /\ res[p] \in [Kind -> Ptr]
    BY DEF IInv, TypeOK
  <2> QED BY <1>1, <2>1 DEF Sound, ParentLives, NewMm, Alive, Ptr, Copying
<1>3. mm \notin Listed /\ pmm \in Listed
  <2>1. Holds(p, "mm", pmm)
    BY <1>1, <1>2 DEF Holds
  <2>2. pmm \in Listed
    BY <2>1, <1>2, HeldIsListed
  <2> QED BY <2>2, <1>1, <1>2, ListedRing DEF Listed
<1>4. \A d \in Task \ {c} : at[d] = "mm_init" => newmm[d] # mm
  BY <1>1, <1>2 DEF Holds
<1> HIDE DEF p, mm, pmm
<1>5. ASSUME mmlist' = list_add(mmlist, mm, pmm), Goto(c, "dup_mmap"), UNCHANGED <<newmm, count, half>>
      PROVE  MmlistExact'
  <2>1. at' = [at EXCEPT ![c] = "dup_mmap"]
    BY <1>5 DEF Goto
  <2>2. count["mm"][mm] > 0
    <3>1. c \in Holders("mm", mm)
      BY <1>2 DEF Holders, mm
    <3>2. count["mm"][mm] = Cardinality(Holders("mm", mm)) /\ IsFiniteSet(Holders("mm", mm))
      BY <1>1, <1>2, ResourcesAssumption, FS_Subset DEF Holders, IInv, ReferencesExact, ObjectsExact
    <3> QED BY <3>1, <3>2, FS_EmptySet, FS_CardinalityType
  <2>3. ASSUME NEW x \in Obj
        PROVE  x \in Listed' <=> x \in Listed \/ x = mm
    <3>1. \A d \in Task : at'[d] = "mm_init" <=> at[d] = "mm_init" /\ d # c
      BY <2>1, <1>1
    <3>2. CASE x = mm
      BY <3>1, <3>2, <2>2, <1>4, <1>5 DEF Listed
    <3>3. CASE x # mm
      <4>1. \A d \in Task : (at'[d] = "mm_init" => newmm'[d] # x) <=> (at[d] = "mm_init" => newmm[d] # x)
        BY <3>1, <3>3, <1>5 DEF mm
      <4> QED BY <4>1, <3>3, <1>5 DEF Listed
    <3> QED BY <3>2, <3>3
  <2>4. Listed' = Listed \cup {mm}
    BY <2>3, <1>2, ListedRing DEF Listed
  <2>5. Ring(mmlist, Listed) => Ring(mmlist', Listed \cup {mm})
    BY <1>1, <1>2, <1>3, <1>5, RingAdd, ListedRing
  <2> QED BY <2>4, <2>5, <1>5, ListedRing
<1>6. ASSUME drop_newmm(c), mmlist' = free_mm(mmlist, mm), UNCHANGED half
      PROVE  MmlistExact'
  <2>1. /\ at' = [at EXCEPT ![c] = "exit_sig"] /\ newmm' = [newmm EXCEPT ![c] = NULL]
        /\ count' = [count EXCEPT !["mm"] = put(@, mm)]
    BY <1>6 DEF drop_newmm, Goto, bad_fork, mm
  <2>2. count["mm"][mm] = 1
    <3>1. Holders("mm", mm) = {c}
      BY <1>2 DEF Holders, Holds, mm
    <3> QED BY <3>1, <1>1, <1>2, FS_Singleton DEF IInv, ReferencesExact, ObjectsExact
  <2>3. \A o \in Obj : count'["mm"][o] = IF o = mm THEN 0 ELSE count["mm"][o]
    <3>1. count'["mm"] = put(count["mm"], mm) /\ count["mm"] \in [Obj -> Int] /\ mm \in Ptr
      BY <1>1, <1>2, <2>1 DEF Ptr
    <3> QED BY <3>1, <2>2, GetPut
  <2>4. ASSUME NEW x \in Obj
        PROVE  x \in Listed' <=> x \in Listed
    <3>1. \A d \in Task : at'[d] = "mm_init" <=> at[d] = "mm_init" /\ d # c
      BY <2>1, <1>1
    <3>2. CASE x = mm
      BY <3>2, <2>3, <1>2, <1>3, ListedRing DEF Listed
    <3>3. CASE x # mm
      <4>1. \A d \in Task : (at'[d] = "mm_init" => newmm'[d] # x) <=> (at[d] = "mm_init" => newmm[d] # x)
        BY <3>1, <3>3, <2>1, <1>1 DEF mm
      <4> QED BY <4>1, <3>3, <2>3 DEF Listed
    <3> QED BY <3>2, <3>3
  <2>5. Listed' = Listed
    BY <2>4 DEF Listed
  <2>6. Ring(mmlist, Listed) => Ring(mmlist', Listed)
    BY <1>1, <1>3, <1>6, RingSet, ListedRing DEF free_mm
  <2> QED BY <2>5, <2>6, <1>6, ListedRing
<1>7. ASSUME half' = TRUE
      PROVE  MmlistExact'
  BY <1>7, ListedRing
<1> QED BY <1>5, <1>6, <1>7 DEF mm_init, p, mm, pmm

\* The rest of copy_mm().
LEMMA MmlistDupMmap ==
    ASSUME IInv, MmlistExact, NEW c \in Task, dup_mmap(c)
    PROVE  MmlistExact'
<1>1. /\ at \in [Task -> Copying \cup Undoing \cup {"unused", "alive", "zombie"}]
      /\ newmm \in [Task -> Ptr] /\ at[c] = "dup_mmap" /\ newmm[c] \in Ptr
      /\ newmm[c] # NULL => Holds(c, "mm", newmm[c])
      /\ count \in [Kind -> [Obj -> Nat]] /\ "mm" \in Kind
  BY DEF IInv, TypeOK, dup_mmap, Holds, Kind
<1>2. CASE Goto(c, "namespace") /\ newmm' = [newmm EXCEPT ![c] = NULL] /\ UNCHANGED <<count, mmlist, half>>
  BY <1>1, <1>2, SameList DEF Goto
<1>3. CASE mmlist' = mmput(mmlist, newmm[c]) /\ drop_newmm(c) /\ UNCHANGED half
  <2>1. /\ at' = [at EXCEPT ![c] = "exit_sig"] /\ newmm' = [newmm EXCEPT ![c] = NULL]
        /\ count'["mm"] = put(count["mm"], newmm[c])
    BY <1>1, <1>3 DEF drop_newmm, Goto, bad_fork
  <2> QED BY <1>1, <1>3, <2>1, PutListed
<1> QED BY <1>2, <1>3 DEF dup_mmap

\* exit_mm() of a child that is not to be.
LEMMA MmlistBadForkExit ==
    ASSUME IInv, MmlistExact, NEW c \in Task, bad_fork_exit(c)
    PROVE  MmlistExact'
<1> DEFINE k == exiting[at[c]]
<1>1. /\ at \in [Task -> Copying \cup Undoing \cup {"unused", "alive", "zombie"}]
      /\ res \in [Task -> [Kind -> Ptr]]
      /\ count \in [Kind -> [Obj -> Nat]] /\ "mm" \in Kind
  BY DEF IInv, TypeOK, Kind
<1>2. /\ at[c] \in {"exit_namespace", "exit_mm", "exit_sig", "exit_fs", "exit_files"}
      /\ k \in Kind
      /\ k = "mm" => at[c] = "exit_mm"
      /\ next_exit[at[c]] # "mm_init" /\ at[c] # "mm_init"
  BY DEF bad_fork_exit, exiting, next_exit, Kind
<1>3. /\ count' = [count EXCEPT ![k] = put(@, res[c][k])]
      /\ mmlist' = IF k = "mm" THEN mmput(mmlist, res[c][k]) ELSE mmlist
      /\ at' = [at EXCEPT ![c] = next_exit[at[c]]] /\ newmm' = newmm /\ half' = half
  BY DEF bad_fork_exit, Goto
<1> HIDE DEF k
<1>4. CASE k = "mm"
  <2>1. Holds(c, "mm", res[c]["mm"])
    BY <1>2, <1>4, CopiedAt DEF Holds
  <2>2. count'["mm"] = put(count["mm"], res[c]["mm"]) /\ res[c]["mm"] \in Ptr
    BY <1>1, <1>3, <1>4
  <2> QED BY <2>1, <2>2, <1>1, <1>2, <1>3, <1>4, PutListed
<1>5. CASE k # "mm"
  BY <1>1, <1>2, <1>3, <1>5, SameList
<1> QED BY <1>4, <1>5

\* exec(): the new mm is linked, and the old one put.
LEMMA MmlistExec ==
    ASSUME IInv, MmlistExact, NEW t \in Task, exec(t)
    PROVE  MmlistExact'
<1> DEFINE mm == res[t]["mm"]
<1>1. /\ res \in [Task -> [Kind -> Ptr]] /\ mmlist \in Links /\ mm \in Ptr
      /\ count \in [Kind -> [Obj -> Nat]] /\ "mm" \in Kind
      /\ at[t] = "alive" /\ Copied("alive") = Kind
  BY CopiedAt DEF IInv, TypeOK, Kind, Links, exec, Alive
<1>2. PICK o \in kmem_cache_alloc("mm") :
        /\ count' = [count EXCEPT !["mm"] = [put(@, mm) EXCEPT ![o] = 1]]
        /\ mmlist' = mmput(list_add(mmlist, o, InitMm), mm)
  BY DEF exec
<1>3. at' = at /\ newmm' = newmm /\ half' = half
  BY DEF exec
<1>4. o \in Obj /\ count["mm"][o] = 0 /\ \A u \in Task : ~Holds(u, "mm", o)
  BY <1>1, Allocated
<1>5. mm # NULL => mm \in Obj /\ mm \in Listed /\ count["mm"][mm] > 0
  BY <1>1, HeldIsListed DEF Ptr, Holds
<1> HIDE DEF mm
<1>6. o \notin Listed /\ o # mm /\ o # InitMm
  BY <1>4, <1>5, ListedRing, ResourcesAssumption DEF Listed
<1>7. \A x \in Obj : count'["mm"][x] = IF x = o THEN 1 ELSE IF x = mm THEN count["mm"][x] - 1
                                       ELSE count["mm"][x]
  <2>1. count["mm"] \in [Obj -> Int]
    BY <1>1
  <2>2. \A x \in Obj : put(count["mm"], mm)[x] = IF x = mm THEN count["mm"][x] - 1 ELSE count["mm"][x]
    BY <2>1, <1>1, GetPut
  <2>3. put(count["mm"], mm) \in [Obj -> Int]
    BY <2>1, <1>1, GetPut
  <2>4. count'["mm"] = [put(count["mm"], mm) EXCEPT ![o] = 1]
    BY <1>1, <1>2
  <2> QED BY <2>2, <2>3, <2>4
<1>8. \A c \in Task : at[c] = "mm_init" => newmm[c] # o
  BY <1>4 DEF Holds
<1>9. \A x : x \in Listed' <=> (x \in Listed \/ x = o) /\ ~(mm # NULL /\ x = mm /\ count["mm"][mm] = 1)
  <2>1. \A x \in Obj : count'["mm"][x] > 0 <=>
                         (count["mm"][x] > 0 \/ x = o) /\ ~(x = mm /\ count["mm"][mm] = 1)
    BY <1>1, <1>6, <1>7
  <2>2. \A x \in Obj : x \in Listed' <=> (x \in Listed \/ x = o) /\ ~(x = mm /\ count["mm"][mm] = 1)
    BY <2>1, <1>3, <1>8, ListedRing DEF Listed
  <2>3. mm # NULL => mm \in Obj /\ mm # InitMm
    BY <1>5, ListedRing
  <2>4. \A x : x \in Obj \/ x = InitMm \/ (x \notin Listed /\ x \notin Listed' /\ x # o)
    BY <1>4 DEF Listed
  <2>5. InitMm \in Listed /\ InitMm \in Listed'
    BY DEF Listed
  <2>6. ASSUME NEW x \in Obj
        PROVE  x \in Listed' <=> (x \in Listed \/ x = o) /\ ~(mm # NULL /\ x = mm /\ count["mm"][mm] = 1)
    BY <2>2, ResourcesAssumption
  <2>7. InitMm \in Listed' <=> (InitMm \in Listed \/ InitMm = o)
                                /\ ~(mm # NULL /\ InitMm = mm /\ count["mm"][mm] = 1)
    BY <2>3, <2>5
  <2> QED BY <2>4, <2>6, <2>7, Zenon
<1>10. Listed' = IF mm # NULL /\ count["mm"][mm] = 1 THEN (Listed \cup {o}) \ {mm} ELSE Listed \cup {o}
  BY <1>9
<1>11. CASE half
  BY <1>3, <1>11, ListedRing
<1>12. CASE Ring(mmlist, Listed)
  <2>1. Ring(list_add(mmlist, o, InitMm), Listed \cup {o}) /\ list_add(mmlist, o, InitMm) \in Links
    BY <1>1, <1>4, <1>6, <1>12, RingAdd, ListedRing
  <2>2. Listed \cup {o} \in SUBSET Entry
    BY <1>4, ListedRing DEF Entry
  <2>3. Ring(mmput(list_add(mmlist, o, InitMm), mm),
             IF mm # NULL /\ count["mm"][mm] = 1 THEN (Listed \cup {o}) \ {mm} ELSE Listed \cup {o})
    BY <2>1, <2>2, <1>1, <1>5, RingPut
  <2> QED BY <2>3, <1>2, <1>10, ListedRing
<1> QED BY <1>11, <1>12, ListedRing

\* exit_mm() of a task that exits.
LEMMA MmlistDoExit ==
    ASSUME IInv, MmlistExact, NEW t \in Task, do_exit(t)
    PROVE  MmlistExact'
<1>1. /\ res \in [Task -> [Kind -> Ptr]] /\ at[t] = "alive" /\ Copied("alive") = Kind
      /\ "mm" \in Kind /\ res[t]["mm"] \in Ptr
      /\ at \in [Task -> Copying \cup Undoing \cup {"unused", "alive", "zombie"}]
  BY CopiedAt DEF IInv, TypeOK, do_exit, Alive, Kind
<1>2. Holds(t, "mm", res[t]["mm"])
  BY <1>1 DEF Holds
<1>3. /\ at' = [at EXCEPT ![t] = "zombie"] /\ newmm' = newmm /\ half' = half
      /\ mmlist' = mmput(mmlist, res[t]["mm"]) /\ count'["mm"] = put(count["mm"], res[t]["mm"])
  BY <1>1 DEF do_exit
<1> QED BY <1>1, <1>2, <1>3, PutListed

\* The other steps have nothing to do with address spaces.
LEMMA MmlistElsewhere ==
    ASSUME IInv, MmlistExact, NEW c \in Task,
           \/ \E t \in Task, S \in Sharing : do_fork(t, c, S)
           \/ \E k \in DOMAIN after : copy(c, k)
           \/ thread_fails(c) \/ SET_LINKS(c) \/ bad_fork_cleanup(c) \/ release_task(c)
    PROVE  MmlistExact'
<1>1. /\ at \in [Task -> Copying \cup Undoing \cup {"unused", "alive", "zombie"}]
      /\ count \in [Kind -> [Obj -> Nat]] /\ "mm" \in Kind
  BY DEF IInv, TypeOK, Kind
<1>2. /\ mmlist' = mmlist /\ half' = half /\ newmm' = newmm
  BY DEF do_fork, copy, thread_fails, SET_LINKS, bad_fork_cleanup, release_task
<1>3. count'["mm"] = count["mm"]
  <2>1. ASSUME NEW k \in DOMAIN after, copy(c, k)
        PROVE  count'["mm"] = count["mm"]
    BY <1>1, <2>1 DEF copy, after
  <2>2. CASE UNCHANGED count
    BY <2>2
  <2> QED BY <2>1, <2>2 DEF do_fork, thread_fails, SET_LINKS, bad_fork_cleanup, release_task
<1>4. at[c] # "mm_init" /\ \E label : at' = [at EXCEPT ![c] = label] /\ label # "mm_init"
  <2>1. ASSUME NEW t \in Task, NEW S \in Sharing, do_fork(t, c, S)
        PROVE  at[c] # "mm_init" /\ \E label : at' = [at EXCEPT ![c] = label] /\ label # "mm_init"
    <3>1. \A capable \in BOOLEAN : \A label \in first_label(S, capable) : label # "mm_init"
      BY DEF first_label
    <3> QED BY <2>1, <3>1 DEF do_fork
  <2>2. ASSUME NEW k \in DOMAIN after, copy(c, k)
        PROVE  at[c] # "mm_init" /\ \E label : at' = [at EXCEPT ![c] = label] /\ label # "mm_init"
    <3>1. k \in {"files", "fs", "sig", "namespace"} /\ after[k] # "mm_init" /\ bad_fork[k] # "mm_init"
      BY <2>2 DEF after, bad_fork
    <3> QED BY <2>2, <3>1 DEF copy, Goto
  <2>3. CASE thread_fails(c) \/ SET_LINKS(c) \/ bad_fork_cleanup(c) \/ release_task(c)
    BY <2>3 DEF thread_fails, Goto, bad_fork, SET_LINKS, bad_fork_cleanup, release_task
  <2> QED BY <2>1, <2>2, <2>3
<1> QED BY <1>1, <1>2, <1>3, <1>4, SameList

LEMMA MmlistInductive == IInv /\ MmlistExact /\ [Next]_vars => MmlistExact'
<1> SUFFICES ASSUME IInv, MmlistExact, [Next]_vars
             PROVE  MmlistExact'
  OBVIOUS
<1>1. CASE UNCHANGED vars
  BY <1>1, SameList DEF vars
<1>2. CASE Next
  <2>1. ASSUME NEW c \in Task,
               \/ copy_mm(c) \/ mm_init(c) \/ dup_mmap(c)
               \/ bad_fork_exit(c) \/ exec(c) \/ do_exit(c)
        PROVE  MmlistExact'
    BY <2>1, MmlistCopyMm, MmlistMmInit, MmlistDupMmap, MmlistBadForkExit, MmlistExec, MmlistDoExit
  <2> QED BY <1>2, <2>1, MmlistElsewhere DEF Next
<1> QED BY <1>1, <1>2

(***************************************************************************)
(* The list of mms is a ring of exactly the address spaces in use and      *)
(* mmlist_nr their number, wherever any number of do_fork()s are blocked   *)
(* and whichever copies fail: copy_mm() links an mm next to one that is on *)
(* the list and takes nobody off it twice, unless init_new_context() fails.*)
(***************************************************************************)
THEOREM MmlistCorrect == Spec => []MmlistExact
<1>1. Init => MmlistExact
  <2> SUFFICES ASSUME Init
               PROVE  MmlistExact
    OBVIOUS
  <2>1. \A o \in Obj : count["mm"][o] = 0
    BY DEF Init, Kind
  <2>2. Listed = {InitMm}
    BY <2>1 DEF Listed
  <2>3. mmlist.nr = 0 /\ mmlist.next[InitMm] = InitMm /\ mmlist.prev[InitMm] = InitMm
    BY DEF Init
  <2>4. \A part \in SUBSET Listed : part # {} => part = Listed
    BY <2>2
  <2>5. mmlist.nr = Cardinality(Listed) - 1
    BY <2>2, <2>3, FS_Singleton
  <2>6. \A o \in Listed : /\ mmlist.next[o] \in Listed /\ mmlist.prev[mmlist.next[o]] = o
                          /\ mmlist.prev[o] \in Listed /\ mmlist.next[mmlist.prev[o]] = o
    BY <2>2, <2>3
  <2> HIDE DEF Listed
  <2> QED BY <2>4, <2>5, <2>6 DEF MmlistExact
<1> QED BY <1>1, MmlistInductive, Invariant, PTL DEF Spec

-----------------------------------------------------------------------------
(* The limits.                                                             *)

\* A step within a do_fork() shows in its child alone.
Within(c) ==
    \/ \E k \in DOMAIN after : copy(c, k)
    \/ copy_mm(c) \/ mm_init(c) \/ dup_mmap(c) \/ thread_fails(c)
    \/ bad_fork_exit(c) \/ bad_fork_cleanup(c)

\* The tasks that are exempt are charged, and Subject is the number of the others.
Subject == processes - Cardinality(exempt)

\* The charge of c is given back, or nothing is charged.
Discharges(c) ==
    \/ processes' = processes /\ exempt' = exempt
    \/ processes' = processes /\ exempt' = exempt \ {c} /\ c \notin exempt
    \/ processes' = processes - 1 /\ exempt' = exempt \ {c}

LEMMA SubjectFalls ==
    ASSUME TypeOK, NEW c \in Task, Discharges(c)
    PROVE  Subject' \in Int /\ Subject' <= Subject
<1>1. IsFiniteSet(exempt) /\ processes \in Nat
  BY ResourcesAssumption, FS_Subset DEF TypeOK
<1>2. Cardinality(exempt) \in Nat
  BY <1>1, FS_CardinalityType
<1>3. Cardinality(exempt \ {c}) = IF c \in exempt THEN Cardinality(exempt) - 1
                                                  ELSE Cardinality(exempt)
  BY <1>1, FS_RemoveElement
<1> QED BY <1>1, <1>2, <1>3 DEF Discharges, Subject

\* Within a do_fork() no task appears and nothing is charged.
LEMMA WithinFork ==
    ASSUME TypeOK, NEW c \in Task, Within(c)
    PROVE  /\ at[c] # "alive" /\ at'[c] # "alive"
           /\ \A t \in Task \ {c} : at'[t] = at[t] /\ res'[t] = res[t]
           /\ at'[c] \in Copying => at[c] \in Copying
           /\ (exempt \subseteq Charged => Discharges(c)) /\ UNCHANGED <<nr_threads, peak>>
<1> DEFINE OnlyAt(label) == at' = [at EXCEPT ![c] = label]
           OnlyRes == \A t \in Task \ {c} : res'[t] = res[t]
           Counters == (exempt \subseteq Charged => Discharges(c)) /\ UNCHANGED <<nr_threads, peak>>
<1>1. ASSUME NEW label, OnlyAt(label), OnlyRes, Counters, at[c] # "alive", label # "alive",
             label \in Copying => at[c] \in Copying
      PROVE  /\ at[c] # "alive" /\ at'[c] # "alive"
             /\ \A t \in Task \ {c} : at'[t] = at[t] /\ res'[t] = res[t]
             /\ at'[c] \in Copying => at[c] \in Copying
             /\ (exempt \subseteq Charged => Discharges(c)) /\ UNCHANGED <<nr_threads, peak>>
  BY <1>1 DEF TypeOK
<1>2. ASSUME NEW label, Goto(c, label)
      PROVE  OnlyAt(label) /\ Counters
  BY <1>2 DEF Goto, Discharges
<1>3. ASSUME NEW k \in DOMAIN after, copy(c, k)
      PROVE  \E label : /\ OnlyAt(label) /\ OnlyRes /\ Counters
                        /\ at[c] \in Copying /\ label # "alive"
  <2>1. at[c] = k /\ k \in {"files", "fs", "sig", "namespace"} /\ k \in Copying
    BY <1>3 DEF copy, after, Copying
  <2>2. after[k] # "alive" /\ bad_fork[k] # "alive"
    BY <2>1 DEF after, bad_fork
  <2>3. OnlyRes
    BY <1>3 DEF copy, TypeOK
  <2>4. Goto(c, after[k]) \/ Goto(c, bad_fork[k])
    BY <1>3 DEF copy
  <2> HIDE DEF OnlyAt, OnlyRes, Counters
  <2> QED BY <1>2, <2>1, <2>2, <2>3, <2>4
<1>4. ASSUME copy_mm(c) \/ mm_init(c) \/ dup_mmap(c) \/ thread_fails(c)
      PROVE  \E label : /\ OnlyAt(label) /\ OnlyRes /\ Counters
                        /\ at[c] \in Copying /\ label # "alive"
  <2>1. at[c] \in {"mm", "mm_init", "dup_mmap", "thread"}
    BY <1>4 DEF copy_mm, mm_init, dup_mmap, thread_fails
  <2>2. at[c] \in Copying /\ bad_fork["mm"] # "alive" /\ bad_fork["thread"] # "alive"
    BY <2>1 DEF Copying, bad_fork
  <2>3. OnlyRes
    BY <1>4 DEF copy_mm, mm_init, dup_mmap, thread_fails, drop_newmm, TypeOK
  <2>4. \E label \in {"namespace", "mm_init", "dup_mmap", bad_fork["mm"], bad_fork["thread"]} :
            Goto(c, label)
    BY <1>4 DEF copy_mm, mm_init, dup_mmap, thread_fails, drop_newmm
  <2> HIDE DEF OnlyAt, OnlyRes, Counters
  <2> QED BY <1>2, <2>2, <2>3, <2>4
<1>5. ASSUME bad_fork_exit(c)
      PROVE  \E label : /\ OnlyAt(label) /\ OnlyRes /\ Counters
                        /\ at[c] # "alive" /\ label # "alive" /\ label \notin Copying
  <2>1. at[c] \in {"exit_namespace", "exit_mm", "exit_sig", "exit_fs", "exit_files"}
    BY <1>5 DEF bad_fork_exit, exiting
  <2>2. next_exit[at[c]] \in {"exit_mm", "exit_sig", "exit_fs", "exit_files", "cleanup"}
    BY <2>1 DEF next_exit
  <2>3. OnlyRes /\ Goto(c, next_exit[at[c]])
    BY <1>5 DEF bad_fork_exit, TypeOK
  <2>4. next_exit[at[c]] # "alive" /\ next_exit[at[c]] \notin Copying /\ at[c] # "alive"
    BY <2>1, <2>2 DEF Copying
  <2> HIDE DEF OnlyAt, OnlyRes, Counters
  <2> QED BY <1>2, <2>3, <2>4
<1>6. ASSUME bad_fork_cleanup(c)
      PROVE  /\ OnlyAt("unused") /\ OnlyRes /\ Counters
             /\ at[c] # "alive" /\ "unused" \notin Copying
  BY <1>6 DEF bad_fork_cleanup, TypeOK, Copying, Charged, Discharges
<1>7. \A label \in Copying : label # "alive"
  BY DEF Copying
<1> HIDE DEF OnlyAt, OnlyRes, Counters
<1>8. \E label : /\ OnlyAt(label) /\ OnlyRes /\ Counters /\ at[c] # "alive" /\ label # "alive"
                 /\ label \in Copying => at[c] \in Copying
  BY <1>3, <1>4, <1>5, <1>6, <1>7 DEF Within
<1> QED BY <1>1, <1>8

\* A step of one task keeps the limits when it adds no charge, and no thread
\* but the one that it was copying.
LEMMA LimitsStep ==
    ASSUME TypeOK, TypeOK', Limits, NEW c \in Task, \A t \in Task \ {c} : at'[t] = at[t],
           Discharges(c), peak' = peak, at'[c] \in Copying => at[c] \in Copying,
           nr_threads' <= nr_threads \/ ( /\ nr_threads' = nr_threads + 1
                                          /\ at[c] \in Copying /\ at'[c] \notin Copying )
    PROVE  Limits'
<1>1. IsFiniteSet(InFlight)
  BY ResourcesAssumption, FS_Subset DEF InFlight
<1>2. \A t : t # c => (t \in InFlight <=> t \in InFlight')
  BY DEF InFlight
<1>3. Cardinality(InFlight') = IF c \in InFlight' /\ c \notin InFlight THEN Cardinality(InFlight) + 1
                 ELSE IF c \in InFlight /\ c \notin InFlight' THEN Cardinality(InFlight) - 1
                 ELSE Cardinality(InFlight)
  BY <1>1, <1>2, OneMore
<1>4. (c \in InFlight <=> at[c] \in Copying) /\ (c \in InFlight' <=> at'[c] \in Copying)
  BY DEF InFlight
<1>5. nr_threads' + Cardinality(InFlight') <= nr_threads + Cardinality(InFlight)
  <2>1. Cardinality(InFlight) \in Nat /\ nr_threads \in Nat /\ nr_threads' \in Nat
    BY <1>1, FS_CardinalityType DEF TypeOK
  <2> QED BY <2>1, <1>3, <1>4
<1>6. /\ Cardinality(InFlight) \in Nat /\ Cardinality(InFlight') \in Nat
      /\ IsFiniteSet(InFlight')
  <2>1. IsFiniteSet(InFlight')
    BY ResourcesAssumption, FS_Subset DEF InFlight
  <2> QED BY <1>1, <2>1, FS_CardinalityType
<1>7. Subject' \in Int /\ Subject' <= Subject /\ Subject \in Int
  <2>1. IsFiniteSet(exempt)
    BY ResourcesAssumption, FS_Subset DEF TypeOK
  <2> QED BY <2>1, SubjectFalls, FS_CardinalityType DEF Subject, TypeOK
<1>8. Subject' <= larger(RLIMIT_NPROC, 1)
  BY <1>7, ResourcesAssumption DEF Limits, larger, Subject
<1> QED BY <1>5, <1>6, <1>8, ResourcesAssumption DEF Limits, larger, TypeOK, Subject

\* Who is exempt is charged.
LEMMA ExemptCharged ==
    TypeOK /\ exempt \subseteq Charged /\ [Next]_vars => (exempt \subseteq Charged)'
<1> SUFFICES ASSUME TypeOK, exempt \subseteq Charged, [Next]_vars,
                    NEW q \in exempt'
             PROVE  q \in Task /\ at'[q] \notin {"unused", "free"}
  BY DEF Charged
<1>1. CASE UNCHANGED vars
  BY <1>1 DEF vars, Charged
<1>2. ASSUME NEW t \in Task, NEW c \in Task, NEW S \in Sharing, do_fork(t, c, S)
      PROVE  q \in Task /\ at'[q] \notin {"unused", "free"}
  <2>1. PICK capable, label :
          /\ label \in first_label(S, capable) /\ capable \in BOOLEAN
          /\ at' = [at EXCEPT ![c] = label]
          /\ exempt' = IF capable /\ processes >= RLIMIT_NPROC THEN exempt \cup {c} ELSE exempt
    BY <1>2 DEF do_fork
  <2>2. at[c] = "unused" /\ c \notin exempt
    BY <1>2 DEF do_fork, Charged
  <2>3. capable => label \in {"cleanup_count", "files", "cleanup"}
    BY <2>1 DEF first_label
  <2> QED BY <2>1, <2>2, <2>3 DEF Charged, TypeOK
<1>3. ASSUME NEW c \in Task, Within(c)
      PROVE  q \in Task /\ at'[q] \notin {"unused", "free"}
  <2>1. \/ exempt' = exempt \ {c}
        \/ exempt' = exempt /\ ~bad_fork_cleanup(c)
    BY <1>3 DEF Within, bad_fork_cleanup, copy, copy_mm, mm_init, dup_mmap, thread_fails,
                bad_fork_exit, drop_newmm, Goto
  <2>2. \A t \in Task \ {c} : at'[t] = at[t]
    BY <1>3, WithinFork
  <2>3. CASE q # c
    BY <2>1, <2>2, <2>3 DEF Charged
  <2>4. CASE q = c
    <3> DEFINE charged == (Copying \cup Undoing) \ {"free"}
    <3>1. ASSUME NEW k \in DOMAIN after, copy(c, k)
          PROVE  \E label \in charged : Goto(c, label)
      <4>1. k \in {"files", "fs", "sig", "namespace"}
        BY DEF after
      <4>2. after[k] \in charged /\ bad_fork[k] \in charged
        BY <4>1 DEF after, bad_fork, Copying, Undoing
      <4> HIDE DEF charged
      <4> QED BY <3>1, <4>2 DEF copy
    <3>2. ASSUME copy_mm(c) \/ mm_init(c) \/ dup_mmap(c) \/ thread_fails(c)
          PROVE  \E label \in charged : Goto(c, label)
      <4>1. /\ bad_fork["mm"] \in charged /\ bad_fork["thread"] \in charged
            /\ {"namespace", "mm_init", "dup_mmap"} \subseteq charged
        BY DEF bad_fork, Copying, Undoing
      <4> HIDE DEF charged
      <4> QED BY <3>2, <4>1 DEF copy_mm, mm_init, dup_mmap, thread_fails, drop_newmm
    <3>3. ASSUME bad_fork_exit(c)
          PROVE  \E label \in charged : Goto(c, label)
      <4>1. at[c] \in {"exit_namespace", "exit_mm", "exit_sig", "exit_fs", "exit_files"}
        BY <3>3 DEF bad_fork_exit, exiting
      <4>2. next_exit[at[c]] \in charged
        BY <4>1 DEF next_exit, Undoing
      <4> HIDE DEF charged
      <4> QED BY <3>3, <4>2 DEF bad_fork_exit
    <3>4. \E label \in charged : Goto(c, label)
      BY <1>3, <2>1, <2>4, <3>1, <3>2, <3>3 DEF Within
    <3> QED BY <2>1, <2>4, <3>4 DEF Goto, Charged, TypeOK, Copying, Undoing
  <2> QED BY <2>3, <2>4
<1>4. ASSUME NEW c \in Task, SET_LINKS(c) \/ exec(c) \/ do_exit(c)
      PROVE  q \in Task /\ at'[q] \notin {"unused", "free"}
  BY <1>4 DEF SET_LINKS, exec, do_exit, Charged, TypeOK
<1>5. ASSUME NEW c \in Task, release_task(c)
      PROVE  q \in Task /\ at'[q] \notin {"unused", "free"}
  BY <1>5 DEF release_task, Charged, TypeOK
<1> QED BY <1>1, <1>2, <1>3, <1>4, <1>5 DEF Next, Within

\* Every step keeps the limits,
LEMMA LimitsInductive ==
    TypeOK /\ TypeOK' /\ exempt \subseteq Charged /\ Limits /\ [Next]_vars => Limits'
<1> SUFFICES ASSUME TypeOK, TypeOK', exempt \subseteq Charged, Limits, [Next]_vars
             PROVE  Limits'
  OBVIOUS
<1>1. CASE UNCHANGED vars
  BY <1>1 DEF vars, Limits, InFlight
<1>2. ASSUME NEW t \in Task, NEW c \in Task, NEW S \in Sharing, do_fork(t, c, S)
      PROVE  Limits'
  <2>1. PICK capable, label :
          /\ label \in first_label(S, capable) /\ capable \in BOOLEAN
          /\ at' = [at EXCEPT ![c] = label]
          /\ processes' = IF label = "free" THEN processes ELSE processes + 1
          /\ exempt' = IF capable /\ processes >= RLIMIT_NPROC THEN exempt \cup {c} ELSE exempt
    BY <1>2 DEF do_fork
  <2>2. /\ label \in {"free", "cleanup_count", "files", "cleanup"}
        /\ label # "free" => capable \/ processes < RLIMIT_NPROC
        /\ label = "files" => nr_threads < max_threads
    BY <2>1, ResourcesAssumption DEF first_label, TypeOK
  <2>3. /\ at[c] = "unused" /\ nr_threads' = nr_threads
        /\ peak' = larger(peak, Cardinality(InFlight'))
    BY <1>2 DEF do_fork
  <2>4. IsFiniteSet(InFlight) /\ IsFiniteSet(InFlight')
    BY ResourcesAssumption, FS_Subset DEF InFlight
  <2>5. Cardinality(InFlight) \in Nat /\ Cardinality(InFlight') \in Nat
    BY <2>4, FS_CardinalityType
  <2>6. label # "files" => InFlight' = InFlight
    BY <2>1, <2>2, <2>3 DEF InFlight, Copying, TypeOK
  <2>7. processes' - Cardinality(exempt') <= larger(RLIMIT_NPROC, 1)
    <3>1. IsFiniteSet(exempt) /\ c \notin exempt
      BY <2>3, ResourcesAssumption, FS_Subset DEF TypeOK, Charged
    <3>2. /\ Cardinality(exempt) \in Nat
          /\ Cardinality(exempt \cup {c}) = Cardinality(exempt) + 1
      BY <3>1, FS_CardinalityType, FS_AddElement
    <3> QED BY <2>1, <2>2, <3>2, ResourcesAssumption DEF Limits, larger, TypeOK
  <2>8. nr_threads' + Cardinality(InFlight') <= max_threads + larger(peak', 1) - 1
    <3>1. CASE label = "files"
      BY <3>1, <2>2, <2>3, <2>5, ResourcesAssumption DEF larger, TypeOK
    <3>2. CASE label # "files"
      BY <3>2, <2>3, <2>5, <2>6, ResourcesAssumption DEF Limits, larger, TypeOK
    <3> QED BY <3>1, <3>2
  <2> QED BY <2>7, <2>8 DEF Limits
<1>3. ASSUME NEW c \in Task, Within(c)
      PROVE  Limits'
  <2>1. /\ \A t \in Task \ {c} : at'[t] = at[t]
        /\ at'[c] \in Copying => at[c] \in Copying
        /\ Discharges(c) /\ nr_threads' = nr_threads /\ peak' = peak
    BY <1>3, WithinFork
  <2>2. nr_threads' <= nr_threads
    BY <2>1 DEF TypeOK
  <2> QED BY <2>1, <2>2, LimitsStep
<1>4. ASSUME NEW c \in Task, SET_LINKS(c)
      PROVE  Limits'
  <2>1. /\ at[c] \in Copying /\ at'[c] \notin Copying /\ \A t \in Task \ {c} : at'[t] = at[t]
        /\ nr_threads' = nr_threads + 1 /\ Discharges(c) /\ peak' = peak
    BY <1>4 DEF SET_LINKS, TypeOK, Copying, Discharges
  <2> QED BY <2>1, LimitsStep
<1>5. ASSUME NEW c \in Task, exec(c) \/ do_exit(c) \/ release_task(c)
      PROVE  Limits'
  <2>1. /\ \A t \in Task \ {c} : at'[t] = at[t]
        /\ at'[c] \in Copying => at[c] \in Copying
        /\ nr_threads' <= nr_threads /\ Discharges(c) /\ peak' = peak
    BY <1>5 DEF exec, do_exit, release_task, TypeOK, Copying, Discharges
  <2> QED BY <2>1, LimitsStep
<1> QED BY <1>1, <1>2, <1>3, <1>4, <1>5 DEF Next, Within

\* and they hold at first.
LEMMA LimitsInit == Init => Limits /\ exempt \subseteq Charged
<1> SUFFICES ASSUME Init
             PROVE  Limits /\ exempt \subseteq Charged
  OBVIOUS
<1>1. InFlight = {}
  BY DEF Init, InFlight, Copying
<1>2. processes = 1 /\ nr_threads = 1 /\ peak = 0 /\ exempt = {}
  BY DEF Init
<1> QED BY <1>1, <1>2, FS_EmptySet, ResourcesAssumption DEF Limits, larger

\* A user never has more processes than RLIMIT_NPROC, not counting those that a
\* capable task forked at the limit, and max_threads is only exceeded by forks
\* that run at once.
THEOREM LimitsCorrect == Spec => []Limits
<1>1. IInv => TypeOK
  BY DEF IInv
<1>2. Spec => []TypeOK
  BY <1>1, Invariant, PTL
<1> QED BY <1>2, LimitsInit, LimitsInductive, ExemptCharged, PTL DEF Spec

-----------------------------------------------------------------------------
(* Refinement.                                                             *)

\* What AtomicFork sees of a state.
Held == [t \in Living |-> res[t]]

\* Nothing, when the step is one of a task that is not alive.
LEMMA Hidden ==
    ASSUME NEW c \in Task, ~Alive(c), ~Alive(c)',
           \A t \in Task \ {c} : at'[t] = at[t] /\ res'[t] = res[t]
    PROVE  UNCHANGED Atomic!vars
<1>1. Living' = Living
  BY DEF Living, Alive
<1>2. \A t \in Living : t \in Task \ {c} /\ res'[t] = res[t]
  BY DEF Living
<1>3. Held' = Held
  BY <1>1, <1>2 DEF Held
<1> QED BY <1>1, <1>3 DEF Atomic!vars, Held

\* An initial state is one of the abstract specification.
LEMMA AtomicInit == Init => Atomic!Init
<1> SUFFICES ASSUME Init
             PROVE  Atomic!Init
  OBVIOUS
<1>1. TypeOK
  BY InitInv DEF IInv
<1>2. Living = {InitTask} /\ InitTask \in Task
  BY ResourcesAssumption DEF Living, Alive, Init
<1>3. Held \in [Living -> [Kind -> Obj \cup {NULL}]] /\ Living \subseteq Task
  BY <1>1 DEF Held, Living, TypeOK, Ptr
<1> QED BY <1>2, <1>3 DEF Atomic!Init, Atomic!TypeOK, Held

\* The child that is linked has its parent's resources and new ones.
LEMMA AtomicSetLinks ==
    ASSUME IInv, NEW c \in Task, SET_LINKS(c)
    PROVE  \E p \in Task : Atomic!Fork(p, c)
<1> DEFINE p == parent[c]
           h == res[c]
<1>1. /\ at[c] = "thread" /\ "thread" \in Copying /\ Copied("thread") = Kind
      /\ Copied("alive") = Kind /\ "thread" \notin Half
  BY CopiedAt DEF SET_LINKS, Copying, Half
<1>2. TypeOK /\ Sound(c) /\ p \in Task /\ Alive(p)
  BY <1>1 DEF IInv, Sound, ParentLives, TypeOK
<1>3. p \in Living /\ c \notin Living /\ Living' = Living \cup {c} /\ res' = res
  BY <1>1, <1>2 DEF Living, Alive, SET_LINKS, TypeOK
<1>4. h \in [Kind -> Obj \cup {NULL}]
  BY <1>2 DEF TypeOK, Ptr
<1>5. \A t \in Living : t \in Task /\ Held[t] = res[t]
  BY DEF Held, Living
<1>6. ASSUME NEW k \in Kind
      PROVE  h[k] = Held[p][k] \/ (h[k] \in Obj /\ \A t \in Living : Held[t][k] # h[k])
  <2>1. CASE k \in share[c]
    BY <2>1, <1>1, <1>2, <1>3, <1>5 DEF Sound, Inherits
  <2>2. CASE k \notin share[c]
    <3>1. \/ h[k] = res[p][k]
          \/ h[k] # NULL /\ \A t \in Task \ {c} : ~Holds(t, k, h[k])
      BY <2>2, <1>1, <1>2 DEF Sound, Unshared
    <3>2. \A t \in Living : t \in Task \ {c} /\ (res[t][k] = h[k] => Holds(t, k, h[k]))
      BY <1>1, <1>3 DEF Living, Alive, Holds
    <3> QED BY <3>1, <3>2, <1>3, <1>4, <1>5
  <2> QED BY <2>1, <2>2
<1>7. Held' = [q \in Living' |-> IF q = c THEN h ELSE Held[q]]
  BY <1>3, <1>5 DEF Held
<1> HIDE DEF p, h
<1>8. Atomic!Fork(p, c)
  BY <1>3, <1>4, <1>6, <1>7 DEF Atomic!Fork, Atomic!Unused, Held
<1> QED BY <1>2, <1>8

\* A task that replaces its mm does so in the abstract specification.
LEMMA AtomicExec ==
    ASSUME IInv, NEW c \in Task, exec(c)
    PROVE  Atomic!Renew(c)
<1>1. PICK o \in kmem_cache_alloc("mm") : res' = [res EXCEPT ![c]["mm"] = o]
  BY DEF exec
<1>2. /\ "mm" \in Kind /\ TypeOK /\ c \in Living /\ Living' = Living
      /\ Copied("alive") = Kind
  BY CopiedAt DEF IInv, Kind, exec, Living, Alive
<1>3. o \in Obj /\ \A t \in Task : ~Holds(t, "mm", o)
  BY <1>2, Allocated
<1>4. \A t \in Living : t \in Task /\ Held[t] = res[t] /\ Held[t]["mm"] # o
  BY <1>2, <1>3 DEF Held, Living, Alive, Holds
<1>5. Held' = [Held EXCEPT ![c]["mm"] = o]
  BY <1>1, <1>2, <1>4 DEF Held, TypeOK
<1> QED BY <1>2, <1>3, <1>4, <1>5 DEF Atomic!Renew, Atomic!Unused, Held

\* A task that exits does so in the abstract specification.
LEMMA AtomicExit ==
    ASSUME TypeOK, NEW c \in Task, do_exit(c)
    PROVE  Atomic!Exit(c)
<1>1. c \in Living /\ Living' = Living \ {c} /\ \A t \in Living \ {c} : res'[t] = res[t]
  BY DEF Living, Alive, do_exit, TypeOK
<1>2. Held' = [q \in Living' |-> Held[q]]
  BY <1>1 DEF Held
<1> QED BY <1>1, <1>2 DEF Atomic!Exit, Held

\* Every step is a step of the abstract specification, or none.
LEMMA AtomicStep == IInv /\ [Next]_vars => [Atomic!Next]_(Atomic!vars)
<1> SUFFICES ASSUME IInv, [Next]_vars
             PROVE  Atomic!Next \/ UNCHANGED Atomic!vars
  OBVIOUS
<1>1. TypeOK
  BY DEF IInv
<1>2. CASE UNCHANGED vars
  <2>1. Living' = Living /\ Held' = Held
    BY <1>2 DEF vars, Living, Alive, Held
  <2> QED BY <2>1 DEF Atomic!vars, Held
<1>3. ASSUME NEW t \in Task, NEW c \in Task, NEW S \in Sharing, do_fork(t, c, S)
      PROVE  UNCHANGED Atomic!vars
  <2>1. PICK capable, label :
          label \in first_label(S, capable) /\ at' = [at EXCEPT ![c] = label]
    BY <1>3 DEF do_fork
  <2>2. label # "alive"
    BY <2>1 DEF first_label
  <2>3. at[c] = "unused" /\ res' = [res EXCEPT ![c] = res[t]]
    BY <1>3 DEF do_fork
  <2>4. ~Alive(c) /\ ~Alive(c)' /\ \A u \in Task \ {c} : at'[u] = at[u] /\ res'[u] = res[u]
    BY <2>1, <2>2, <2>3, <1>1 DEF Alive, TypeOK
  <2> QED BY <2>4, Hidden
<1>4. ASSUME NEW c \in Task, Within(c)
      PROVE  UNCHANGED Atomic!vars
  <2>1. ~Alive(c) /\ ~Alive(c)' /\ \A t \in Task \ {c} : at'[t] = at[t] /\ res'[t] = res[t]
    BY <1>1, <1>4, WithinFork DEF Alive
  <2> QED BY <2>1, Hidden
<1>5. ASSUME NEW c \in Task, release_task(c)
      PROVE  UNCHANGED Atomic!vars
  <2>1. ~Alive(c) /\ ~Alive(c)' /\ \A t \in Task \ {c} : at'[t] = at[t] /\ res'[t] = res[t]
    BY <1>1, <1>5 DEF release_task, Alive, TypeOK
  <2> QED BY <2>1, Hidden
<1>6. ASSUME NEW c \in Task, SET_LINKS(c) \/ exec(c) \/ do_exit(c)
      PROVE  Atomic!Next
  BY <1>1, <1>6, AtomicSetLinks, AtomicExec, AtomicExit DEF Atomic!Next
<1> QED BY <1>2, <1>3, <1>4, <1>5, <1>6 DEF Next, Within

\* do_fork(), exec and exit implement AtomicFork: a fork happens as a whole
\* when its child is linked, or not at all.
THEOREM ForkCorrect == Spec => ForkIsAtomic
BY Invariant, AtomicInit, AtomicStep, PTL DEF Spec, ForkIsAtomic, Atomic!Spec
=============================================================================
