---------------------------- MODULE ForkResources ----------------------------
(***************************************************************************)
(* do_fork() of fork.c as far as resources go: the limits it checks, what  *)
(* a child shares with its parent, what it gets of its own, and what the   *)
(* bad_fork exits give back.  Every allocation may fail and may block, and *)
(* while it does other processes fork, exec and exit: a step is the code   *)
(* between two points where do_fork() can block.                           *)
(*                                                                         *)
(* at[c] is the label of do_fork() that works on the task_struct c, under  *)
(* the name of the resource it copies or gives back, or says what c is     *)
(* when no fork works on it.                                               *)
(***************************************************************************)
EXTENDS Integers, FiniteSets, TLC

CONSTANTS
    Task,             \* slots for task_structs
    InitTask,         \* the task that is there at boot
    Obj,              \* the addresses of resources
    slab,             \* slab[k]: those that there is memory for in the cache of k
    NULL, InitMm,     \* no object; init_mm, the head of the list of mms
    Sharing,          \* the combinations of CLONE flags that are tried
    max_threads,      \* limits on the number of tasks
    RLIMIT_NPROC

\* What the CLONE flags are about; a resource is shared when its flag is given
\* (CLONE_FILES, CLONE_FS, CLONE_SIGHAND, CLONE_VM, and no CLONE_NEWNS).
Kind == {"files", "fs", "sig", "mm", "namespace"}

ASSUME ResourcesAssumption ==
    /\ InitTask \in Task /\ IsFiniteSet(Task) /\ IsFiniteSet(Obj)
    /\ NULL \notin Obj /\ InitMm \notin Obj /\ NULL # InitMm
    /\ Sharing \subseteq SUBSET Kind
    /\ slab \in [Kind -> SUBSET Obj] /\ \A k \in Kind : slab[k] # {}
    /\ max_threads \in Nat \ {0} /\ RLIMIT_NPROC \in Nat

VARIABLES
    at,          \* where each task_struct is in its life
    parent,      \* the task whose do_fork() works on it
    share,       \* the clone_flags of that do_fork()
    res,         \* p->files, p->fs, p->sig, p->mm, p->namespace
    newmm,       \* the local variable mm of copy_mm()
    count,       \* the reference count of every object (mm_users for an mm)
    mmlist,      \* the links of the mms and mmlist_nr
    processes,   \* p->user->processes, and p->user->__count with it
    uses,        \* use counts of the execution domain and the binary format
    nr_threads,
    exempt,      \* history: the tasks that only a capability let past RLIMIT_NPROC
    peak,        \* history: the most forks there have been at once
    half         \* history: an mm was put before it was on the list

vars == <<at, parent, share, res, newmm, count, mmlist, processes, uses, nr_threads, exempt, peak,
          half>>

Copying == {"files", "fs", "sig", "mm", "mm_init", "dup_mmap", "namespace", "thread"}
Undoing == {"exit_namespace", "exit_mm", "exit_sig", "exit_fs", "exit_files",
            "cleanup", "cleanup_count", "free"}
Ptr == Obj \cup {NULL}

TypeOK ==
    /\ at \in [Task -> Copying \cup Undoing \cup {"unused", "alive", "zombie"}]
    /\ parent \in [Task -> Task]
    /\ share \in [Task -> SUBSET Kind]
    /\ res \in [Task -> [Kind -> Ptr]]
    /\ newmm \in [Task -> Ptr]
    /\ count \in [Kind -> [Obj -> Nat]]
    /\ mmlist \in [next : [Obj \cup {InitMm} -> Ptr \cup {InitMm}],
                   prev : [Obj \cup {InitMm} -> Ptr \cup {InitMm}], nr : Int]
    /\ processes \in Nat /\ uses \in Nat /\ nr_threads \in Nat /\ peak \in Nat
    /\ exempt \subseteq Task /\ half \in BOOLEAN

-----------------------------------------------------------------------------
\* list_add() and list_del() of list.h on the links of the mms, and mmlist_nr.
list_add(list, mm, head) ==
    LET next == list.next[head]
    IN  [next |-> [list.next EXCEPT ![mm] = next, ![head] = mm],
         prev |-> [list.prev EXCEPT ![next] = mm, ![mm] = head],
         nr   |-> list.nr + 1]

list_del(list, mm) ==
    LET prev == list.prev[mm]
        next == list.next[mm]
    IN  [next |-> [list.next EXCEPT ![prev] = next],
         prev |-> [list.prev EXCEPT ![next] = prev],
         nr   |-> list.nr - 1]

\* mm's own links: those of a freed mm mean nothing, and memcpy(mm, oldmm)
\* copies those of oldmm.
set_links(list, mm, next, prev) ==
    [next |-> [list.next EXCEPT ![mm] = next], prev |-> [list.prev EXCEPT ![mm] = prev],
     nr   |-> list.nr]

free_mm(list, mm) == set_links(list, mm, NULL, NULL)
copy_links(list, mm, oldmm) == set_links(list, mm, list.next[oldmm], list.prev[oldmm])

put(n, o) == IF o = NULL THEN n ELSE [n EXCEPT ![o] = @ - 1]

\* Mutant: a shared object is not counted.
get_uncounted(n, o) == n

get(n, o) == IF o = NULL THEN n ELSE [n EXCEPT ![o] = @ + 1]

\* Mutant: the address space goes, but not from the list.
mmput_listed(list, mm) ==
    IF mm # NULL /\ count["mm"][mm] = 1 THEN free_mm(list, mm) ELSE list

\* mmput() of an address space: the last user takes it off the list.
mmput(list, mm) ==
    IF mm # NULL /\ count["mm"][mm] = 1 THEN free_mm(list_del(list, mm), mm) ELSE list

larger(m, n) == IF m > n THEN m ELSE n

\* kmem_cache_alloc(): which of the free objects it is makes no difference.
Free(k) == {o \in slab[k] : count[k][o] = 0}
kmem_cache_alloc(k) == IF Free(k) = {} THEN {} ELSE {CHOOSE o \in Free(k) : TRUE}

Alive(t) == at[t] = "alive"
Forking(t) == \E c \in Task : at[c] \in Copying \cup Undoing /\ parent[c] = t
InFlight == {c \in Task : at[c] \in Copying}

Nothing == [k \in Kind |-> NULL]

\* The resources of init_task; it has no address space.
boot(k) == CHOOSE o \in slab[k] : TRUE

Init ==
    /\ res = [t \in Task |-> IF t = InitTask THEN [k \in Kind |-> IF k = "mm" THEN NULL ELSE boot(k)]
                             ELSE Nothing]
    /\ count = [k \in Kind |-> [o \in Obj |-> IF k # "mm" /\ o = boot(k) THEN 1 ELSE 0]]
    /\ at = [t \in Task |-> IF t = InitTask THEN "alive" ELSE "unused"]
    /\ parent = [t \in Task |-> InitTask]
    /\ share = [t \in Task |-> {}]
    /\ newmm = [t \in Task |-> NULL]
    /\ LET links == [q \in Obj \cup {InitMm} |-> IF q = InitMm THEN InitMm ELSE NULL]
       IN  mmlist = [next |-> links, prev |-> links, nr |-> 0]
    /\ processes = 1 /\ uses = 1 /\ nr_threads = 1
    /\ exempt = {} /\ peak = 0 /\ half = FALSE

-----------------------------------------------------------------------------
\* Mutant: one thread more than the limit.
first_label_late(S, capable) ==
    IF processes >= RLIMIT_NPROC /\ ~capable THEN {"free"}
    ELSE IF nr_threads > max_threads THEN {"cleanup_count"}
    ELSE {"files", "cleanup"}

\* The first part of do_fork(), up to the first copy: nothing here blocks after
\* alloc_task_struct().  The limit of the user is checked, unless the caller is
\* capable of CAP_SYS_ADMIN or CAP_SYS_RESOURCE, and charged at once;
\* max_threads is only checked.
first_label(S, capable) ==
    IF processes >= RLIMIT_NPROC /\ ~capable THEN {"free"}
    ELSE IF nr_threads >= max_threads THEN {"cleanup_count"}
    ELSE {"files", "cleanup"}  \* get_pid() may find no pid

\* Mutant: CLONE_NEWNS together with CLONE_FS is accepted.
accepted_any(S) == TRUE

\* CLONE_NEWNS together with CLONE_FS is not.
accepted(S) == "fs" \in S => "namespace" \in S

do_fork(t, c, S) ==
    /\ Alive(t) /\ ~Forking(t) /\ at[c] = "unused"
    /\ accepted(S)
    /\ \E capable \in BOOLEAN : \E label \in first_label(S, capable) :
         /\ at' = [at EXCEPT ![c] = label]
         /\ processes' = IF label = "free" THEN processes ELSE processes + 1
         /\ exempt' = IF capable /\ processes >= RLIMIT_NPROC THEN exempt \cup {c} ELSE exempt
         /\ uses' = IF label \in {"files", "cleanup"} THEN uses + 1 ELSE uses
    /\ parent' = [parent EXCEPT ![c] = t]
    /\ share' = [share EXCEPT ![c] = S]
    /\ res' = [res EXCEPT ![c] = res[t]]
    /\ peak' = larger(peak, Cardinality(InFlight'))
    /\ UNCHANGED <<newmm, count, mmlist, nr_threads, half>>

Goto(c, label) ==
    /\ at' = [at EXCEPT ![c] = label]
    /\ UNCHANGED <<parent, share, processes, uses, nr_threads, exempt, peak>>

\* Where the copy of a resource goes on to, and where it goes when it fails.
after == [files |-> "fs", fs |-> "sig", sig |-> "mm", namespace |-> "thread"]

\* Mutant: a label too early; what the failing copy did not take is given back.
bad_fork_early == [files |-> "cleanup", fs |-> "exit_files", sig |-> "exit_fs", mm |-> "exit_sig",
                   namespace |-> "exit_namespace", thread |-> "exit_namespace"]

\* Mutant: a label too late; what the last copy took is not given back.
bad_fork_late == [files |-> "cleanup", fs |-> "exit_files", sig |-> "exit_fs", mm |-> "exit_sig",
                  namespace |-> "exit_mm", thread |-> "exit_mm"]

bad_fork == [files |-> "cleanup", fs |-> "exit_files", sig |-> "exit_fs", mm |-> "exit_sig",
             namespace |-> "exit_mm", thread |-> "exit_namespace"]

\* copy_files(), copy_fs(), copy_sighand(), and copy_namespace() outside: the
\* resource is shared, or there is none, or the child gets a new one.
copy(c, k) ==
    LET old == res[parent[c]][k]
    IN  /\ at[c] = k /\ k # "mm"
        /\ \/ /\ k \in share[c] \/ old = NULL
              /\ count' = [count EXCEPT ![k] = get(@, old)]
              /\ Goto(c, after[k])
              /\ UNCHANGED res
           \/ /\ k \notin share[c] /\ old # NULL
              /\ \E o \in kmem_cache_alloc(k) :
                   /\ res' = [res EXCEPT ![c][k] = o]
                   /\ count' = [count EXCEPT ![k][o] = 1]
              /\ Goto(c, after[k])
           \/ /\ k \notin share[c] /\ old # NULL
              /\ res' = IF k = "namespace" THEN res ELSE [res EXCEPT ![c][k] = NULL]
              /\ Goto(c, bad_fork[k])
              /\ UNCHANGED count
        /\ UNCHANGED <<newmm, mmlist, half>>

\* copy_mm(), first part: share the address space, or allocate one and copy
\* the mm_struct of the parent into it.
copy_mm(c) ==
    LET old == res[parent[c]]["mm"]
    IN  /\ at[c] = "mm"
        /\ \/ /\ "mm" \in share[c] \/ old = NULL
              /\ count' = [count EXCEPT !["mm"] = get(@, old)]
              /\ Goto(c, "namespace")
              /\ UNCHANGED <<res, newmm, mmlist>>
           \/ /\ "mm" \notin share[c] /\ old # NULL
              /\ \E o \in kmem_cache_alloc("mm") :
                   /\ newmm' = [newmm EXCEPT ![c] = o]
                   /\ count' = [count EXCEPT !["mm"][o] = 1]
                   /\ mmlist' = copy_links(mmlist, o, old)
              /\ res' = [res EXCEPT ![c]["mm"] = NULL]
              /\ Goto(c, "mm_init")
           \/ /\ "mm" \notin share[c] /\ old # NULL
              /\ res' = [res EXCEPT ![c]["mm"] = NULL]
              /\ Goto(c, bad_fork["mm"])
              /\ UNCHANGED <<newmm, count, mmlist>>
        /\ UNCHANGED half

\* copy_mm() gives up the mm it has allocated.
drop_newmm(c) ==
    /\ newmm' = [newmm EXCEPT ![c] = NULL]
    /\ count' = [count EXCEPT !["mm"] = put(@, newmm[c])]
    /\ Goto(c, bad_fork["mm"])
    /\ UNCHANGED res

\* pgd_alloc() in mm_init(), then init_new_context(), then the head of
\* dup_mmap(), which puts the mm on the list next to its parent's.
mm_init(c) ==
    /\ at[c] = "mm_init"
    /\ \/ /\ mmlist' = list_add(mmlist, newmm[c], res[parent[c]]["mm"])
          /\ Goto(c, "dup_mmap")
          /\ UNCHANGED <<res, newmm, count, half>>
       \/ /\ mmlist' = free_mm(mmlist, newmm[c])
          /\ drop_newmm(c)
          /\ UNCHANGED half
       \/ /\ mmlist' = mmput(mmlist, newmm[c])
          /\ drop_newmm(c)
          /\ half' = TRUE

\* The mappings are copied, all of them or not.
dup_mmap(c) ==
    /\ at[c] = "dup_mmap"
    /\ \/ /\ res' = [res EXCEPT ![c]["mm"] = newmm[c]]
          /\ newmm' = [newmm EXCEPT ![c] = NULL]
          /\ Goto(c, "namespace")
          /\ UNCHANGED <<count, mmlist>>
       \/ /\ mmlist' = mmput(mmlist, newmm[c])
          /\ drop_newmm(c)
    /\ UNCHANGED half

thread_fails(c) ==
    /\ at[c] = "thread"
    /\ Goto(c, bad_fork["thread"])
    /\ UNCHANGED <<res, newmm, count, mmlist, half>>

\* The rest of do_fork(): the child becomes visible to the system.
SET_LINKS(c) ==
    /\ at[c] = "thread"
    /\ at' = [at EXCEPT ![c] = "alive"]
    /\ parent' = [parent EXCEPT ![c] = InitTask]
    /\ share' = [share EXCEPT ![c] = {}]
    /\ nr_threads' = nr_threads + 1
    /\ UNCHANGED <<res, newmm, count, mmlist, processes, uses, exempt, peak, half>>

-----------------------------------------------------------------------------
exiting == [exit_namespace |-> "namespace", exit_mm |-> "mm", exit_sig |-> "sig",
            exit_fs |-> "fs", exit_files |-> "files"]
next_exit == [exit_namespace |-> "exit_mm", exit_mm |-> "exit_sig", exit_sig |-> "exit_fs",
              exit_fs |-> "exit_files", exit_files |-> "cleanup"]

\* exit_namespace(), exit_mm(), exit_sighand(), exit_fs() and exit_files() of a
\* child that is not to be: each gives back one reference, and may block.
bad_fork_exit(c) ==
    /\ at[c] \in DOMAIN exiting
    /\ LET k == exiting[at[c]]
       IN  /\ res' = [res EXCEPT ![c][k] = NULL]
           /\ count' = [count EXCEPT ![k] = put(@, res[c][k])]
           /\ mmlist' = IF k = "mm" THEN mmput(mmlist, res[c][k]) ELSE mmlist
    /\ Goto(c, next_exit[at[c]])
    /\ UNCHANGED <<newmm, half>>

\* bad_fork_cleanup, bad_fork_cleanup_count, bad_fork_free: nothing blocks.
bad_fork_cleanup(c) ==
    /\ at[c] \in {"cleanup", "cleanup_count", "free"}
    /\ uses' = IF at[c] = "cleanup" THEN uses - 1 ELSE uses
    /\ processes' = IF at[c] = "free" THEN processes ELSE processes - 1
    /\ at' = [at EXCEPT ![c] = "unused"]
    /\ parent' = [parent EXCEPT ![c] = InitTask]
    /\ share' = [share EXCEPT ![c] = {}]
    /\ res' = [res EXCEPT ![c] = Nothing]
    /\ exempt' = exempt \ {c}
    /\ UNCHANGED <<newmm, count, mmlist, nr_threads, peak, half>>

-----------------------------------------------------------------------------
\* What is outside src/: a program is executed (mm_alloc() and mmput() are not),
exec(t) ==
    /\ Alive(t) /\ ~Forking(t)
    /\ \E o \in kmem_cache_alloc("mm") :
         /\ count' = [count EXCEPT !["mm"] = [put(@, res[t]["mm"]) EXCEPT ![o] = 1]]
         /\ mmlist' = mmput(list_add(mmlist, o, InitMm), res[t]["mm"])
         /\ res' = [res EXCEPT ![t]["mm"] = o]
    /\ UNCHANGED <<at, parent, share, newmm, processes, uses, nr_threads, exempt, peak, half>>

\* a task exits,
do_exit(t) ==
    /\ Alive(t) /\ ~Forking(t) /\ t # InitTask
    /\ at' = [at EXCEPT ![t] = "zombie"]
    /\ count' = [k \in Kind |-> put(count[k], res[t][k])]
    /\ mmlist' = mmput(mmlist, res[t]["mm"])
    /\ res' = [res EXCEPT ![t] = Nothing]
    /\ uses' = uses - 1
    /\ UNCHANGED <<parent, share, newmm, processes, nr_threads, exempt, peak, half>>

\* and its parent waits for it (unhash_process() is not outside).
release_task(t) ==
    /\ at[t] = "zombie"
    /\ at' = [at EXCEPT ![t] = "unused"]
    /\ processes' = processes - 1
    /\ nr_threads' = nr_threads - 1
    /\ exempt' = exempt \ {t}
    /\ UNCHANGED <<parent, share, res, newmm, count, mmlist, uses, peak, half>>

Next ==
    \/ \E t, c \in Task, S \in Sharing : do_fork(t, c, S)
    \/ \E c \in Task :
         \/ \E k \in DOMAIN after : copy(c, k)
         \/ copy_mm(c) \/ mm_init(c) \/ dup_mmap(c) \/ thread_fails(c) \/ SET_LINKS(c)
         \/ bad_fork_exit(c) \/ bad_fork_cleanup(c)
         \/ exec(c) \/ do_exit(c) \/ release_task(c)

Spec == Init /\ [][Next]_vars

-----------------------------------------------------------------------------
\* The references that do_fork() has handed to a child when it gets to a label.
Copied(label) ==
    CASE label \in {"fs", "exit_files"} -> {"files"}
      [] label \in {"sig", "exit_fs"} -> {"files", "fs"}
      [] label \in {"mm", "mm_init", "dup_mmap", "exit_sig"} -> {"files", "fs", "sig"}
      [] label \in {"namespace", "exit_mm"} -> {"files", "fs", "sig", "mm"}
      [] label \in {"thread", "exit_namespace", "alive"} -> Kind
      [] OTHER -> {}

Holders(k, o) ==
    {t \in Task : \/ k \in Copied(at[t]) /\ res[t][k] = o
                  \/ k = "mm" /\ newmm[t] = o}

ObjectsExact ==
    \A k \in Kind, o \in Obj : count[k][o] = Cardinality(Holders(k, o))

Charged == {t \in Task : at[t] \notin {"unused", "free"}}
Using == Charged \ {t \in Task : at[t] \in {"cleanup_count", "zombie"}}
Linked == {t \in Task : at[t] \in {"alive", "zombie"}}

ChargesExact ==
    /\ processes = Cardinality(Charged)
    /\ uses = Cardinality(Using)
    /\ nr_threads = Cardinality(Linked)

(***************************************************************************)
(* Every reference that was taken is given back exactly once, whatever     *)
(* copy fails and whoever forks, execs or exits while do_fork() is         *)
(* blocked: the count of an object is the number of those who hold it.  So *)
(* are the charge to the user, the use counts of modules and nr_threads.   *)
(***************************************************************************)
ReferencesExact == ObjectsExact /\ ChargesExact

(***************************************************************************)
(* The list of mms is a ring of exactly the address spaces in use, and one *)
(* ring: who follows next from any of them comes to all.  mmlist_nr is     *)
(* their number.  This is true unless init_new_context() has failed:       *)
(* copy_mm() then calls mmput() for an mm that is not on the list, with    *)
(* links that are its parent's.                                            *)
(***************************************************************************)
Listed == {InitMm} \cup {o \in Obj : count["mm"][o] > 0 /\ \A c \in Task : at[c] = "mm_init" => newmm[c] # o}

MmlistExact ==
    ~half => /\ mmlist.nr = Cardinality(Listed) - 1
             /\ \A o \in Listed : /\ mmlist.next[o] \in Listed /\ mmlist.prev[mmlist.next[o]] = o
                                  /\ mmlist.prev[o] \in Listed /\ mmlist.next[mmlist.prev[o]] = o
             /\ \A part \in SUBSET Listed :
                  part # {} /\ (\A o \in part : mmlist.next[o] \in part) => part = Listed

(***************************************************************************)
(* Tasks that share an fs_struct share the namespace its directories are   *)
(* mounted in: do_fork() rejects CLONE_NEWNS together with CLONE_FS.       *)
(***************************************************************************)
FsInOneNamespace ==
    \A t, u \in Task : Alive(t) /\ Alive(u) /\ res[t]["fs"] = res[u]["fs"]
                         => res[t]["namespace"] = res[u]["namespace"]

(***************************************************************************)
(* The limits.  A user's processes are checked and charged at once: there  *)
(* are no more than RLIMIT_NPROC, not counting those that a capable task   *)
(* forked when the limit was reached.  max_threads, which binds capable    *)
(* tasks too, is checked before the copies and nr_threads incremented      *)
(* after them, so forks that run at once may exceed that limit, but by no  *)
(* more than their number less one.                                        *)
(***************************************************************************)
Limits ==
    /\ processes - Cardinality(exempt) <= larger(RLIMIT_NPROC, 1)
    /\ nr_threads + Cardinality(InFlight) <= max_threads + larger(peak, 1) - 1

(***************************************************************************)
(* A fork happens as a whole when its child is linked, or not at all.      *)
(***************************************************************************)
Living == {t \in Task : Alive(t)}
Atomic == INSTANCE AtomicFork WITH Process <- Task, Nothing <- NULL,
                                   live <- Living, held <- [t \in Living |-> res[t]]
ForkIsAtomic == Atomic!Spec
=============================================================================
