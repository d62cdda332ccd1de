------------------------------ MODULE AtomicFork ------------------------------
(***************************************************************************)
(* What fork() promises about the resources of processes, without counts,  *)
(* error exits or intermediate states: a child appears with every resource *)
(* either its parent's or one that no process has, and a fork that fails   *)
(* never happened.                                                         *)
(***************************************************************************)
CONSTANTS
    Process, Kind,  \* the processes and the kinds of resources
    Obj, Nothing    \* the resources; Nothing: a process without one of that kind

VARIABLES
    live,           \* the processes that exist
    held            \* held[p][k]: what a live process p has of kind k

vars == <<live, held>>

TypeOK ==
    /\ live \subseteq Process
    /\ held \in [live -> [Kind -> Obj \cup {Nothing}]]

Init ==
    /\ TypeOK
    /\ \E p \in Process : live = {p}

Unused(k, o) == \A p \in live : held[p][k] # o

Fork(p, c) ==
    /\ p \in live /\ c \notin live
    /\ live' = live \cup {c}
    /\ \E h \in [Kind -> Obj \cup {Nothing}] :
         /\ \A k \in Kind : h[k] = held[p][k] \/ (h[k] \in Obj /\ Unused(k, h[k]))
         /\ held' = [q \in live' |-> IF q = c THEN h ELSE held[q]]

\* A program is executed: the process gets an address space of its own.
Renew(p) ==
    /\ p \in live
    /\ \E k \in Kind, o \in Obj : Unused(k, o) /\ held' = [held EXCEPT ![p][k] = o]
    /\ UNCHANGED live

Exit(p) ==
    /\ p \in live
    /\ live' = live \ {p}
    /\ held' = [q \in live' |-> held[q]]

Next == \E p \in Process : Renew(p) \/ Exit(p) \/ \E c \in Process : Fork(p, c)

Spec == Init /\ [][Next]_vars
=============================================================================
