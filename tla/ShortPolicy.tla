----------------------------- MODULE ShortPolicy -----------------------------
(***************************************************************************)
(* What the SCHED_SHORT policy promises, without queues, priorities or     *)
(* slices: the life of a process as ControlPaths.txt draws it.  A process  *)
(* asks to become SHORT, turns overdue while it is running, turns into an  *)
(* OTHER process while it is running, and gets back the nice value it had. *)
(***************************************************************************)
EXTENDS Integers

CONSTANTS Process, Nice, Nobody  \* Nobody is not a Process

VARIABLES
    class,     \* the scheduling class of each process; "none" if it does not exist
    nice,      \* the static priority the user gave it
    wasShort,  \* whether it has been SHORT
    running    \* the process that has the CPU

vars == <<class, nice, wasShort, running>>

Class == {"none", "other", "rt", "short", "overdue"}

TypeOK ==
    /\ class \in [Process -> Class]
    /\ nice \in [Process -> Nice]
    /\ wasShort \in [Process -> BOOLEAN]
    /\ running \in Process \cup {Nobody}

Init ==
    /\ class \in [Process -> {"none", "other"}]
    /\ nice \in [Process -> Nice]
    /\ wasShort = [p \in Process |-> FALSE]
    /\ running = Nobody

Switch ==
    /\ running' \in Process \cup {Nobody}
    /\ UNCHANGED <<class, nice, wasShort>>

\* Other to Short, asked for by the running process for any process.
BecomeShort(p) ==
    /\ running # Nobody /\ class[p] = "other"
    /\ class' = [class EXCEPT ![p] = "short"]
    /\ wasShort' = [wasShort EXCEPT ![p] = TRUE]
    /\ UNCHANGED <<nice, running>>

\* Short to overdue and overdue to Other happen to the running process only.
Lapse(p) ==
    /\ running = p
    /\ \/ class[p] = "short" /\ class' = [class EXCEPT ![p] = "overdue"]
       \/ class[p] = "overdue" /\ class' = [class EXCEPT ![p] = "other"]
    /\ UNCHANGED <<nice, wasShort, running>>

\* A SHORT process, overdue or not, cannot be given another policy.
SetNormal(p) ==
    /\ running # Nobody /\ class[p] \in {"other", "rt"}
    /\ \E c \in {"other", "rt"} : class' = [class EXCEPT ![p] = c]
    /\ UNCHANGED <<nice, wasShort, running>>

Renice(p) ==
    /\ running # Nobody /\ class[p] # "none"
    /\ \E n \in Nice : nice' = [nice EXCEPT ![p] = n]
    /\ UNCHANGED <<class, wasShort, running>>

\* A child starts with everything its parent has.
Fork(c) ==
    /\ running # Nobody /\ class[c] = "none"
    /\ class' = [class EXCEPT ![c] = class[running]]
    /\ nice' = [nice EXCEPT ![c] = nice[running]]
    /\ wasShort' = [wasShort EXCEPT ![c] = wasShort[running]]
    /\ UNCHANGED running

\* The process is gone; what its slot says of it is of no interest.
Remove(p) ==
    /\ running \notin {Nobody, p} /\ class[p] # "none"
    /\ class' = [class EXCEPT ![p] = "none"]
    /\ \E n \in Nice : nice' = [nice EXCEPT ![p] = n]
    /\ wasShort' = [wasShort EXCEPT ![p] = FALSE]
    /\ UNCHANGED running

Next ==
    \/ Switch
    \/ \E p \in Process : \/ BecomeShort(p) \/ Lapse(p) \/ SetNormal(p)
                          \/ Renice(p) \/ Fork(p) \/ Remove(p)

Spec == Init /\ [][Next]_vars
=============================================================================
