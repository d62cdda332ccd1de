--------------------------- MODULE MCForkResources ---------------------------
(***************************************************************************)
(* Values of the constants for checking ForkResources with TLC.            *)
(***************************************************************************)
EXTENDS ForkResources

CONSTANTS t1, t2, t3, t4, t5, o1, o2, o3

\* A process with a namespace of its own, one with only memory and an fs of its
\* own, a thread with files of its own, and the combination that is rejected.
SomeSharing == {{}, {"files", "sig", "namespace"}, Kind \ {"files"}, {"fs"}}

\* Three tasks can have their own memory, two their own of the rest.
SmallSlab == [k \in Kind |-> IF k = "mm" THEN {o1, o2, o3} ELSE {o1, o2}]

\* The tasks other than init differ in name only.
Symmetry == Permutations(Task \ {InitTask})

\* Once the links are torn, mmlist_nr drifts without bound; the state that it
\* starts in is checked, but not what follows from it.
Intact == ~half
=============================================================================
