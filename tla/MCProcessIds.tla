---------------------------- MODULE MCProcessIds ----------------------------
(***************************************************************************)
(* Values of the constants for checking ProcessIds with TLC.               *)
(***************************************************************************)
EXTENDS ProcessIds, TLC

CONSTANTS t1, t2, t3, t4

\* Two chains.
Parity == [pid \in 1 .. PID_MAX - 1 |-> pid % 2]

\* The tasks other than init differ in name only.
Symmetry == Permutations(Task \ {InitTask})

\* After the allocator has run dry or gone round during a fork it promises
\* nothing: that state is reached, but not what follows from it.
Followed == Sane
=============================================================================
