------------------------------ MODULE MCSched ------------------------------
(***************************************************************************)
(* Values of the constants for checking Sched with TLC.                    *)
(***************************************************************************)
EXTENDS Sched

\* The tasks other than init differ in name only.
Symmetry == Permutations(Task \ {Reaper})

\* After a misfiled dequeue the counters of the arrays drift without bound;
\* the state it leads to is checked, but not what follows from it.
Intact == ~rq.misfiled

\* Requests of two lengths, and a negative one, which is accepted as a renewal only.
BothSigns == {2000, 3000, -1000}
=============================================================================
