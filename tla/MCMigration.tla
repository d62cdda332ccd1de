----------------------------- MODULE MCMigration -----------------------------
(***************************************************************************)
(* Values of the constants for checking Migration with TLC.                *)
(***************************************************************************)
EXTENDS Migration

CONSTANTS a, b, m0, m1, m2

Threads == [c \in CPU |-> IF c = 0 THEN m0 ELSE IF c = 1 THEN m1 ELSE m2]

\* Each task sets its own mask, and a that of b as well: the mask of b has two
\* setters, that of a has one.
OwnAndOther == {<<a, a>>, <<b, b>>, <<a, b>>}
=============================================================================
