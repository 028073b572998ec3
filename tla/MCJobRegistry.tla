--------------------------- MODULE MCJobRegistry ---------------------------
(* Instances of JobRegistry for TLC. *)
EXTENDS JobRegistry, TLC

CONSTANTS j1, j2, j3, p1, p2

OnePrinter == [j \in Jobs |-> p1]
PrinterEach == (j1 :> p1) @@ (j2 :> p2)

SameJobs == Permutations(Jobs)
=============================================================================
