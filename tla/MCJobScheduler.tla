--------------------------- MODULE MCJobScheduler ---------------------------
EXTENDS JobSchedulerInv, TLC

(* Workers behave alike and so do jobs; used in runs without liveness.     *)
Symmetry == Permutations(Workers) \cup Permutations(Jobs)
=============================================================================
