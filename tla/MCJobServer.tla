----------------------------- MODULE MCJobServer -----------------------------
(***************************************************************************)
(* TLC instances of JobServer: the sets of jobs and processes are in the   *)
(* cfg files; symmetry is used only in the runs that check safety alone.   *)
(***************************************************************************)
EXTENDS JobServerProps, TLC

Symmetry == Permutations(Jobs) \cup Permutations(Procs)
=============================================================================
