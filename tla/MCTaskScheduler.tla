---------------------------- MODULE MCTaskScheduler ----------------------------
(* Model-checking instances of TaskScheduler. *)
EXTENDS TaskScheduler, TLC

(* The group tasks are alike, and so are the isolated ones. *)
Symmetry == Permutations(Task \ Isolated) \cup Permutations(Isolated)
================================================================================
