----------------------------- MODULE MCLauncher -----------------------------
(* Instances of Launcher for TLC. *)
EXTENDS Launcher, TLC

(* Images, CDs, NIC texts and Process objects are interchangeable.         *)
Symmetry == Permutations(Images) \cup Permutations(Procs)
=============================================================================
