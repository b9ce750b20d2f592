---------------------------- MODULE MCVirtioQueue ----------------------------
(* Instances of VirtioQueue for TLC. *)
EXTENDS VirtioQueue, TLC

FreshStack == {0, 1}
FreshPrepared == {255}
=============================================================================
