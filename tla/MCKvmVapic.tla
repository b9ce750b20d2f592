----------------------------- MODULE MCKvmVapic -----------------------------
(* Instances of KvmVapic for TLC: classes of two vectors. *)
EXTENDS KvmVapic
=============================================================================
