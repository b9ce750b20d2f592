-------------------------------- MODULE MCCio --------------------------------
(* Instances of Cio for TLC. *)
EXTENDS Cio
=============================================================================
