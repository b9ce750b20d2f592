-------------------------------- MODULE MCMenu --------------------------------
(* Instances of Menu for TLC. *)
EXTENDS Menu
=============================================================================
