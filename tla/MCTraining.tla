------------------------------ MODULE MCTraining ------------------------------
(* Small instances of Training. *)
EXTENDS Training, TLC
=============================================================================
