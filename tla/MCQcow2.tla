------------------------------ MODULE MCQcow2 ------------------------------
(* Instance of Qcow2 for TLC. *)
EXTENDS Qcow2
=============================================================================
