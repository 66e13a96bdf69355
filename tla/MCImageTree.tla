----------------------------- MODULE MCImageTree -----------------------------
(* Instance of ImageTree for TLC. *)
EXTENDS ImageTree
=============================================================================
