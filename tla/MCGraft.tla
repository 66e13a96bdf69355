------------------------------- MODULE MCGraft -------------------------------
(* Instance of Graft for TLC: two names, sorted. *)
EXTENDS Graft, TLC
CONSTANTS a, b
ABNames == {a, b}
ABOrder == (a :> 1) @@ (b :> 2)
=============================================================================
