------------------------------ MODULE MCBitmap ------------------------------
(* The instance of Bitmap that TLC checks. *)
EXTENDS Bitmap
=============================================================================
