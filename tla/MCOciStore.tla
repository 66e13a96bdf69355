----------------------------- MODULE MCOciStore -----------------------------
(* Instance of OciStore for TLC. *)
EXTENDS OciStore
=============================================================================
