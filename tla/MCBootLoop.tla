----------------------------- MODULE MCBootLoop -----------------------------
(* Model-checking instance of BootLoop. *)
EXTENDS BootLoop
=============================================================================
