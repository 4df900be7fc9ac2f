----------------------------- MODULE MCViewModel -----------------------------
(* Instances of ViewModel for TLC. *)
EXTENDS ViewModel
=============================================================================
