------------------------------ MODULE MCTimely ------------------------------
(* MCChangeService with the timing assumption, which TLC evaluates. *)
EXTENDS MCChangeService, ChangeServiceTimely
=============================================================================
