-------------------------- MODULE MCTokenRotation --------------------------
(* Small instances of TokenRotation for TLC. *)
EXTENDS TokenRotation
=============================================================================
