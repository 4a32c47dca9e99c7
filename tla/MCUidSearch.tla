---------------------------- MODULE MCUidSearch ----------------------------
(* Small instances of UidSearch for TLC. *)
EXTENDS UidSearch
=============================================================================
