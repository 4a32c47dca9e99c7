--------------------------- MODULE MCMailArchive ---------------------------
(* Small instances of MailArchive for TLC: a job worker and the poll worker. *)
EXTENDS MailArchive

CONSTANTS job, poll
=============================================================================
