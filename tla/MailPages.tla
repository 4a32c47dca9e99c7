----------------------------- MODULE MailPages -----------------------------
(***************************************************************************)
(* What the archive of a mailbox promises to those who read its pages,     *)
(* with no cursors, batches, staging or sessions: messages of one          *)
(* UIDVALIDITY, which come at any time and go when enough higher ones are  *)
(* there, until one step replaces them all by those of a later one.        *)
(***************************************************************************)
EXTENDS Naturals, FiniteSets

CONSTANTS Uids, Epochs, Limit

VARIABLES
  shown,     \* messages, as pairs of UIDVALIDITY and UID
  validity   \* the UIDVALIDITY of the pages

vars == <<shown, validity>>

Init == shown = {} /\ validity \in Epochs

Extend(M) ==
  /\ shown' = shown \cup M
  /\ UNCHANGED validity

\* UIDs on the pages.
Shelf == {u \in Uids : \E m \in shown : m[2] = u}

\* Only messages with Limit higher ones beside them go.
Retire(M) ==
  /\ \A m \in M : Cardinality({v \in Shelf : v > m[2]}) >= Limit
  /\ shown' = shown \ M
  /\ UNCHANGED validity

Replace(v, M) ==
  /\ v > validity
  /\ shown' = M
  /\ validity' = v

Next ==
  \/ \E M \in SUBSET ({validity} \X Uids) : Extend(M)
  \/ \E M \in SUBSET shown : Retire(M)
  \/ \E v \in Epochs : \E M \in SUBSET ({v} \X Uids) : Replace(v, M)

Spec == Init /\ [][Next]_vars

=============================================================================
