--------------------------- MODULE MCRefreshJobs ---------------------------
(* Small instances of RefreshJobs for TLC.                                 *)
EXTENDS RefreshJobs, TLC

CONSTANTS a1, a2, a3, u1, t1, w1, w2

\* Two mailboxes of one owner, the first with a public link.
MCOwnerOf == a1 :> u1 @@ a2 :> u1
MCMailboxOf == t1 :> a1

\* Three mailboxes of one owner.
MCThreeOfOne == a1 :> u1 @@ a2 :> u1 @@ a3 :> u1

MCNoLinks == [t \in {} |-> a1]

Symmetry == Permutations({w1, w2})
=============================================================================
