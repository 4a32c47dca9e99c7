--------------------------- MODULE MCPublicAccess ---------------------------
EXTENDS PublicAccess, TLC
CONSTANTS u1, m1, g1, v1, p1, p2

\* One owner, a mailbox and one target of it.
MCOwnerOf == [m \in Mailboxes |-> u1]
MCMailboxOf == [g \in Targets |-> m1]
Symmetry == Permutations(Posts)
=============================================================================
