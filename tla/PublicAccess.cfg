SPECIFICATION Spec
CONSTANTS
  u1 = u1  m1 = m1  g1 = g1  v1 = v1  p1 = p1  p2 = p2
  Owners = {u1}
  Mailboxes = {m1}
  Targets = {g1}
  OwnerOf <- MCOwnerOf
  MailboxOf <- MCMailboxOf
  Visitors = {v1}
  Posts = {p1, p2}
  MaxAttempts = 1
  MaxTokens = 2
  MaxChallenges = 2
SYMMETRY Symmetry
INVARIANT TypeOK
INVARIANT ChallengeBounded
INVARIANT VerifiedByAnswer
INVARIANT LinksHaveOwners
PROPERTY RevokedStaysRevoked
