SPECIFICATION Spec
CONSTANTS
  a1 = a1  a2 = a2  a3 = a3  u1 = u1   t1 = t1  w1 = w1  w2 = w2
  None = None
  Accounts = {a1, a2}
  Users = {u1}
  OwnerOf <- MCOwnerOf
  Tokens = {t1}
  MailboxOf <- MCMailboxOf
  Workers = {w1, w2}
  MaxActive = 2
  MaxJobs = 2
  MaxCrashes = 1
  MaxLapses = 1
SYMMETRY Symmetry
INVARIANT TypeOK
INVARIANT CountersAgree
INVARIANT OneActiveItemPerAccount
INVARIANT PendingHasJob
INVARIANT RunningItemsHeld
INVARIANT WorkersApart
PROPERTY LedgerSpec
PROPERTY FlagsOfOthersStay
