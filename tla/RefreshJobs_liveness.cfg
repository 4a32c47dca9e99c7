SPECIFICATION FairSpec
CONSTANTS
  a1 = a1  a2 = a2  a3 = a3  u1 = u1   t1 = t1  w1 = w1  w2 = w2
  None = None
  Accounts = {a1, a2, a3}
  Users = {u1}
  OwnerOf <- MCThreeOfOne
  Tokens = {}
  MailboxOf <- MCNoLinks
  Workers = {w1}
  MaxActive = 2
  MaxJobs = 2
  MaxCrashes = 1
  MaxLapses = 0
INVARIANT AdmissionBound
PROPERTY JobSettles
PROPERTY PendingResolves
