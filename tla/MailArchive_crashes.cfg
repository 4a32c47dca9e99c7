SPECIFICATION FairSpec
CONSTANTS
  job = job  poll = poll
  Callers = {job, poll}
  Poll = poll
  NoOne = NoOne
  BatchSize = 1
  MaxMessages = 2
  FirstValidity = 1
  MaxUid = 3
  MaxEpoch = 2
  MaxFailures = 0
  MaxKills = 1
  MaxStops = 0
  MaxUpgrades = 0
  SideBySide = FALSE
  Handovers = TRUE
INVARIANT TypeOK
INVARIANT NoGap
INVARIANT NoMixture
INVARIANT RebuildIntact
PROPERTY CursorMonotone
PROPERTY RetentionRestored
PROPERTY Archived
PROPERTY PagesSpec
