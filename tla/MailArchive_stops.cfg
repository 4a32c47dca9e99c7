SPECIFICATION Spec
CONSTANTS
  job = job  poll = poll
  Callers = {job, poll}
  Poll = poll
  NoOne = NoOne
  BatchSize = 1
  MaxMessages = 2
  FirstValidity = 1
  MaxUid = 3
  MaxEpoch = 1
  MaxFailures = 1
  MaxKills = 1
  MaxStops = 1
  MaxUpgrades = 1
  SideBySide = FALSE
  Handovers = TRUE
INVARIANT NoGap
INVARIANT Rescanned
