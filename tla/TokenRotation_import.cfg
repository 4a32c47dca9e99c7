SPECIFICATION Spec
CONSTANTS
  MaxGrants = 2
  MaxRotations = 2
  MaxRestarts = 0
  Retries = 1
INVARIANT LatestGrantStored
