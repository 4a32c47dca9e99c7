SPECIFICATION FairSpec
CONSTANTS
  MaxGrants = 2
  MaxRotations = 2
  MaxRestarts = 1
  Retries = 0
INVARIANT TypeOK
PROPERTY TokenNeverOlder
PROPERTY NoNeedlessRotation
PROPERTY DueIsRotated
