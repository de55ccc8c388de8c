CONSTANTS
  EncCapacity = 1
  RawCapacity = 1
  PtsValidity = {FALSE}
  MaxEncoded = 1
  MaxRaw = 2
  MaxMedia = 1
  AppsrcMax = 1
SPECIFICATION FairSpec
INVARIANTS TypeOK JoinedBeforeDestroyed ReleasedAtExit
PROPERTY TeardownCompletes
