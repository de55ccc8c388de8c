CONSTANTS
  EncCapacity = 2
  RawCapacity = 1
  PtsValidity = {TRUE}
  MaxEncoded = 5
  MaxRaw = 0
  MaxMedia = 1
  AppsrcMax = 1
SPECIFICATION Spec
INVARIANTS AppsrcBounded
