CONSTANTS
  EncCapacity = 2
  RawCapacity = 1
  PtsValidity = {TRUE}
  MaxEncoded = 4
  MaxRaw = 0
  MaxMedia = 2
  AppsrcMax = 1
SPECIFICATION Spec
INVARIANTS AppsrcRefsExact OneDeltaPerOpening
PROPERTIES FedInOrder
