CONSTANTS
  EncCapacity = 5
  RawCapacity = 1
  PtsValidity = {TRUE}
  MaxEncoded = 5
  MaxRaw = 0
  MaxMedia = 1
  AppsrcMax = 1
SPECIFICATION ResumeSpec
PROPERTIES ResumesAtKeyframe
