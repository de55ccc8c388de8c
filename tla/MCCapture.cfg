CONSTANTS
  MaxBuffers = 2
  Dmabuf = TRUE
  SeqMod = 4
  MaxFrames = 6
  RawOut = TRUE
  FramesToGrab = 2
SPECIFICATION MCSpec
INVARIANTS TypeOK DropsCounted ClosedMeansReleased HeldFramesStable
INVARIANTS AllBuffersCirculate LeavesNothingBehind
PROPERTY SignalEnds
