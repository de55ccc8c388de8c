CONSTANTS
  MaxFrames = 5
  Engines <- MCEngines
  Bytes = 4
  MaxDetections = 5
  Cameras <- MCCameras
  InputW = 4
  InputH = 4
  NumClasses = 2
  Conf = 25
  Iou = 45
  max_detections = 2
  Candidates <- MCCandidates
  BenchWindow = 11
  Frames <- MCFrames
  MaxRecords = 18
  Directories <- MCDirectories
  Batch = 2
  MaxBuilds = 2
SPECIFICATION DetectorSpec
INVARIANTS DetectionsMatchFrame SamplesReturned WorkerLeavesNothing CanSetWellFormed
INVARIANTS DecodeCorrect BoxClipped PixelMapsBack SummaryExact TableExact
PROPERTIES PulledFresh ProcessEnds
