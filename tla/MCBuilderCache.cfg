CONSTANTS
  MaxFrames = 1
  Engines <- MCEngines
  Bytes = 4
  MaxDetections = 1
  Cameras <- MCCameras
  InputW = 4
  InputH = 4
  NumClasses = 2
  Conf = 25
  Iou = 45
  max_detections = 2
  Candidates <- MCNoCandidates
  BenchWindow = 2
  Frames <- MCFrames
  MaxRecords = 1
  Directories <- MCDirectories
  Batch = 2
  MaxBuilds = 2
SPECIFICATION DetectorSpec
INVARIANT ReliesOnCache
