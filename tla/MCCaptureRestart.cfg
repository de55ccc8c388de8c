CONSTANTS
  MaxBuffers = 2
  Dmabuf = FALSE
  SeqMod = 4
  MaxFrames = 3
SPECIFICATION ClientSpec
INVARIANTS StopRequeues
