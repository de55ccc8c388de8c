CONSTANTS
  p1 = p1
  p2 = p2
  c1 = c1
  c2 = c2
  c3 = c3
  k1 = k1
  k2 = k2
  Producers = {p1, p2}
  Consumers = {c1, c2, c3}
  Closers = {k1, k2}
  Capacity = 2
  MaxPush = 6
SPECIFICATION FairSpec
INVARIANTS TypeOK Window WakeupsCoverFrames NoLostWakeup
PROPERTIES FreshInOrder ImplementsBuffer EveryFrameLeaves CloseEndsConsumers
