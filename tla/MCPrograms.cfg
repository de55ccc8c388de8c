CONSTANTS
  Readers = {1, 2}
  Conversions <- MCConversions
  MaxConversions = 2
  MaxBinds = 2
  Words = 3
  MaxPrompt = 2
  Hz = 1
  Throttles <- MCThrottles
  Ripples <- MCRipples
  Coolants <- MCCoolants
  Injected <- MCInjected
  SocketRoom = 2
  MaxTicks = 2
  MaxInjected = 2
  Window = 21
  Values = {1, 2}
  MaxAdds = 36
SPECIFICATION ProgramsSpec
INVARIANTS ReadsOneConversion WalkHonest DecodedIsSent
INVARIANTS RingHoldsLatest SnapshotExact
PROPERTY EveryReadReturns
CHECK_DEADLOCK FALSE
