CONSTANTS
  Readers = {1, 2}
  Conversions <- MCConversions
  MaxConversions = 2
  MaxBinds = 2
  Words = 1
  MaxPrompt = 2
  Hz = 1
  Throttles <- MCThrottles
  Ripples <- MCRipples
  Coolants <- MCCoolants
  Injected <- MCInjected
  SocketRoom = 2
  MaxTicks = 2
  MaxInjected = 2
  Window = 2
  Values = {1, 2}
  MaxAdds = 4
SPECIFICATION ProgramsSpec
INVARIANT MeanOfWindow
CHECK_DEADLOCK FALSE
