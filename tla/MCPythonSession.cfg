SPECIFICATION Spec
CONSTANTS
  NbStreams = 2
  DepartureDate <- MCDeparture
  Arrival <- MCArrival
  Mean <- MCMean
  Draws <- MCDraws
  PrefTimes <- MCPref
  DayLength = 3
  RefTime = 1
  TicksPerMs = 1
  One = 4
  MaxArrivals = 3
  Short <- MCShort
  NbCalls = 3
  MaxRuns = 2
INVARIANTS CallsAccounted LiveRequests CleanBetweenCalls SanityFailsOnlyOnLeftovers
