SPECIFICATION Spec
CONSTANTS
  NbStreams = 2
  Method = "STA_ORD"
  DepartureDate <- MCDeparture
  Arrival <- MCArrival
  Mean <- MCMean
  Draws <- MCDraws
  PrefTimes <- MCPref
  DayLength = 3
  RefTime = 1
  TicksPerMs = 2
  One = 10
  MaxArrivals = 0
  NbRuns = 2
INVARIANT DroppedIsFullyGenerated
