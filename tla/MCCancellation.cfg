SPECIFICATION Spec
CONSTANTS
  NbStreams = 2
  Method = "STA_ORD"
  DepartureDate <- MCDeparture
  Arrival <- MCArrival
  Mean <- MCMean
  Draws <- MCDraws
  PrefTimes <- MCPref
  DayLength = 4
  RefTime = 1
  TicksPerMs = 1
  One = 6
  MaxArrivals = 0
  MsPerSecond = 2
  Ratios = 4
  NbRuns = 2
INVARIANTS CancellationTally RequestsUndisturbed NothingBehindTheClock
PROPERTY CancelledBeforeDeparture
