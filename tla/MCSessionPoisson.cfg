SPECIFICATION Spec
CONSTANTS
  NbStreams = 2
  Method = "POI_PRO"
  DepartureDate <- MCDeparture
  Arrival <- MCPoissonArrival
  Mean <- MCMean
  Draws <- MCDraws
  PrefTimes <- MCPref
  DayLength = 3
  RefTime = 1
  TicksPerMs = 2
  One = 7
  MaxArrivals = 2
PROPERTY FinishedUntilReset
