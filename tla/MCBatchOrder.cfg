SPECIFICATION FairSpec
CONSTANTS
  NbStreams = 3
  Method = "STA_ORD"
  DepartureDate <- MCDeparture
  Arrival <- MCArrival
  Mean <- MCMean
  Draws <- MCDraws
  PrefTimes <- MCPref
  DayLength = 3
  RefTime = 1
  TicksPerMs = 2
  One = 10
  MaxArrivals = 0
  NbRuns = 2
INVARIANTS TypeOK OneLiveRequest RequestsAccounted ChainUnbroken SanityCheckHolds ActualTally StampsCloseToTimes
PROPERTIES ImplementsPlan NearChronological AllRunsComplete
