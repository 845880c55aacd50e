SPECIFICATION SweepSpec
CONSTANTS
  MaxPoints = 3
  MaxValue = 4
  MaxMasses = 3
  One = 4
INVARIANTS InvertsCurve SharesFollowMasses SampleRequestsComplete LaterPaysMore
CHECK_DEADLOCK FALSE
