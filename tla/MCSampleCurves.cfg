SPECIFICATION SweepSpec
CONSTANTS
  MaxPoints = 3
  MaxValue = 4
  MaxMasses = 3
  One = 4
INVARIANT SampleCurvesCumulative
CHECK_DEADLOCK FALSE
