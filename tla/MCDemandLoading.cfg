SPECIFICATION FairSpec
CONSTANTS
  Files <- MCFiles
  NoFile = NoFile
  LastDate = 7
  WeekLength = 3
  DtdUnit = 2
INVARIANTS RowIsolated PrefixLoaded NoErrorIsSwallowed ExpectationFollowsStreams
PROPERTY LoadingEnds
