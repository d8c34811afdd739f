SPECIFICATION Spec
CONSTANTS
  None = None
  MaxNesting = 3
  Documents <- MCDocuments
  Values <- MCValues
  FastValues <- MCFastValues
  Modes <- MCModes
  StrLen <- MCStrLen
  Matches <- MCMatches
  BadFormat <- MCBadFormat
INVARIANT FailFastIsOnlyQuicker
CHECK_DEADLOCK FALSE
