SPECIFICATION Spec
CONSTANTS
  None = None
  MaxNesting = 3
  Documents <- MCDocuments
  Values <- MCValues
  FastValues <- MCFastValues
  Modes <- MCModes
  StrLen <- MCStrLen
  Matches <- MCMatches
  BadFormat <- MCBadFormat
INVARIANTS
  VisitDecides
  FastVisitDecides
  SingleErrorIsAmongAll
  PointersLead
  DeathsAreKnown
  LoadDecides
CHECK_DEADLOCK FALSE
