SPECIFICATION Spec
CONSTANTS
  None = None
  MaxNesting = 3
  StrLen <- MCStrLen
  Matches <- MCMatches
  BadFormat = {}
  ParseFloat <- MCParseFloat
  ParseBool <- MCParseBool
  ParseJSON <- MCParseJSON
  Spelled <- MCSpelled
  Items <- MCItems
  Members <- MCMembers
  Doc <- MCDoc
  PropertyNames <- MCNames
  Operations <- MCOperations
  Requests <- MCRequests
  Replies <- MCReplies
INVARIANTS
  TypeOK
  PassedParametersConform
  FailedParametersDoNot
  BodiesAreJudged
