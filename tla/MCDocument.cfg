SPECIFICATION DocSpec
CONSTANTS
  None = None
  Nil = Nil
  Root = Root
  MaxDepth = 26
  Documents <- MCDocuments
  Tokens <- MCTokens
  Unnameable = {"a b"}
  Variables = {"{}", "{x}", "{y}", "{z*}", "{v}", "{w}"}
  Wildcards = {"{z*}"}
  OpenBrace = "{"
  Methods = {"GET", "POST"}
  Unstarred <- MCUnstarred
  Escape = "%"
  Requests <- MCRequests
  AddedRoutes <- MCAddedRoutes
INVARIANTS
  DocTypeOK
  LoadedIsResolved
  RefusedForAReason
  OverflowsOnAliasCycles
  FindsMostSpecific
  AcceptedCanBeServed
  PanicsAreKnown
PROPERTIES
  KeepsMeaning
