CONSTANTS
  r1 = r1
  r2 = r2
  t1 = t1
  t2 = t2
  read = read
  write = write
  key = key
  Requests <- MCRequests
  Tokens <- MCTokens
  Scopes = {read, write}
  Grants <- MCGrants
  Creds = {key}
  NoToken = NoToken
  NoScope = NoScope
  None = None
  Operations <- MCOperations
  Unset = Unset
  Global <- MCGlobal
  Validators = {"none", "jwt", "introspection"}
SPECIFICATION Spec
INVARIANTS
  TypeOK
  AcceptedForAReason
  RejectedForAReason
  CacheIsGiven
SYMMETRY Symmetric
