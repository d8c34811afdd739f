CONSTANTS
  u1 = u1
  u2 = u2
  m1 = m1
  m2 = m2
  k1 = k1
  k2 = k2
  k3 = k3
  k4 = k4
  Users <- MCUsers
  Closers <- MCClosers
  Clients <- MCClients
  NoClient = NoClient
  NoCloser = NoCloser
  MaxCap = 1
  InitialCap = 1
SPECIFICATION FairSpec
INVARIANTS
  TypeOK
  NoPanic
  ClientsNotShared
PROPERTIES
  ClosedPoolOnlyDrains
  KeepsPromise
  CloseReturns
  CallsReturn
