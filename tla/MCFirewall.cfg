CONSTANTS
  c1 = c1
  c2 = c2
  p1 = p1
  k1 = k1
  k2 = k2
  k3 = k3
  Conns <- MCConns
  Probes <- MCProbes
  Clients <- MCClients
  NoClient = NoClient
  MaxCap = 1
  InitialCap = 1
  Modes <- AllModes
SPECIFICATION Spec
INVARIANTS
  TypeOK
  OnlyAllowedReachBackend
  OnlyAllowedReachClient
  ClientsReturned
  PoolOutlivesConnections
  NotReadyMeansClosed
SYMMETRY Symmetric
