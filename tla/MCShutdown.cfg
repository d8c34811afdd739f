CONSTANTS
  c1 = c1
  c2 = c2
  p1 = p1
  k1 = k1
  k2 = k2
  k3 = k3
  Conns <- MCConns
  Probes = {}
  Clients = {k1, k2}
  NoClient = NoClient
  MaxCap = 1
  InitialCap = 1
  Modes <- SomeModes
SPECIFICATION FairSpec
PROPERTIES
  RequestsAnswered
  SignalStops
