SPECIFICATION FairSpec
CONSTANTS
  c1 = c1
  c2 = c2
  k1 = k1
  k2 = k2
  Connections <- MCConnections
  Clients <- MCClients
  QueueCapacity = 2
  MaxClients = 2
  MaxConnections = 2
  MaxOutstanding = 2
  StreamCapacity = 1
  PollLimit = 1
  MaxPublished = 2
INVARIANTS
  ServedIsAttached
  SoleController
  AdmissionIsReturned
PROPERTIES
  NoSilentGap
  DisconnectDoesNotPause
