SPECIFICATION LSpec
CONSTANTS
  Absent = Absent
  Partial = Partial
  Contents <- Registries
  Peers = {p1, p2}
  Codes = {c1}
  MaxPeers = 1
  MaxAttempts = 2
INVARIANTS
  OnlyConfirmedPeers
  AtMostOneLateAnswer
  RevocationIsFinal
PROPERTIES
  SaveIsAtomic
  ShutdownCompletes
