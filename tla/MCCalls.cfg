SPECIFICATION CallSpec
CONSTANTS
  Sockets = {s1, s2, s3}
  Rooms = {rm1}
  Requests = {r1, r2}
  MaxSignals = 2
  None = None
INVARIANTS
  CausalOrder
  RelayedWereHeard
PROPERTIES
  EverySignalIsAnswered
