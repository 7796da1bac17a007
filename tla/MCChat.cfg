SPECIFICATION Spec
CONSTANTS
  Users = {u1, u2}
  Rooms = {rm1, rm2}
  Sockets = {s1, s2}
  Requests = {r1, r2}
  MaxMessages = 2
  None = None
SYMMETRY Symmetry
INVARIANTS
  JoinThenFetchMissesNothing
  ListenersAreConnected
  LastMessageIsNewest
PROPERTIES
  ImplementsChatLedger
