SPECIFICATION Spec
CONSTANTS
  Users = {m, a}
  Projects = {p1, p2}
  Titles = {t1, t2}
  Requests = {r1, r2}
  None = None
SYMMETRY Symmetry
INVARIANTS
  AcceptedAreMembers
  PendingAreOutsiders
  RoomIsMembers
  TitlesUnique
  MembersHaveAccepted
PROPERTIES
  AnswerIsFinal
  RemovalIsFinal
  ImplementsLedger
