SPECIFICATION Spec
CONSTANTS
  Users = {u1, u2}
  Projects = {p1, p2}
  TeamIds = {t1}
  MaxTasks = 2
  Limit = 1
  Requests = {r1, r2}
  None = None
  Drafts <- Asked
  Listings <- Sent
  Wallets <- Booked
SYMMETRY Symmetry
INVARIANTS
  AssigneesParticipate
  SubmissionsFit
  ViewsAgree
  LoneTableIsCounted
PROPERTIES
  PagesMissNothing
