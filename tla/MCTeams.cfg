SPECIFICATION Spec
CONSTANTS
  Users = {u1, u2, u3}
  Projects = {p1, p2}
  TeamIds = {t1, t2}
  Names = {n1, n2}
  Requests = {r1, r2}
  None = None
SYMMETRY Symmetry
INVARIANTS
  TeamsWithinProjects
  RoomIsTeam
  TeamNamesUnique
