SPECIFICATION Spec
CONSTANTS
  Users = {m, a}
  Projects = {p1}
  Titles = {t1}
  Requests = {r1}
  None = None
PROPERTY SentInvitationIsOpen
