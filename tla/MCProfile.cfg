SPECIFICATION Spec
CONSTANTS
  Users = {u1, u2}
  Names = {n1, n2}
  Sizes = {small, full}
  Requests = {r1, r2}
  MaxImages = 3
  None = None
INVARIANTS
  AccountsSurvive
  ShownPicturesAreStored
  NothingLeftBehind
PROPERTIES
  EveryUpdateEnds
