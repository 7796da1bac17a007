SPECIFICATION Spec
CONSTANTS
  Passwords = {w1}
  Codes = {c1, c2}
  Requests = {r1, r2}
  Second = 2
  CodeLife = 1
  GrantLife = 1
  MaxClock = 3
  None = None
SYMMETRY Symmetry
INVARIANTS
  StoredCodeWasMailed
  VerifiedByMail
  UsedWasAccepted
PROPERTIES
  StaleStayRefused
  CodeAcceptedOnce
