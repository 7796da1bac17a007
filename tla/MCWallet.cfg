SPECIFICATION Spec
CONSTANTS
  Amounts = {1, 2}
  Openings = {0, 2}
  Teams = {t1}
  Requests = {r1, r2}
  MaxTotal = 4
  None = None
SYMMETRY Symmetry
INVARIANTS
  NeverOverdrawn
  WithinBooks
  BooksBalance
PROPERTY CreatedOnce
