SPECIFICATION Spec
CONSTANTS
  Amounts = {1}
  Openings = {1}
  Teams = {t1}
  Requests = {r1}
  MaxTotal = 2
  None = None
PROPERTY TransferMovesFunds
