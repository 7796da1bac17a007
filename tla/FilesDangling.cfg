SPECIFICATION Spec
CONSTANTS
  f1 = f1
  f2 = f2
  f3 = f3
  o1 = o1
  o2 = o2
  Files = {f1}
  Objects = {o1, o2}
  ObjectOf <- OneName
  Raw = {o2}
  Users = {u1}
  Slots = {s1}
  Requests = {r1, r2}
  None = None
INVARIANT RowsAreStored
