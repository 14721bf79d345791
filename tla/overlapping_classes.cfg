SPECIFICATION Spec
CONSTANTS
  Students = {s1}
  Classes = {c1, c2}
  Requests = {r1, r2}
  MinObs = 1
  Percent = 75
  MaxChanges = 1
INVARIANTS CountedOrMailedAsClaimed
