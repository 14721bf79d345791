SPECIFICATION TimetableSpec
CONSTANTS
  Classes = {c1, c2}
  Days = {mon, tue}
  Places = {p1, p2}
  None = None
  Off = Off
  Targets = {p1, p2, Off}
  Requests = {r1, r2}
  MaxSuggestions = 1
  MaxWork = 2
  Kinds = {"section", "bulk"}
  Physical = {c1}
  MaxRows = 3
  MaxChanges = 1
SYMMETRY Symmetry
INVARIANTS TypeOK WeekClear DateClear OneOverride NothingForgotten OnePhysicalClass
