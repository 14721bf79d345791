SPECIFICATION AcademicSpec
CONSTANTS
  Students = {s1}
  Sections = {north, south}
  None = none
  N = 2
  LastDay = 4
  Starts = {1, 4}
  Ends = {2, 4}
  Handlers = {h1, h2}
  MaxRows = 2
  MaxEdits = 3
  Batches = {b1, b2}
  Offerings = {o1}
  Routines = {e1}
  MaxCourseEdits = 2
  Names = {"batch", "section"}
  Unique = {"section"}
  Providers = 2
  MaxRounds = 2
  MaxApprovals = 2
  MaxCopies = 2
SYMMETRY Symmetry
INVARIANTS AcademicTypeOK NeverWithoutSection RunsMatchPlacements MembersInBatch EntryWithinOffering
PROPERTIES HistoryKept NoSecondCopy
