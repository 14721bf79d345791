SPECIFICATION Spec
CONSTANTS
  Students = {s1}
  OnLeave = {}
  Codes = {c1}
  Tokens = {t1}
  Requests = {r1, r2}
  MaxVersion = 1
  MaxAttempts = 1
  MaxCodeAttempts = 1
  ManualStatuses = {"present"}
  Workload = {"start", "past"}
  None = None
SYMMETRY Symmetry
PROPERTIES PastMarkIsRecorded
