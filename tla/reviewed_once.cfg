SPECIFICATION Spec
CONSTANTS
  Students = {s1}
  OnLeave = {}
  Codes = {c1}
  Tokens = {t1}
  Requests = {r1, r2}
  MaxVersion = 1
  MaxAttempts = 2
  MaxCodeAttempts = 1
  ManualStatuses = {"present"}
  Workload = {"start", "scan", "confirm", "decide", "cancel"}
  None = None
SYMMETRY Symmetry
PROPERTIES ReviewedOnce
