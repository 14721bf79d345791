SPECIFICATION OnceSpec
CONSTANTS
  Emails = {a}
  Links = {l1}
  Files = {f1}
  Titles = {t1}
  Calls = {r1, r2}
  None = None
  Names = {"batch", "section"}
  Unique = {"section"}
  Providers = 1
  MaxRounds = 1
  MaxApprovals = 1
  MaxCopies = 2
INVARIANTS LinkOrApprovalUsedOnce
