SPECIFICATION OfficeSpec
CONSTANTS
  Students = {s1}
  Classes = {c1, c2}
  Requests = {r1, r2}
  MinObs = 1
  Percent = 75
  MaxChanges = 1
  Emails = {a, b}
  Links = {l1}
  Files = {f1}
  Titles = {t1, t2}
  None = None
SYMMETRY Symmetry
INVARIANTS TypeOK CountedOnce OneActive AlertTracksRate MailedAtOpening TokenOfAccount RowsMatchFiles
