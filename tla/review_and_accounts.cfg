SPECIFICATION PeopleSpec
CONSTANTS
  Students = {s1, s2}
  OnLeave = {s2}
  Codes = {c1}
  Tokens = {t1}
  Requests = {r1, r2}
  MaxVersion = 1
  MaxAttempts = 1
  MaxCodeAttempts = 1
  ManualStatuses = {"present"}
  Workload = {"start", "cancel", "scan", "confirm", "decide", "mark", "finalize", "past", "patch"}
  None = None
  Threads = {r1, r2}
  MaxFailed = 2
  MaxPasswords = 3
  MaxVersions = 2
  MaxInvites = 2
  MaxSessions = 1
  NoLink = NoLink
  Images = {i1, i2, i3}
  Jpegs = {i1, i2}
  NoImage = NoImage
SYMMETRY PeopleSymmetry
INVARIANTS CompletedHasRoster AcceptedHasRecord UserTypeOK SessionsFollowPassword LinkFollowsPassword LockMatchesMisses OneInvitation PictureIntact
PROPERTIES CheckInOnlyWhileActive ImplementsLedger
