SPECIFICATION ServicesSpec
CONSTANTS
  Students = {s1}
  OnLeave = {}
  Codes = {c1, c2}
  Tokens = {t1, t2}
  Requests = {r1, r2}
  MaxVersion = 2
  MaxAttempts = 1
  MaxCodeAttempts = 1
  ManualStatuses = {"present"}
  Workload = {"start", "qr", "scan", "code", "confirm", "decide", "finalize"}
  None = None
  Mails = {1, 2}
  Secret = {1}
  Alerts = {2}
  Workers = {w1, w2, w3}
  BatchSize = 1
  MaxTries = 2
  MaxCrashes = 1
INVARIANTS TypeOK OneLiveChallenge MailTypeOK DeliveredOnce
PROPERTIES CheckInSpendsLiveToken EveryHandlerEnds ImplementsOutbox EveryMailTried
