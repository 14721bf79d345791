SPECIFICATION MailFairSpec
CONSTANTS
  Mails = {1}
  Secret = {1}
  Alerts = {}
  Workers = {w1, w2}
  BatchSize = 1
  MaxTries = 2
  MaxCrashes = 2
PROPERTIES FailedIsRetried
