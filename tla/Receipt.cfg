SPECIFICATION SignerSpec
CHECK_DEADLOCK FALSE
CONSTANTS
  Timeout = 3
  Codes = {"confirmed", "FAILED"}
  ReportedFailed = {"FAILED"}
  MaxErrors = 1
  Calls = {mine, second, third}
  Mine = mine
  Networks = {home, other}
  Home = home
INVARIANTS
  SignerTypeOK
  CollisionNeedsOverlap
  BoundedWait
  LastSecondPolled
PROPERTIES
  ErrorsAreRetried
  CallEnds
  RaceOnlyAtFirstUse
  ImplementsReceiptAnswer
