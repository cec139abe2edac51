SPECIFICATION Spec
CONSTANTS
  r1 = r1
  r2 = r2
  b1 = b1
  d1 = d1
  d2 = d2
  NoDelivery = NoDelivery
  Requests <- TwoRequests
  Buyers <- Buyer
  Deliveries <- TwoDeliveries
  BuyerOf <- TwoBuyerOf
  Owner <- TwoOwner
  FailureCodes <- TronCodes
  ReportedFailed <- TronCodes
  GasEstimated = FALSE
  Funds = 2
  MaxClock = 2
  Window = 1
  Buffer = 1
  OfferedSchemes <- BothSchemes
  RandomOf <- TwoRandom
INVARIANTS
  AuthorizationIsOwn
  ServedOnce
  DefiniteFailureIsFree
PROPERTY
  ImplementsPaidAccess
