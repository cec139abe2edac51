SPECIFICATION FairSpec
CONSTANTS
  r1 = r1
  r2 = r2
  b1 = b1
  d1 = d1
  d2 = d2
  NoDelivery = NoDelivery
  Requests <- OneRequest
  Buyers <- Buyer
  Deliveries <- TwoDeliveries
  BuyerOf <- OneBuyerOf
  Owner <- OneOwner
  FailureCodes <- EvmCodes
  ReportedFailed <- EvmCodes
  GasEstimated = TRUE
  Funds = 2
  MaxClock = 3
  Window = 1
  Buffer = 1
  OfferedSchemes <- BothSchemes
  RandomOf <- OneRandom
INVARIANTS
  TypeOK
  ServedIsPaid
  ServedOnce
  DefiniteFailureIsFree
PROPERTY
  PaymentDecided
