SPECIFICATION Spec
CONSTANTS
  Registry <- MCRegistry
  Known <- MCKnown
  Mechanisms <- MCMechanisms
  Schemes <- MCSchemes
  Supported <- MCSupported
  Allowed <- MCAllowed
  Configs <- MCConfigs
  FeeTables <- MCFeeTables
  MaxConfigs = 2
  MaxInt = 3
  Window = 2
  DefaultTimeout = 2
  MaxSkew = 1
  ValidFors <- MCValidFors
  ClientKnown <- MCClientKnown
  ForeignTerms <- MCForeignTerms
  UnknownToken = UnknownToken
  Buffer = 1
  MaxClock = 5
  FeeTo = FeeTo
  Zero = Zero
  NoFee = NoFee
  NoAmount = NoAmount
  ServerError = ServerError
  None = None
INVARIANTS TypeOK SignedTermsAccepted SettledTermsPay FeeOfOwnToken TimeoutHonoured TooEarlyIsServerSkew SelectorObeyed
CHECK_DEADLOCK FALSE
