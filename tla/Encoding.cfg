SPECIFICATION Spec
CHECK_DEADLOCK FALSE
CONSTANTS
  Merchant = Merchant
  Stranger = Stranger
  Token = Token
  Buyer = Buyer
  Facilitator = Facilitator
  Permit402 = Permit402
  Zero = Zero
  TronNetworks = {"nile"}
  Contract <- MCContract
  Deployments <- MCDeployments
  ChainID <- MCChainID
  Registry <- MCRegistry
  Numbers <- MCNumbers
  TokenDomain <- MCTokenDomain
  PaymentID = PaymentID
  NoFee = NoFee
  Error = Error
INVARIANTS
  HashedAsOnChain
  SpellingIsFree
  VerifiedIsAgreed
  VerifiedIsSubmitted
