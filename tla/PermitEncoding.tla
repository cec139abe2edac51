---------------------------- MODULE PermitEncoding --------------------------
(***************************************************************************)
(* The addresses of a permit402 permit on their way to the contract.  Each *)
(* is a text; the client, the comparison with the requirement, the digest  *)
(* under the signature and the transaction's arguments all read the text   *)
(* by rules of their own, and the EVM and the Tron code differ again; so   *)
(* does the token registry, in which the token's text is looked up.        *)
(***************************************************************************)
EXTENDS TypedData

CONSTANTS Merchant, Stranger, Token, Buyer, Facilitator, Permit402, \* accounts
          TronNetworks,   \* the networks whose name begins with tron:
          ChainID,        \* GetChainID of a network
          Contract,       \* Permit402Addresses: the text configured for a network
          Deployments,    \* the [network, mechanism, signer] a facilitator may run
          Registry,       \* the accounts of a network's tokens, each with a base fee
          Numbers,        \* amounts, nonce, window, ptype: read alike by everyone
          TokenDomain,    \* name and version of the token, as registry and token have them
          PaymentID,      \* the 16 bytes the server chose
          NoFee           \* the requirement has no quote

VARIABLES stage,          \* how far the payment is
          at,             \* the facilitator's deployment
          feeTo,          \* the facilitator's FeeTo, as configured
          req,            \* the requirement's texts
          permit,         \* the texts of the permit or authorization
          signed,         \* the digest under the signature
          submitted       \* the contract that is called, and its arguments

vars == <<stage, at, feeTo, req, permit, signed, submitted>>

\* What a network's users write.
Customary(network) == IF network \in TronNetworks THEN {"0x", "base58"} ELSE {"0x", "bare"}

\* FindByAddress # nil.  The registry's own texts are base58 on Tron, where a 0x text is
\* converted before it is compared, and 0x elsewhere, where only the case is folded.
FindByAddress(t, network) ==
  /\ t.account \in Registry[network]
  /\ t.form \in IF network \in TronNetworks THEN {"0x", "base58"} ELSE {"0x"}

-----------------------------------------------------------------------------
\* norm of the EVM mechanism: on Tron ToHex, or the text itself; elsewhere a 0x in
\* front, also of what is not hexadecimal.
NormEvm(t, network) ==
  IF t = Empty THEN t
  ELSE IF network \in TronNetworks THEN IF ToHex(t) = Error THEN t ELSE ToHex(t)
  ELSE IF t.form = "bare" THEN Text("0x", t.account) ELSE t

\* norm of the Tron mechanism.
NormTron(t) == IF ToHex(t) = Error THEN t ELSE ToHex(t)

\* mutant: only hexadecimal texts are understood
NormHex(t, d) == Text("0x", HexToAddress(t))

\* transfer_auth only folds the case.
Norm(t, d) == CASE d.mechanism = "evm"  -> NormEvm(t, d.network)
                [] d.mechanism = "tron" -> NormTron(t)
                [] d.mechanism = "auth" -> t

\* mutant: base58 reaches the hash unconverted
ConvertNothing(t) == t

\* ConvertPermitToEIP712Message, its addresses: base58 becomes 0x, all else stays.
Convert(t) == IF t.form = "base58" THEN ToHex(t) ELSE t

\* PaymentIDToBytes wants the 0x.
PaymentIDToBytes(t) == IF t.form = "0x" THEN t.account ELSE Error

\* eip712MessageToMap of the converted permit.
PermitMessage(p) ==
  [meta    |-> [ptype |-> Numbers.ptype, paymentId |-> PaymentIDToBytes(p.paymentId),
                nonce |-> Numbers.nonce, validAfter |-> Numbers.validAfter,
                validBefore |-> Numbers.validBefore],
   buyer   |-> Convert(p.buyer),
   payment |-> [payToken |-> Convert(p.payToken), payAmount |-> Numbers.payAmount,
                payTo |-> Convert(p.payTo)],
   fee     |-> [feeTo |-> Convert(p.feeTo), feeAmount |-> Numbers.feeAmount]]

PermitDigest(p, network, contract) ==
  EIP712Hash([name |-> "Permit402", chainId |-> ChainID[network],
              verifyingContract |-> contract],
             PermitTypes, PermitMessage(p), "Permit402Details")

\* The domain of a token the registry does not find.
UnknownDomain == [name |-> "Unknown Token", version |-> "1"]

\* The domain client and facilitator of transfer_auth look up.
LookedUpDomain(network) ==
  IF FindByAddress(req.payToken, network) THEN TokenDomain ELSE UnknownDomain

\* transfer_auth hashes the texts as they are, for the token of the requirement.
AuthorizationDigest(p, network) ==
  EIP712Hash([name |-> LookedUpDomain(network).name,
              version |-> LookedUpDomain(network).version,
              chainId |-> ChainID[network], verifyingContract |-> req.payToken],
             AuthorizationTypes,
             [from |-> p.buyer, to |-> p.payTo, value |-> Numbers.payAmount,
              validAfter |-> Numbers.validAfter, validBefore |-> Numbers.validBefore,
              nonce |-> Numbers.nonce],
             "TransferWithAuthorization")

\* The domain's contract; Tron code converts it, whatever the mechanism.
DomainContract(network) ==
  IF network \in TronNetworks THEN ToHex(Contract[network]) ELSE Contract[network]

Digest(p, d) == IF d.mechanism = "auth" THEN AuthorizationDigest(p, d.network)
                ELSE PermitDigest(p, d.network, DomainContract(d.network))

\* VerifyTypedData: who signed is the permit's buyer.  Neither signer takes every
\* spelling of the buyer.
BuyerOf(p, d) == IF d.signer = "evm" THEN HexToAddress(p.buyer)
                 ELSE IF ToHex(p.buyer) = Error THEN Error ELSE ToHex(p.buyer).account

\* buildPermitArg of the EVM mechanism,
ArgEvm(t) == HexToAddress(t)

\* mutant: the Tron mechanism reads its arguments as the EVM mechanism does
ArgHex(t) == HexToAddress(t)

\* and of the Tron mechanism, by normalizeTronEvmAddress.
ArgTron(t) == IF t = Empty THEN Zero ELSE t.account

Arg(t, d) == IF d.mechanism = "tron" THEN ArgTron(t) ELSE ArgEvm(t)

\* The contract WriteContract calls: Permit402, or the token itself.
Target(d) ==
  LET called == IF d.mechanism = "auth" THEN req.payToken ELSE Contract[d.network]
  IN IF d.signer = "evm" THEN HexToAddress(called) ELSE ToApiHex(called)

\* External: the digest a contract checks the signature against.
OnChain(d, self, arguments) ==
  IF d.mechanism = "auth"
  THEN AuthorizationOnChain(self, ChainID[d.network], TokenDomain, arguments, Numbers)
  ELSE PermitOnChain(self, ChainID[d.network], arguments, Numbers)

-----------------------------------------------------------------------------
\* FeeQuote: the Tron mechanism quotes 0x, the EVM mechanism what is configured.
QuotedFeeTo(d, own) == IF d.mechanism = "evm" \/ ToHex(own) = Error THEN own ELSE ToHex(own)

Accounts == {Zero, Merchant, Stranger, Token, Buyer, Facilitator, Permit402}
AnyText  == Texts(Forms, Accounts) \cup {Empty}

\* The facts of config.go and setup the rest relies on: a signer and a mechanism for
\* the kind of network, and a contract in that network's spelling, or none.
ASSUME EncodingAssumption ==
  /\ \A d \in Deployments :
       /\ d.network \in DOMAIN Contract
       /\ d.mechanism \in {"evm", "tron", "auth"}
       /\ d.signer = IF d.network \in TronNetworks THEN "tron" ELSE "evm"
       /\ d.mechanism = "auth" => d.network \notin TronNetworks
       /\ d.mechanism = "tron" => d.network \in TronNetworks
  /\ \A n \in DOMAIN Contract :
       Contract[n] \in IF n \in TronNetworks THEN Texts({"base58"}, {Permit402})
                      ELSE Texts({"0x"}, {Permit402}) \cup {Empty}
  /\ ChainID \in [DOMAIN Contract -> Nat]
  /\ DOMAIN Registry = DOMAIN Contract
  /\ Numbers \in [{"ptype", "nonce", "validAfter", "validBefore", "payAmount", "feeAmount"} -> Nat]
  /\ Zero \notin {Merchant, Stranger, Token, Buyer, Facilitator, Permit402}
  /\ Stranger \notin {Merchant, Token, Buyer, Facilitator}
  /\ Error \notin Accounts \cup {PaymentID} \cup AnyText
  /\ NoFee \notin AnyText

Init ==
  /\ stage = "asked"
  /\ at \in Deployments
  /\ feeTo \in Texts(Customary(at.network), {Facilitator})
  /\ req \in [payToken : Texts(Customary(at.network), {Token}),
              payTo : Texts(Customary(at.network), {Merchant}),
              feeTo : {QuotedFeeTo(at, feeTo), NoFee}]
  /\ req.feeTo # NoFee => FindByAddress(req.payToken, at.network)
  /\ permit = Error /\ signed = Error /\ submitted = Error

Asked(f) == IF f = "buyer" THEN Text("0x", Buyer)
            ELSE IF req[f] = NoFee THEN Text("0x", Zero) ELSE req[f]

\* The permit's texts, by the reader each of its addresses goes through first.
Filled(Read(_)) == [f \in Fields \cup {"paymentId"} |->
                      IF f = "paymentId" THEN Text("0x", PaymentID) ELSE Read(Asked(f))]

Unread(t) == t

\* The EVM client passes the requirement's texts on.
SignEvm == /\ stage = "asked" /\ at.network \notin TronNetworks /\ at.mechanism # "auth"
           /\ permit' = Filled(Unread)
           /\ signed' = PermitDigest(permit', at.network, Contract[at.network])
           /\ stage' = "signed"
           /\ UNCHANGED <<at, feeTo, req, submitted>>

\* The Tron client makes them 0x, and asks the node for the allowance on the way.
SignTron ==
  /\ stage = "asked" /\ at.network \in TronNetworks
  /\ IF ToApiHex(req.payToken) = Error
     THEN stage' = "failed" /\ UNCHANGED <<permit, signed>>
     ELSE /\ permit' = Filled(ToHex)
          /\ signed' = PermitDigest(permit', at.network, ToHex(Contract[at.network]))
          /\ stage' = "signed"
  /\ UNCHANGED <<at, feeTo, req, submitted>>

\* An authorization names buyer and payee; it has no fee, no id, and its token is the
\* requirement's.
Authorized(buyer, payee) == [buyer |-> buyer, payTo |-> payee, payToken |-> req.payToken,
                             feeTo |-> Text("0x", Zero), paymentId |-> Text("0x", PaymentID)]

SignAuthorization == /\ stage = "asked" /\ at.mechanism = "auth"
                     /\ permit' = Authorized(Text("0x", Buyer), req.payTo)
                     /\ signed' = AuthorizationDigest(permit', at.network)
                     /\ stage' = "signed"
                     /\ UNCHANGED <<at, feeTo, req, submitted>>

\* The accounts a permit's texts spell.
Spelt(p) == [f \in Fields \cup {"paymentId"} |-> p[f].account]

ContractAccount == IF at.mechanism = "auth" THEN req.payToken.account
                   ELSE Contract[at.network].account

\* What another client may write: any form, and at most one account that is wrong.
Writes(wrong) ==
  LET Of(f, right) == IF f = wrong THEN Stranger ELSE right IN
  IF at.mechanism = "auth"
  THEN {Authorized(buyer, payee) : buyer \in Texts(Forms, {Of("buyer", Buyer)}),
                                   payee \in Texts(Forms, {Of("payTo", Merchant)})}
  ELSE [buyer     : Texts(Forms, {Of("buyer", Buyer)}),
        payToken  : Texts(Forms, {Of("payToken", Token)}),
        payTo     : Texts(Forms, {Of("payTo", Merchant)}),
        feeTo     : Texts(Forms, {Zero, Of("feeTo", Facilitator)}) \cup {Empty},
        paymentId : Texts({"0x", "bare"}, {PaymentID})]

\* It signs, for the contract, what it means.
SignElsewhere ==
  /\ stage = "asked"
  /\ \E wrong \in Fields \cup {"none"} : permit' \in Writes(wrong)
  /\ signed' = OnChain(at, ContractAccount, Spelt(permit'))
  /\ stage' = "signed"
  /\ UNCHANGED <<at, feeTo, req, submitted>>

\* validatePermit's three addresses, and the base fee of the permit's token, without
\* which no fee is unsupported_token; an authorization has but the payee.
Matches == /\ Norm(permit.payTo, at) = Norm(req.payTo, at)
           /\ at.mechanism # "auth" =>
                /\ Norm(permit.payToken, at) = Norm(req.payToken, at)
                /\ Norm(permit.feeTo, at) \in {Text("0x", Zero), Norm(feeTo, at)}
                /\ Norm(permit.feeTo, at) # Text("0x", Zero) =>
                     FindByAddress(permit.payToken, at.network)

Accepted == /\ Matches
            /\ PaymentIDToBytes(permit.paymentId) # Error
            /\ Digest(permit, at) = signed
            /\ BuyerOf(permit, at) = Buyer

Verify == /\ stage = "signed"
          /\ stage' = IF Accepted THEN "verified" ELSE "refused"
          /\ UNCHANGED <<at, feeTo, req, permit, signed, submitted>>

Arguments == [f \in Fields \cup {"paymentId"} |->
                IF f = "paymentId" THEN PaymentIDToBytes(permit.paymentId) ELSE Arg(permit[f], at)]

Settle == /\ stage = "verified"
          /\ submitted' = [target |-> Target(at), arguments |-> Arguments]
          /\ stage' = "submitted"
          /\ UNCHANGED <<at, feeTo, req, permit, signed>>

Next == SignEvm \/ SignTron \/ SignAuthorization \/ SignElsewhere \/ Verify \/ Settle

Spec == Init /\ [][Next]_vars

-----------------------------------------------------------------------------
Agreed == /\ permit.buyer.account = Buyer
          /\ permit.payTo.account = Merchant
          /\ permit.payToken.account = Token
          /\ permit.feeTo.account \in {Zero, Facilitator}

\* The spellings a payment may use: the network's customary ones and the 0x of an id;
\* transfer_auth wants the payee in the requirement's own.
RightlySpelt == /\ \A f \in Fields : permit[f].form \in Customary(at.network)
                /\ permit.paymentId.form = "0x"
                /\ at.mechanism = "auth" => permit.payTo.form = req.payTo.form

\* The registry finds the token where it is asked for it: for the name in an
\* authorization's domain, and for the base fee of a permit that pays one.
TokenFound == IF at.mechanism = "auth" THEN FindByAddress(req.payToken, at.network)
              ELSE \/ permit.feeTo.account = Zero
                   \/ FindByAddress(permit.payToken, at.network)

\* What code and contract hash of one rightly spelt permit is the same, whoever signed
\* it and for whatever accounts: the types in their order, every member, every spelling.
\* An authorization for a token the registry does not find, if only for want of a 0x,
\* is hashed for an "Unknown Token", by client and facilitator alike.
HashedAsOnChain ==
  stage \notin {"asked", "failed"} /\ RightlySpelt /\ (at.mechanism = "auth" => TokenFound) =>
    Digest(permit, at) = OnChain(at, ContractAccount, Spelt(permit))

\* Whoever signs, with any wallet, for the accounts the requirement names is not
\* refused for the way they are spelt, as long as the spelling is one of the network's,
\* on Tron also the base58 texts "some clients may still send", and the token's is one
\* the registry finds: a token without its 0x is "unsupported_token" once it pays a fee.
SpellingIsFree == stage = "refused" => ~Agreed \/ ~RightlySpelt \/ ~TokenFound

\* A permit that passes Verify is its signer's own, pays the merchant in the token
\* asked for, and its fee to nobody else, whatever texts compared equal.
VerifiedIsAgreed == stage = "verified" => Agreed

\* The mechanism named after the network's kind.
OwnMechanism == at.network \in TronNetworks <=> at.mechanism = "tron"

\* The contract that is called computes, from the arguments it gets, the digest that
\* was signed: otherwise it refuses what Verify has accepted, after the gas is spent.
\* That does happen to an authorization for a token the registry does not find; and the
\* EVM mechanism on a Tron network submits the zero account for a base58 text that its
\* own Verify understands.
VerifiedIsSubmitted ==
  stage = "submitted" /\ OwnMechanism /\ (at.mechanism = "auth" => TokenFound)
    => OnChain(at, submitted.target, submitted.arguments) = signed
=============================================================================
