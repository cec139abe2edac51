----------------------------- MODULE PaymentTerms ---------------------------
(***************************************************************************)
(* The terms of one payment on their way through the three parties: the    *)
(* server builds requirements, asks the facilitator for fees and joins     *)
(* them, the client selects one and signs what it says, the facilitator    *)
(* checks the signed terms against the requirement.  Meanwhile time passes *)
(* and the facilitator may be restarted with another fee table.  clock is  *)
(* the facilitator's; server and client each read a clock of their own     *)
(* once in a payment, which may be off from it by MaxSkew.  The client is  *)
(* the SDK's own or another one, which signs what it likes.                *)
(***************************************************************************)
EXTENDS FacilitatorTerms, SequencesExt

CONSTANTS Configs,        \* bound: the configs a payment-config answer may hold
          MaxConfigs,     \* bound: how many of them
          FeeTables,      \* bound: the fee tables the facilitator may run with
          Schemes,        \* the schemes a paywall may be configured with
          ValidFors,      \* the ValidFor of paywalls, 0 where there is none
          Supported,      \* <<network, scheme>> pairs the client has mechanisms for
          ClientKnown,    \* the client's own registry
          ForeignTerms,   \* bound: the terms another client may sign
          Allowed,        \* AllowedTokens of the transfer_auth facilitator
          Window,         \* 3600 s
          Buffer,         \* ValidityBufferSeconds: 30 s
          MaxSkew,        \* how far clocks are apart
          MaxClock,       \* bound: the last tick of the clock
          None            \* nothing yet

VARIABLES stage,          \* how far the payment is
          accepts,        \* PaymentRequired.Accepts
          fees,           \* BaseFee of the running facilitator
          quoted,         \* the table accepts was quoted from, or None
          clock,          \* the facilitator's unix seconds, scaled down
          issued,         \* when, by that clock, the 402 response was made
          opened,         \* what the server's clock said then
          picked,         \* what the Selector returned, or None
          chosen,         \* the requirement the client selected
          wallet,         \* the client: "sdk" or "other"
          signed,         \* the terms it signed
          verdict         \* InvalidReason of the last check, or "valid"

vars == <<stage, accepts, fees, quoted, clock, issued, opened, picked, chosen, wallet, signed, verdict>>

ASSUME PaymentAssumption ==
  /\ Window \in Nat /\ Buffer \in Nat /\ MaxClock \in Nat \ {0}
  /\ MaxSkew \in Nat /\ MaxSkew <= Buffer
  /\ MaxConfigs \in Nat
  /\ ValidFors \subseteq Nat
  /\ Schemes \subseteq {"permit402", "transfer_auth"}
  /\ \A c \in Configs : c.amount # NoAmount => c.amount \in Int
  /\ \A t \in ForeignTerms : /\ t.payAmount \in Int /\ t.feeAmount \in Int
                             /\ t.validAfter \in Int /\ t.validBefore \in Int
  /\ \A t \in FeeTables : \A s \in DOMAIN t : t[s] \in 0..MaxInt  \* BaseFee holds int
  /\ None \notin FeeTables /\ None \notin {"expired", "not_yet_valid"}

Init == /\ stage = "start"
        /\ accepts = <<>>
        /\ fees \in FeeTables
        /\ quoted = None
        /\ clock = 1
        /\ issued = 0
        /\ opened = 0
        /\ picked = None
        /\ chosen = None
        /\ wallet = None
        /\ signed = None
        /\ verdict = None

\* What GetPaymentConfig may bring: an error, or configs.
KeyAnswers == SeqOf(Configs, MaxConfigs) \cup {ServerError}

\* buildRequirements of the paywall: from the API key's configs, unless they cannot
\* be had, and from the static resource, if there is one, when the key yields
\* nothing.  The resource has a scheme of its own; its ValidFor, if it has one, comes
\* before the paywall's.
BuildAccepts(scheme, answer, resource, ownScheme, validFor) ==
  IF answer = ServerError THEN ServerError
  ELSE LET fromKey == BuildFromAPIKey(answer, scheme, validFor)
       IN  IF fromKey # <<>> THEN fromKey
           ELSE IF resource = None THEN ServerError
           ELSE BuildRequirements(<<resource>>, ownScheme, validFor)

Build ==
  /\ stage = "start"
  /\ \E scheme, ownScheme \in Schemes, answer \in KeyAnswers, validFor \in ValidFors,
        resource \in Configs \cup {None} :
       LET reqs == BuildAccepts(scheme, answer, resource, ownScheme, validFor)
       IN  IF reqs = ServerError
           THEN stage' = "failed" /\ UNCHANGED accepts
           ELSE stage' = "built" /\ accepts' = reqs
  /\ UNCHANGED <<fees, quoted, clock, issued, opened, picked, chosen, wallet, signed, verdict>>

\* What the fee quote of all requirements may bring: an error, or a quote for each,
\* null where the facilitator has none, or a list that is too short.
FeeAnswers(reqs) == {[i \in 1..n |-> FeeQuote(fees, reqs[i])] : n \in 0..Len(reqs)}
                      \cup {ServerError}

\* What another party's clock says now.
Reading == (clock - MaxSkew)..(clock + MaxSkew)

\* An error leaves the requirements without fees.  The 402 response follows, and its
\* permit402Context opens the window.
QuoteFees ==
  /\ stage = "built"
  /\ \E answer \in FeeAnswers(accepts) :
       IF answer = ServerError
       THEN UNCHANGED <<accepts, quoted>>
       ELSE accepts' = JoinFees(accepts, answer) /\ quoted' = fees
  /\ issued' = clock
  /\ opened' \in Reading
  /\ stage' = "issued"
  /\ UNCHANGED <<fees, clock, picked, chosen, wallet, signed, verdict>>

Supports(r) == <<r.network, r.scheme>> \in Supported

\* mutant: the network of the Selector's choice is not looked at
SelectScheme(reqs, pick) ==
  LET Fits(r) == (pick # None => r.scheme = pick.scheme) /\ Supports(r)
      first == SelectInSeq(reqs, Fits)
  IN  IF first = 0 THEN None ELSE reqs[first]

\* SelectPaymentRequirements: the first one a registered mechanism supports among
\* those of the scheme and the network of the Selector's choice.
Select(reqs, pick) ==
  LET Fits(r) == /\ pick # None => r.scheme = pick.scheme /\ r.network = pick.network
                 /\ Supports(r)
      first == SelectInSeq(reqs, Fits)
  IN  IF first = 0 THEN None ELSE reqs[first]

\* mutant: the fee address is signed without the fee amount
PermitWithoutAmount(req) ==
  [payToken |-> req.asset, payAmount |-> req.amount, payTo |-> req.payTo,
   feeTo |-> IF req.fee = NoFee THEN Zero ELSE req.fee.feeTo, feeAmount |-> 0,
   validAfter |-> opened, validBefore |-> opened + Window]

\* mutant: the permit lives for the MaxTimeoutSeconds of the requirement
PermitForTimeout(req) ==
  [payToken |-> req.asset, payAmount |-> req.amount, payTo |-> req.payTo,
   feeTo |-> IF req.fee = NoFee THEN Zero ELSE req.fee.feeTo,
   feeAmount |-> IF req.fee = NoFee THEN 0 ELSE req.fee.feeAmount,
   validAfter |-> opened, validBefore |-> opened + req.timeout]

\* permit402: the terms, the quoted fee or none, and the window of the 402.
CreatePermit(req) ==
  [payToken |-> req.asset, payAmount |-> req.amount, payTo |-> req.payTo,
   feeTo |-> IF req.fee = NoFee THEN Zero ELSE req.fee.feeTo,
   feeAmount |-> IF req.fee = NoFee THEN 0 ELSE req.fee.feeAmount,
   validAfter |-> opened, validBefore |-> opened + Window]

\* mutant: an authorization opens when it is signed
AuthorizationFromNow(req, now) ==
  [payToken |-> req.asset, payAmount |-> req.amount, payTo |-> req.payTo,
   feeTo |-> Zero, feeAmount |-> 0, domain |-> TokenDomain(ClientKnown, req.asset),
   validAfter |-> now, validBefore |-> now + Window]

\* transfer_auth: the terms, no fee, the token's domain as the client knows it, and a
\* window of the client's own clock.
CreateAuthorization(req, now) ==
  [payToken |-> req.asset, payAmount |-> req.amount, payTo |-> req.payTo,
   feeTo |-> Zero, feeAmount |-> 0, domain |-> TokenDomain(ClientKnown, req.asset),
   validAfter |-> now - Buffer, validBefore |-> now + Window]

\* The selector, if there is one, looks at accepts; then HandlePayment.
Sign ==
  /\ stage = "issued"
  /\ picked' \in Range(accepts) \cup {None}
  /\ chosen' = Select(accepts, picked')
  /\ IF chosen' = None
     THEN stage' = "failed" /\ UNCHANGED signed
     ELSE /\ \/ chosen'.scheme = "permit402" /\ signed' = CreatePermit(chosen')
             \/ /\ chosen'.scheme = "transfer_auth"
                /\ \E now \in Reading : signed' = CreateAuthorization(chosen', now)
          /\ stage' = "signed"
  /\ wallet' = "sdk"
  /\ UNCHANGED <<accepts, fees, quoted, clock, issued, opened, verdict>>

\* An authorization has no token of its own, and no fee.
AuthorizationOf(terms, req) ==
  [payToken |-> req.asset, payAmount |-> terms.payAmount, payTo |-> terms.payTo,
   feeTo |-> Zero, feeAmount |-> 0, domain |-> terms.domain,
   validAfter |-> terms.validAfter, validBefore |-> terms.validBefore]

\* Another client signs other terms, for a requirement it was given.
SignElsewhere ==
  /\ stage = "issued"
  /\ chosen' \in Range(accepts)
  /\ \E terms \in ForeignTerms :
       signed' = IF chosen'.scheme = "permit402" THEN terms ELSE AuthorizationOf(terms, chosen')
  /\ wallet' = "other"
  /\ stage' = "signed"
  /\ UNCHANGED <<accepts, fees, quoted, clock, issued, opened, picked, verdict>>

Check == IF chosen.scheme = "permit402"
         THEN ValidatePermit(fees, signed, chosen, clock)
         ELSE VerifyAuthorization(Allowed, signed, chosen, clock)

CheckTerms(before, after) ==
  /\ stage = before
  /\ verdict' = Check
  /\ stage' = IF Check = "valid" THEN after ELSE "refused"
  /\ UNCHANGED <<accepts, fees, quoted, clock, issued, opened, picked, chosen, wallet, signed>>

\* The facilitator checks the terms in Verify, and Settle checks them once more.
Verify == CheckTerms("signed", "verified")
Settle == CheckTerms("verified", "settled")

\* From the 402 to the settlement; fees and clock may have any value before.
UnderWay == stage \in {"issued", "signed", "verified"}

\* The facilitator is restarted with another BaseFee.
ChangeFees == /\ UnderWay
              /\ fees' \in FeeTables
              /\ UNCHANGED <<stage, accepts, quoted, clock, issued, opened, picked, chosen, wallet, signed, verdict>>

Tick == /\ UnderWay
        /\ clock < MaxClock
        /\ clock' = clock + 1
        /\ UNCHANGED <<stage, accepts, fees, quoted, issued, opened, picked, chosen, wallet, signed, verdict>>

Next == Build \/ QuoteFees \/ Sign \/ SignElsewhere \/ Verify \/ Settle \/ ChangeFees \/ Tick

Spec == Init /\ [][Next]_vars

-----------------------------------------------------------------------------
\* What the SDK's client signs for what the SDK's server asked is refused by the
\* SDK's facilitator, with or without a quote, only when the fee table is no longer
\* the quoted one, the window is over or not yet open, the token is not on the
\* facilitator's list, or client and facilitator know it by different names, of which
\* one may be none.
SignedTermsAccepted ==
  stage = "refused" /\ wallet = "sdk" =>
    \/ quoted \notin {None, fees}
    \/ clock > issued + Window - MaxSkew
    \/ chosen.scheme = "permit402" /\ opened > issued
    \/ /\ chosen.scheme = "transfer_auth"
       /\ \/ chosen.asset \notin Allowed
          \/ TokenDomain(Known, chosen.asset) # TokenDomain(ClientKnown, chosen.asset)

\* A payment of the SDK's client that comes within the MaxTimeoutSeconds of its 402 is
\* not too late, as long as the timeout leaves room for the skew of the clocks in the
\* fixed window.
TimeoutHonoured ==
  verdict = "expired" /\ wallet = "sdk" =>
    \/ clock > issued + chosen.timeout
    \/ chosen.timeout > Window - MaxSkew /\ clock > issued + Window - MaxSkew

\* No payment of the SDK's client is too early for a facilitator but a permit402 one
\* whose server's clock is ahead: the buffer of transfer_auth makes up for the client's.
TooEarlyIsServerSkew ==
  verdict = "not_yet_valid" /\ wallet = "sdk" =>
    chosen.scheme = "permit402" /\ opened > issued

\* What the SDK's client pays is one of the server's requirements, of the scheme and the
\* network of the Selector's choice; it is the very choice unless the server asks for
\* two there.
SelectorObeyed ==
  chosen # None /\ wallet = "sdk" =>
    /\ chosen \in Range(accepts)
    /\ picked # None =>
         /\ chosen.scheme = picked.scheme /\ chosen.network = picked.network
         /\ chosen = picked \/ \E r \in Range(accepts) \ {picked} :
                                  r.scheme = picked.scheme /\ r.network = picked.network

\* Two amounts beyond the same end of int64, which ParseInt does not tell apart.
Saturated(a, b) == (a >= MaxInt /\ b >= MaxInt) \/ (a <= MinInt /\ b <= MinInt)

\* Whoever signed it, and whatever it says: what goes to the chain pays the payee of the
\* requirement what it asks, in its token, and the facilitator, whatever it quoted before
\* a restart, the fee of its present table unless the permit carries none; its window is
\* open, and an authorization is of the token the facilitator knows.  An authorization
\* may pay less than the requirement asks only where ParseInt saturates for both.
SettledTermsPay ==
  stage = "settled" =>
    /\ signed.payTo = chosen.payTo /\ signed.payToken = chosen.asset
    /\ \/ signed.payAmount >= chosen.amount
       \/ chosen.scheme = "transfer_auth" /\ Saturated(signed.payAmount, chosen.amount)
    /\ signed.feeTo # Zero =>
         signed.feeTo = FeeTo /\ signed.feeAmount >= GetBaseFee(fees, signed.payToken)
    /\ chosen.scheme = "transfer_auth" => signed.domain = TokenDomain(Known, chosen.asset)
    /\ clock \in signed.validAfter..signed.validBefore

\* Every requirement carries the quote of its own token, or none: the quotes are
\* joined by position, the API key's configs lose their unusable members on the way,
\* the quotes of unknown tokens are null, and the list of quotes may be too short.
FeeOfOwnToken == stage = "issued" =>
  \A i \in DOMAIN accepts :
    accepts[i].fee # NoFee => accepts[i].fee = FeeQuote(quoted, accepts[i])

\* The records have their shape and the payment its order: nothing is signed before
\* a 402 response, nothing judged before it is signed; and a requirement has a known
\* token, a mechanism, a timeout and an amount, be it zero or negative.
TypeOK ==
  /\ stage \in {"start", "built", "issued", "signed", "verified", "settled", "refused", "failed"}
  /\ fees \in FeeTables /\ quoted \in FeeTables \cup {None}
  /\ clock \in 1..MaxClock /\ issued \in 0..clock
  /\ opened \in Int /\ opened - issued \in (-MaxSkew)..MaxSkew
  /\ stage \in {"start", "built", "issued"} => chosen = None /\ wallet = None
  /\ wallet \in {"sdk", "other", None}
  /\ verdict # None => stage \in {"verified", "settled", "refused"}
  /\ \A i \in DOMAIN accepts : /\ accepts[i].asset \in Registry
                              /\ FindMechanism(accepts[i].network, accepts[i].scheme)
                              /\ accepts[i].amount # NoAmount /\ accepts[i].timeout > 0
=============================================================================
