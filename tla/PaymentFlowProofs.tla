-------------------------- MODULE PaymentFlowProofs -------------------------
(***************************************************************************)
(* Proofs about PaymentFlow for any number of requests, deliveries,        *)
(* buyers, ticks and failure codes.                                        *)
(***************************************************************************)
EXTENDS PaymentFlow, TLAPS

\* The signer reports every failed transaction as failed: true of EVM receipts,
\* where Status is 0 or 1, and the hypothesis of what rests on a reported success.
EveryFailureReported == FailureCodes \subseteq ReportedFailed

-----------------------------------------------------------------------------
\* Every variable keeps its type: nothing the flow does leaves the phases named.
LEMMA InitType == Init => TypeOK
BY ChainAssumption, ServerAssumption, FlowAssumption
   DEF Init, ChainInit, CallInit, HandlerInit, TypeOK, ChainTypeOK, CallTypeOK,
       HandlerTypeOK, TxStates, Permits, Schemes, Results, Failures, handlerPhases

LEMMA SignedType ==
  ASSUME TypeOK, NEW r \in Requests
  PROVE  Signed(r) \in Permits
BY ServerAssumption, FlowAssumption, RandomAssumption
   DEF TypeOK, ChainTypeOK, Signed, Authorization, Permits, Schemes

LEMMA ClientType ==
  ASSUME TypeOK, NEW r \in Requests, ClientStep(r)
  PROVE  TypeOK'
<1> USE DEF TypeOK, ChainTypeOK, CallTypeOK, HandlerTypeOK, Ends, Finished,
            serverVars, chainVars, handlerPhases, inFlight
<1>1. CASE Ask(r)
  BY <1>1 DEF Ask
<1>2. CASE ReturnPaymentRequired(r)
  <2>1. \A scheme \in OfferedSchemes : PaymentRequired(scheme) \in Permits
    BY ServerAssumption, FlowAssumption DEF PaymentRequired, Permits
  <2> QED BY <1>2, <2>1 DEF ReturnPaymentRequired
<1>3. CASE RetryWithPayment(r)
  BY <1>3, SignedType DEF RetryWithPayment, ProcessPayment, Goes
<1>4. CASE TransportRetry(r)
  BY <1>4 DEF TransportRetry, ProcessPayment, Goes
<1>5. CASE Receive(r)
  BY <1>5 DEF Receive
<1>6. CASE ConnectionLost(r)
  BY <1>6 DEF ConnectionLost
<1> QED BY <1>1, <1>2, <1>3, <1>4, <1>5, <1>6 DEF ClientStep

LEMMA HandlerType ==
  ASSUME TypeOK, NEW d \in Deliveries, HandlerStep(d), UNCHANGED clientVars
  PROVE  TypeOK'
<1> USE DEF TypeOK, ChainTypeOK, CallTypeOK, HandlerTypeOK, clientVars, chainVars,
            Goes, Becomes, handlerPhases, inFlight
<1>1. CASE VerifyPayment(d, permit[Owner[d]])
  BY <1>1 DEF VerifyPayment
<1>2. CASE SettlePayment(d)
  BY <1>2 DEF SettlePayment
<1>3. CASE SettleAnswer(d)
  BY <1>3 DEF SettleAnswer
<1>4. CASE SettleTimeout(d)
  BY <1>4 DEF SettleTimeout
<1>5. CASE RunNext(d)
  BY <1>5 DEF RunNext
<1> QED BY <1>1, <1>2, <1>3, <1>4, <1>5 DEF HandlerStep

LEMMA CallType ==
  ASSUME TypeOK, NEW d \in Deliveries, CallStep(d), UNCHANGED <<handler, clientVars>>
  PROVE  TypeOK'
<1> USE DEF TypeOK, ChainTypeOK, CallTypeOK, HandlerTypeOK, clientVars, chainVars,
            Becomes, Results, Failures
<1>1. CASE SettleVerify(d, permit[Owner[d]])
  BY <1>1 DEF SettleVerify
<1>2. CASE WriteContract(d, BuyerOf[Owner[d]], permit[Owner[d]])
  BY <1>2 DEF WriteContract, NotSent, Sent, Submit, TxStates
<1>3. CASE ReceiptArrives(d)
  BY <1>3 DEF ReceiptArrives, ReceiptResult
<1>4. CASE ReceiptTimeout(d)
  BY <1>4 DEF ReceiptTimeout
<1> QED BY <1>1, <1>2, <1>3, <1>4 DEF CallStep

LEMMA ChainType ==
  ASSUME TypeOK, NEW d \in Deliveries, ChainStep(d),
         UNCHANGED <<call, handler, clientVars>>
  PROVE  TypeOK'
<1> USE DEF TypeOK, ChainTypeOK, CallTypeOK, HandlerTypeOK, clientVars, TxStates
<1>1. CASE Transfer(d, BuyerOf[Owner[d]], permit[Owner[d]])
  <2>1. /\ BuyerOf[Owner[d]] \in Buyers
        /\ permit[Owner[d]].scheme \in Schemes
        /\ permit[Owner[d]].nonce \in Nat
    BY FlowAssumption DEF Permits
  <2>2. balance[BuyerOf[Owner[d]]] - 1 \in Nat
    BY <1>1, <2>1 DEF Transfer, Redeemable
  <2> QED BY <1>1, <2>1, <2>2 DEF Transfer, Key
<1>2. CASE Fail(d)
  BY <1>2 DEF Fail
<1>3. CASE Drop(d)
  BY <1>3 DEF Drop
<1> QED BY <1>1, <1>2, <1>3 DEF ChainStep

LEMMA NextType == TypeOK /\ [Next]_vars => TypeOK'
<1> SUFFICES ASSUME TypeOK, [Next]_vars PROVE TypeOK'
  OBVIOUS
<1>1. ASSUME NEW r \in Requests, ClientStep(r) PROVE TypeOK'
  BY <1>1, ClientType
<1>2. ASSUME NEW d \in Deliveries, HandlerStep(d), UNCHANGED clientVars PROVE TypeOK'
  BY <1>2, HandlerType
<1>3. ASSUME NEW d \in Deliveries, CallStep(d), UNCHANGED <<handler, clientVars>>
      PROVE  TypeOK'
  BY <1>3, CallType
<1>4. ASSUME NEW d \in Deliveries, ChainStep(d), UNCHANGED <<call, handler, clientVars>>
      PROVE  TypeOK'
  BY <1>4, ChainType
<1>5. ASSUME ServerCrash, UNCHANGED clientVars PROVE TypeOK'
  BY <1>5 DEF ServerCrash, TypeOK, ChainTypeOK, CallTypeOK, HandlerTypeOK, chainVars,
              clientVars, handlerPhases, inFlight
<1>6. ASSUME Tick, UNCHANGED <<call, handler, clientVars>> PROVE TypeOK'
  BY <1>6 DEF Tick, TypeOK, ChainTypeOK, CallTypeOK, HandlerTypeOK, clientVars
<1>7. ASSUME UNCHANGED vars PROVE TypeOK'
  BY <1>7 DEF vars, TypeOK, ChainTypeOK, CallTypeOK, HandlerTypeOK, chainVars
<1> QED BY <1>1, <1>2, <1>3, <1>4, <1>5, <1>6, <1>7 DEF Next, Quiescent

\* Every phase, result, transaction state and balance of the flow is one of those
\* its components name.
THEOREM TypeCorrect == Spec => []TypeOK
<1>1. TypeOK /\ [Next]_vars => TypeOK'
  BY NextType
<1> QED BY InitType, <1>1, PTL DEF Spec

-----------------------------------------------------------------------------
(***************************************************************************)
(* The inductive invariant.  The properties are not inductive: why a       *)
(* served handler was paid is known to the settle call it waited for, and  *)
(* why it is the only one is known to the contracts' used nonces.          *)
(***************************************************************************)
\* A request that has not signed has no delivery.
DeliveredAfterSigning == \A d \in Deliveries :
  handler[d] # "none" => client[Owner[d]] \notin {"idle", "asked", "quoted"}

\* A settle call starts from a handler that verified the payment.
CallAfterVerify == \A d \in Deliveries :
  handler[d] \in {"none", "verify", "settle"} => call[d] = "none"

\* A transaction starts from a settle call that verified the payment again.
TxAfterCheck == \A d \in Deliveries :
  call[d] \in {"none", "check", "write", "invalid"} => tx[d] = "none"

\* What Settle reports of a receipt is what the chain did, as far as the signer
\* tells a failure from a success.
ReportIsTrue == \A d \in Deliveries :
  /\ call[d] = "success" => tx[d] \in {"confirmed"} \union (FailureCodes \ ReportedFailed)
  /\ call[d] = "failed_on_chain" => tx[d] \in FailureCodes

\* A handler has a result only on the success of its own settle call.
ResultOnSuccess == \A d \in Deliveries :
  handler[d] \in {"settled", "served"} => call[d] = "success"

\* A contract consumes the nonce of what it transfers,
ConfirmedIsUsed == \A d \in Deliveries :
  tx[d] = "confirmed" => KeyOf(Owner[d]) \in used

\* and nothing else consumes one,
UsedIsConfirmed == \A k \in used : \E d \in Deliveries :
  tx[d] = "confirmed" /\ KeyOf(Owner[d]) = k

\* and so there is only one transfer for a nonce of a buyer.
ConfirmedOnce == \A d, e \in Deliveries :
  /\ tx[d] = "confirmed" /\ tx[e] = "confirmed"
  /\ KeyOf(Owner[d]) = KeyOf(Owner[e])
  => d = e

\* A signed authorization has the nonce its own request drew.
HasSigned(r) == \/ client[r] = "paying"
                \/ \E d \in Deliveries : Owner[d] = r /\ handler[d] # "none"

SignedIsRandom == \A r \in Requests :
  HasSigned(r) /\ permit[r].scheme = "transfer_auth"
  => permit[r].nonce = RandomOf[r]

PaymentInv == /\ DeliveredAfterSigning
              /\ CallAfterVerify
              /\ TxAfterCheck
              /\ ReportIsTrue
              /\ ResultOnSuccess
              /\ ConfirmedIsUsed
              /\ UsedIsConfirmed
              /\ ConfirmedOnce
              /\ SignedIsRandom

LEMMA InitPayment == Init => PaymentInv
BY ChainAssumption DEF Init, ChainInit, CallInit, HandlerInit, PaymentInv,
   DeliveredAfterSigning, CallAfterVerify, TxAfterCheck, ReportIsTrue, ResultOnSuccess,
   ConfirmedIsUsed, UsedIsConfirmed, ConfirmedOnce, SignedIsRandom, HasSigned

\* The parts about the contracts only look at confirmed transactions, and at the
\* keys of their permits.
LEMMA SameKeys ==
  ASSUME TypeOK, PaymentInv, UNCHANGED used,
         \A d \in Deliveries : tx'[d] = "confirmed" <=> tx[d] = "confirmed",
         \A d \in Deliveries : tx[d] = "confirmed" => KeyOf(Owner[d])' = KeyOf(Owner[d])
  PROVE  ConfirmedIsUsed' /\ UsedIsConfirmed' /\ ConfirmedOnce'
BY DEF PaymentInv, ConfirmedIsUsed, UsedIsConfirmed, ConfirmedOnce

LEMMA UnsignedHasNoTx ==
  ASSUME TypeOK, PaymentInv, NEW d \in Deliveries,
         client[Owner[d]] \in {"idle", "asked", "quoted"}
  PROVE  handler[d] = "none" /\ call[d] = "none" /\ tx[d] = "none"
BY DEF PaymentInv, DeliveredAfterSigning, CallAfterVerify, TxAfterCheck

\* A change of the permit of a request that has sent nothing.
LEMMA PermitPayment ==
  ASSUME TypeOK, PaymentInv, NEW r \in Requests, client[r] \in {"asked", "quoted"},
         \A q \in Requests : q # r => permit'[q] = permit[q],
         UNCHANGED <<tx, used>>
  PROVE  ConfirmedIsUsed' /\ UsedIsConfirmed' /\ ConfirmedOnce'
<1>1. \A d \in Deliveries : Owner[d] = r => tx[d] = "none"
  BY UnsignedHasNoTx
<1>2. \A d \in Deliveries : Owner[d] # r => KeyOf(Owner[d])' = KeyOf(Owner[d])
  BY FlowAssumption DEF KeyOf
<1> QED BY <1>1, <1>2, SameKeys

LEMMA ClientPayment ==
  ASSUME TypeOK, PaymentInv, NEW r \in Requests, ClientStep(r)
  PROVE  PaymentInv'
<1> USE FlowAssumption DEF TypeOK, ChainTypeOK, CallTypeOK, HandlerTypeOK, PaymentInv,
        DeliveredAfterSigning, CallAfterVerify, TxAfterCheck, ReportIsTrue,
        ResultOnSuccess, SignedIsRandom, Ends, Finished, serverVars, chainVars
<1>1. ASSUME UNCHANGED <<serverVars, permit>>
      PROVE  ConfirmedIsUsed' /\ UsedIsConfirmed' /\ ConfirmedOnce'
  BY <1>1 DEF ConfirmedIsUsed, UsedIsConfirmed, ConfirmedOnce, KeyOf
<1>2. CASE Ask(r)
  BY <1>1, <1>2 DEF Ask, HasSigned
<1>3. CASE ReturnPaymentRequired(r)
  <2>1. CASE UNCHANGED permit
    BY <1>1, <1>3, <2>1 DEF ReturnPaymentRequired, HasSigned
  <2>2. CASE \E scheme \in OfferedSchemes :
               permit' = [permit EXCEPT ![r] = PaymentRequired(scheme)]
    <3>1. client[r] = "asked" /\ UNCHANGED <<tx, used, call, handler>>
      BY <1>3 DEF ReturnPaymentRequired
    <3>2. ConfirmedIsUsed' /\ UsedIsConfirmed' /\ ConfirmedOnce'
      BY <2>2, <3>1, PermitPayment
    <3>3. \A d \in Deliveries : Owner[d] = r => handler[d] = "none"
      BY <3>1, UnsignedHasNoTx
    <3>4. /\ client'[r] # "paying"
          /\ \A q \in Requests : q # r => client'[q] = client[q] /\ permit'[q] = permit[q]
      BY <1>3, <2>2 DEF ReturnPaymentRequired
    <3>5. SignedIsRandom'
      BY <3>1, <3>3, <3>4 DEF HasSigned
    <3>6. DeliveredAfterSigning'
      BY <3>1, <3>3, <3>4
    <3> QED BY <3>1, <3>2, <3>5, <3>6
  <2> QED BY <1>3, <2>1, <2>2 DEF ReturnPaymentRequired
<1>4. CASE RetryWithPayment(r)
  <2>1. CASE UNCHANGED <<handler, current, permit>> /\ client' = [client EXCEPT ![r] = "error"]
    <3>1. UNCHANGED <<serverVars, permit>>
      BY <1>4, <2>1 DEF RetryWithPayment
    <3> QED BY <1>1, <1>4, <2>1, <3>1 DEF RetryWithPayment, HasSigned
  <2>2. CASE /\ permit' = [permit EXCEPT ![r] = Signed(r)]
             /\ client' = [client EXCEPT ![r] = "paying"]
             /\ \E d \in Deliveries : Owner[d] = r /\ ProcessPayment(d)
    <3>1. client[r] = "quoted" /\ UNCHANGED <<tx, used, call>>
      BY <1>4 DEF RetryWithPayment
    <3>2. ConfirmedIsUsed' /\ UsedIsConfirmed' /\ ConfirmedOnce'
      BY <2>2, <3>1, PermitPayment
    <3>3. permit'[r].scheme = "transfer_auth" => permit'[r].nonce = RandomOf[r]
      BY <2>2 DEF Signed, Authorization
    <3>4. SignedIsRandom'
      BY <2>2, <3>3 DEF ProcessPayment, Goes, HasSigned
    <3>5. DeliveredAfterSigning' /\ CallAfterVerify' /\ ResultOnSuccess'
      BY <2>2, <3>1 DEF ProcessPayment, Goes
    <3> QED BY <3>1, <3>2, <3>4, <3>5
  <2> QED BY <1>4, <2>1, <2>2 DEF RetryWithPayment
<1>5. CASE TransportRetry(r)
  <2>1. ConfirmedIsUsed' /\ UsedIsConfirmed' /\ ConfirmedOnce'
    BY <1>5, SameKeys DEF TransportRetry, KeyOf
  <2> QED BY <1>5, <2>1 DEF TransportRetry, ProcessPayment, Goes, HasSigned
<1>6. CASE Receive(r)
  BY <1>1, <1>6 DEF Receive, HasSigned
<1>7. CASE ConnectionLost(r)
  BY <1>1, <1>7 DEF ConnectionLost, HasSigned
<1> QED BY <1>2, <1>3, <1>4, <1>5, <1>6, <1>7 DEF ClientStep

\* The parts of the invariant that a step of the server's or the facilitator's
\* may disturb are those about handlers, calls and transactions.
LEMMA HandlerPayment ==
  ASSUME TypeOK, PaymentInv, NEW d \in Deliveries, HandlerStep(d), UNCHANGED clientVars
  PROVE  PaymentInv'
<1> USE FlowAssumption DEF TypeOK, ChainTypeOK, CallTypeOK, HandlerTypeOK, PaymentInv,
        DeliveredAfterSigning, CallAfterVerify, TxAfterCheck, ReportIsTrue,
        ResultOnSuccess, clientVars, chainVars, Goes, Becomes, Results, Failures
<1>1. UNCHANGED <<chainVars, client, permit>> /\ handler[d] # "none"
  BY DEF HandlerStep, VerifyPayment, SettlePayment, SettleAnswer, RunNext, SettleTimeout
<1>2. ConfirmedIsUsed' /\ UsedIsConfirmed' /\ ConfirmedOnce'
  BY <1>1, SameKeys DEF KeyOf
<1>3. SignedIsRandom'
  BY <1>1 DEF SignedIsRandom, HasSigned, HandlerStep, VerifyPayment, SettlePayment,
     SettleAnswer, RunNext, SettleTimeout
<1>4. CASE VerifyPayment(d, permit[Owner[d]])
  BY <1>2, <1>3, <1>4 DEF VerifyPayment
<1>5. CASE SettlePayment(d)
  BY <1>2, <1>3, <1>5 DEF SettlePayment
<1>6. CASE SettleAnswer(d)
  BY <1>2, <1>3, <1>6 DEF SettleAnswer
<1>7. CASE RunNext(d)
  BY <1>2, <1>3, <1>7 DEF RunNext
<1>8. CASE SettleTimeout(d)
  BY <1>2, <1>3, <1>8 DEF SettleTimeout
<1> QED BY <1>4, <1>5, <1>6, <1>7, <1>8 DEF HandlerStep

LEMMA CallPayment ==
  ASSUME TypeOK, PaymentInv, NEW d \in Deliveries, CallStep(d),
         UNCHANGED <<handler, clientVars>>
  PROVE  PaymentInv'
<1> USE FlowAssumption, ChainAssumption, FacilitatorAssumption
    DEF TypeOK, ChainTypeOK, CallTypeOK, HandlerTypeOK, PaymentInv,
        DeliveredAfterSigning, CallAfterVerify, TxAfterCheck, ReportIsTrue,
        ResultOnSuccess, clientVars, chainVars, Becomes, Results, Failures
<1>1. SignedIsRandom'
  BY DEF SignedIsRandom, HasSigned
<1>2. \A e \in Deliveries : tx'[e] = "confirmed" <=> tx[e] = "confirmed"
  BY DEF CallStep, SettleVerify, WriteContract, NotSent, Sent, Submit, ReceiptArrives,
     ReceiptTimeout
<1>3. UNCHANGED used
  BY DEF CallStep, SettleVerify, WriteContract, NotSent, Sent, ReceiptArrives,
     ReceiptTimeout
<1>4. ConfirmedIsUsed' /\ UsedIsConfirmed' /\ ConfirmedOnce'
  BY <1>2, <1>3, SameKeys DEF KeyOf
<1>5. CASE SettleVerify(d, permit[Owner[d]])
  BY <1>1, <1>4, <1>5 DEF SettleVerify
<1>6. CASE NotSent(d)
  BY <1>1, <1>4, <1>6 DEF NotSent
<1>7. CASE Sent(d, BuyerOf[Owner[d]], permit[Owner[d]])
  BY <1>1, <1>4, <1>7 DEF Sent, Submit, TxStates
<1>8. CASE ReceiptArrives(d)
  BY <1>1, <1>4, <1>8 DEF ReceiptArrives, ReceiptResult
<1>9. CASE ReceiptTimeout(d)
  BY <1>1, <1>4, <1>9 DEF ReceiptTimeout
<1> QED BY <1>5, <1>6, <1>7, <1>8, <1>9 DEF CallStep, WriteContract

LEMMA ChainPayment ==
  ASSUME TypeOK, PaymentInv, NEW d \in Deliveries, ChainStep(d),
         UNCHANGED <<call, handler, clientVars>>
  PROVE  PaymentInv'
<1> USE FlowAssumption, ChainAssumption
    DEF TypeOK, ChainTypeOK, CallTypeOK, HandlerTypeOK, PaymentInv,
        DeliveredAfterSigning, CallAfterVerify, TxAfterCheck, ReportIsTrue,
        ResultOnSuccess, clientVars
<1>1. SignedIsRandom'
  BY DEF SignedIsRandom, HasSigned
<1>2. \A e \in Deliveries : KeyOf(Owner[e])' = KeyOf(Owner[e])
  BY DEF KeyOf
<1>3. CASE Transfer(d, BuyerOf[Owner[d]], permit[Owner[d]])
  <2>1. /\ KeyOf(Owner[d]) \notin used
        /\ used' = used \union {KeyOf(Owner[d])}
        /\ tx[d] = "pending" /\ tx'[d] = "confirmed"
    BY <1>3 DEF Transfer, Redeemable, KeyOf
  <2>2. \A e \in Deliveries : e # d => tx'[e] = tx[e]
    BY <1>3 DEF Transfer
  \* an earlier transaction with the same key would have left it in used
  <2>3. \A e \in Deliveries : tx[e] = "confirmed" => KeyOf(Owner[e]) # KeyOf(Owner[d])
    BY <2>1 DEF ConfirmedIsUsed
  <2>4. ConfirmedOnce'
    BY <1>2, <2>2, <2>3 DEF ConfirmedOnce
  <2>5. ConfirmedIsUsed'
    BY <1>2, <2>1, <2>2 DEF ConfirmedIsUsed
  <2>6. UsedIsConfirmed'
    BY <1>2, <2>1, <2>2 DEF UsedIsConfirmed
  <2> QED BY <1>1, <1>3, <2>1, <2>2, <2>4, <2>5, <2>6
<1>4. CASE Fail(d) \/ Drop(d)
  <2>1. \A e \in Deliveries : tx'[e] = "confirmed" <=> tx[e] = "confirmed"
    BY <1>4 DEF Fail, Drop
  <2>2. ConfirmedIsUsed' /\ UsedIsConfirmed' /\ ConfirmedOnce'
    BY <1>2, <1>4, <2>1, SameKeys DEF Fail, Drop
  <2> QED BY <1>1, <1>4, <2>2 DEF Fail, Drop
<1> QED BY <1>3, <1>4 DEF ChainStep

LEMMA NextPayment == TypeOK /\ PaymentInv /\ [Next]_vars => PaymentInv'
<1> SUFFICES ASSUME TypeOK, PaymentInv, [Next]_vars PROVE PaymentInv'
  OBVIOUS
<1>1. ASSUME NEW r \in Requests, ClientStep(r) PROVE PaymentInv'
  BY <1>1, ClientPayment
<1>2. ASSUME NEW d \in Deliveries, HandlerStep(d), UNCHANGED clientVars
      PROVE  PaymentInv'
  BY <1>2, HandlerPayment
<1>3. ASSUME NEW d \in Deliveries, CallStep(d), UNCHANGED <<handler, clientVars>>
      PROVE  PaymentInv'
  BY <1>3, CallPayment
<1>4. ASSUME NEW d \in Deliveries, ChainStep(d), UNCHANGED <<call, handler, clientVars>>
      PROVE  PaymentInv'
  BY <1>4, ChainPayment
<1>5. ASSUME UNCHANGED <<tx, used, call, clientVars>>,
             \A d \in Deliveries : \/ handler'[d] = handler[d]
                                   \/ handler[d] \in inFlight /\ handler'[d] = "gone"
      PROVE  PaymentInv'
  <2>1. ConfirmedIsUsed' /\ UsedIsConfirmed' /\ ConfirmedOnce'
    BY <1>5, SameKeys DEF KeyOf, clientVars
  <2>2. \A d \in Deliveries : handler'[d] = "none" <=> handler[d] = "none"
    BY <1>5 DEF inFlight
  <2> QED BY <1>5, <2>1, <2>2 DEF PaymentInv, DeliveredAfterSigning, CallAfterVerify,
          TxAfterCheck, ReportIsTrue, ResultOnSuccess, SignedIsRandom, HasSigned,
          clientVars
<1>6. ASSUME ServerCrash, UNCHANGED clientVars PROVE PaymentInv'
  BY <1>5, <1>6 DEF ServerCrash, chainVars
<1>7. ASSUME Tick, UNCHANGED <<call, handler, clientVars>> PROVE PaymentInv'
  BY <1>5, <1>7 DEF Tick
<1>8. ASSUME UNCHANGED vars PROVE PaymentInv'
  BY <1>5, <1>8 DEF vars, chainVars, clientVars
<1> QED BY <1>1, <1>2, <1>3, <1>4, <1>6, <1>7, <1>8 DEF Next, Quiescent

LEMMA PaymentInvariant == Spec => [](TypeOK /\ PaymentInv)
<1>1. Init => TypeOK /\ PaymentInv
  BY InitType, InitPayment
<1>2. (TypeOK /\ PaymentInv) /\ [Next]_vars => (TypeOK /\ PaymentInv)'
  BY NextType, NextPayment
<1> QED BY <1>1, <1>2, PTL DEF Spec

\* A handler that served did so after its own transaction moved the price,
\* whatever the interleaving of deliveries, crashes and lost answers.
THEOREM ServedPaid ==
  ASSUME EveryFailureReported
  PROVE  Spec => []ServedIsPaid
<1>1. PaymentInv => ServedIsPaid
  BY EveryFailureReported
     DEF EveryFailureReported, PaymentInv, ResultOnSuccess, ReportIsTrue, ServedIsPaid
<1> QED BY <1>1, PaymentInvariant, PTL

\* One permit, or two with the same nonce, buy one access.
THEOREM ServedAtMostOnce ==
  ASSUME EveryFailureReported
  PROVE  Spec => []ServedOnce
<1>1. PaymentInv => ServedOnce
  BY EveryFailureReported
     DEF EveryFailureReported, PaymentInv, ResultOnSuccess, ReportIsTrue, ConfirmedOnce,
         ServedOnce
<1> QED BY <1>1, PaymentInvariant, PTL

\* A settle call that names a definite reason has charged and will charge nothing.
THEOREM DefiniteFailure == Spec => []DefiniteFailureIsFree
<1>1. PaymentInv => DefiniteFailureIsFree
  BY ChainAssumption
     DEF PaymentInv, TxAfterCheck, ReportIsTrue, DefiniteFailureIsFree
<1> QED BY <1>1, PaymentInvariant, PTL

\* Only its own request's payment uses up an authorization: the key of a used one
\* belongs to a confirmed delivery, and equal keys have equal random nonces.
THEOREM AuthorizationOwn == Spec => []AuthorizationIsOwn
<1>1. TypeOK /\ PaymentInv => AuthorizationIsOwn
  <2> SUFFICES ASSUME TypeOK, PaymentInv, NEW d \in Deliveries, handler[d] # "none",
                      permit[Owner[d]].scheme = "transfer_auth",
                      KeyOf(Owner[d]) \in used
               PROVE  \E e \in Deliveries : Owner[e] = Owner[d] /\ tx[e] = "confirmed"
    BY DEF AuthorizationIsOwn
  <2>1. PICK e \in Deliveries : tx[e] = "confirmed" /\ KeyOf(Owner[e]) = KeyOf(Owner[d])
    BY DEF PaymentInv, UsedIsConfirmed
  <2>2. handler[e] # "none"
    BY <2>1 DEF PaymentInv, CallAfterVerify, TxAfterCheck
  <2>3. /\ permit[Owner[e]].scheme = permit[Owner[d]].scheme
        /\ permit[Owner[e]].nonce = permit[Owner[d]].nonce
    BY <2>1 DEF KeyOf, Key
  <2>4. RandomOf[Owner[e]] = RandomOf[Owner[d]]
    BY <2>2, <2>3, FlowAssumption DEF PaymentInv, SignedIsRandom, HasSigned
  <2>5. Owner[e] = Owner[d]
    BY <2>4, RandomAssumption, FlowAssumption
  <2> QED BY <2>1, <2>5
<1> QED BY <1>1, PaymentInvariant, PTL

-----------------------------------------------------------------------------
(***************************************************************************)
(* The refinement: only Transfer charges, only RunNext grants, and         *)
(* every other step of the flow is a stutter of PaidAccess.                *)
(***************************************************************************)
Paid    == {r \in Requests : \E d \in Deliveries : Owner[d] = r /\ tx[d] = "confirmed"}
Granted == {d \in Deliveries : handler[d] = "served"}
view    == <<Paid, Granted, balance>>

LEMMA InitRefines == Init => PA!Init
BY ChainAssumption DEF Init, ChainInit, HandlerInit, PA!Init

LEMMA ChargeRefines ==
  ASSUME TypeOK, PaymentInv, NEW d \in Deliveries,
         Transfer(d, BuyerOf[Owner[d]], permit[Owner[d]]), UNCHANGED handler
  PROVE  PA!Pay(Owner[d])
<1>1. Owner[d] \notin Paid
  BY DEF Paid, PaymentInv, ConfirmedIsUsed, Transfer, Redeemable, KeyOf
<1>2. Paid' = Paid \union {Owner[d]}
  BY FlowAssumption DEF Paid, Transfer, TypeOK, ChainTypeOK
<1>3. /\ balance[BuyerOf[Owner[d]]] > 0
      /\ balance' = [balance EXCEPT ![BuyerOf[Owner[d]]] = @ - 1]
  BY DEF Transfer, Redeemable
<1> QED BY <1>1, <1>2, <1>3 DEF PA!Pay, Paid

LEMMA GrantRefines ==
  ASSUME EveryFailureReported, TypeOK, PaymentInv, NEW d \in Deliveries, RunNext(d)
  PROVE  PA!Grant(d)
<1>1. tx[d] = "confirmed"
  BY DEF RunNext, PaymentInv, ResultOnSuccess, ReportIsTrue, EveryFailureReported
<1>2. \A e \in Granted : Owner[e] # Owner[d]
  <2> SUFFICES ASSUME NEW e \in Granted, Owner[e] = Owner[d] PROVE FALSE
    OBVIOUS
  <2>1. tx[e] = "confirmed" /\ handler[e] = "served"
    BY DEF Granted, PaymentInv, ResultOnSuccess, ReportIsTrue, EveryFailureReported
  <2>2. e = d
    BY <1>1, <2>1 DEF Granted, PaymentInv, ConfirmedOnce
  <2> QED BY <2>1, <2>2 DEF RunNext
<1>3. Granted' = Granted \union {d}
  BY DEF Granted, RunNext, Goes, TypeOK, HandlerTypeOK
<1>4. UNCHANGED <<tx, balance>>
  BY DEF RunNext, chainVars
<1> QED BY FlowAssumption, <1>1, <1>2, <1>3, <1>4 DEF PA!Grant, Granted

\* A step that confirms no transaction and serves no handler is not seen.
LEMMA StutterRefines ==
  ASSUME UNCHANGED balance,
         \A d \in Deliveries : tx'[d] = "confirmed" <=> tx[d] = "confirmed",
         \A d \in Deliveries : handler'[d] = "served" <=> handler[d] = "served"
  PROVE  UNCHANGED view
BY DEF view, Paid, Granted

LEMMA NextRefines ==
  ASSUME EveryFailureReported, TypeOK, PaymentInv, [Next]_vars
  PROVE  [PA!Next]_view
<1> USE DEF TypeOK, ChainTypeOK, CallTypeOK, HandlerTypeOK
<1>1. ASSUME NEW r \in Requests, ClientStep(r) PROVE UNCHANGED view
  <2>1. UNCHANGED <<tx, balance>>
    BY <1>1 DEF ClientStep, Ask, ReturnPaymentRequired, RetryWithPayment,
       TransportRetry, Receive, ConnectionLost, serverVars, chainVars
  <2>2. \A d \in Deliveries : handler'[d] = "served" <=> handler[d] = "served"
    BY <1>1 DEF ClientStep, Ask, ReturnPaymentRequired, RetryWithPayment,
       TransportRetry, Receive, ConnectionLost, serverVars, ProcessPayment, Goes
  <2> QED BY <2>1, <2>2, StutterRefines
<1>2. ASSUME NEW d \in Deliveries, HandlerStep(d), UNCHANGED clientVars
      PROVE  PA!Next \/ UNCHANGED view
  <2>1. CASE RunNext(d)
    BY <2>1, GrantRefines DEF PA!Next
  <2>2. CASE ~ RunNext(d)
    <3>1. UNCHANGED <<tx, balance>>
      BY <1>2 DEF HandlerStep, VerifyPayment, SettlePayment, SettleAnswer, RunNext,
         SettleTimeout, chainVars
    <3>2. \A e \in Deliveries : handler'[e] = "served" <=> handler[e] = "served"
      BY <1>2, <2>2 DEF HandlerStep, VerifyPayment, SettlePayment, SettleAnswer,
         SettleTimeout, Goes
    <3> QED BY <3>1, <3>2, StutterRefines
  <2> QED BY <2>1, <2>2
<1>3. ASSUME NEW d \in Deliveries, CallStep(d), UNCHANGED <<handler, clientVars>>
      PROVE  UNCHANGED view
  <2>1. UNCHANGED balance
    BY <1>3 DEF CallStep, SettleVerify, WriteContract, NotSent, Sent, ReceiptArrives, ReceiptTimeout,
       chainVars
  <2>2. \A e \in Deliveries : tx'[e] = "confirmed" <=> tx[e] = "confirmed"
    BY <1>3 DEF CallStep, SettleVerify, WriteContract, NotSent, Sent, ReceiptArrives, ReceiptTimeout,
       chainVars, Submit, PaymentInv, TxAfterCheck
  <2> QED BY <1>3, <2>1, <2>2, StutterRefines
<1>4. ASSUME NEW d \in Deliveries, ChainStep(d), UNCHANGED <<call, handler, clientVars>>
      PROVE  PA!Next \/ UNCHANGED view
  <2>1. CASE Transfer(d, BuyerOf[Owner[d]], permit[Owner[d]])
    BY <1>4, <2>1, ChargeRefines, FlowAssumption DEF PA!Next
  <2>2. CASE Fail(d) \/ Drop(d)
    <3>1. \A e \in Deliveries : tx'[e] = "confirmed" <=> tx[e] = "confirmed"
      BY <2>2, ChainAssumption DEF Fail, Drop
    <3> QED BY <1>4, <2>2, <3>1, StutterRefines DEF Fail, Drop
  <2> QED BY <1>4, <2>1, <2>2 DEF ChainStep
<1>5. ASSUME ServerCrash, UNCHANGED clientVars PROVE UNCHANGED view
  BY <1>5, StutterRefines DEF ServerCrash, chainVars, inFlight
<1>6. ASSUME Tick, UNCHANGED <<call, handler, clientVars>> PROVE UNCHANGED view
  BY <1>6, StutterRefines DEF Tick
<1>7. ASSUME UNCHANGED vars PROVE UNCHANGED view
  BY <1>7, StutterRefines DEF vars, chainVars
<1> QED BY <1>1, <1>2, <1>3, <1>4, <1>5, <1>6, <1>7 DEF Next, Quiescent

\* The payment flow implements PaidAccess: each request is charged at most once,
\* by one price, before the one access it may get.
THEOREM Refinement ==
  ASSUME EveryFailureReported
  PROVE  Spec => ImplementsPaidAccess
<1>1. Init => PA!Init
  BY InitRefines
<1>2. TypeOK /\ PaymentInv /\ [Next]_vars => [PA!Next]_view
  BY EveryFailureReported, NextRefines
<1> QED BY <1>1, <1>2, PaymentInvariant, PTL
        DEF Spec, ImplementsPaidAccess, PA!Spec, view, Paid, Granted
=============================================================================
