# x402-sdk-go in TLA+

The repository is a Go SDK for paying for HTTP resources. A *client* asks for a
resource, the *server's* paywall answers `402 Payment Required` with terms, the
client signs a permit and asks again, and the server has a *facilitator* verify the
permit and settle it on a chain (EVM or Tron) before it hands out the resource.

This directory holds TLA+ modules of that system, the TLC runs that check them on
small instances, and TLAPS proofs of every safety property the passing runs check. All
paths below are relative to `src/`. `PROJECT.json` maps every definition to the lines it stands for.

    tlc  -config Flow_duplicate.cfg MCPaymentFlow.tla
    tlapm PaymentFlowProofs.tla

Contents: 1 the system, 2 its hazards, 3 the modules, 4 the runs, 5 the
disagreements found, 6 the proofs, 7 what is not modelled, 8 the order of the work.


## 1. The system

### Parts, state and operations

| part | source | state it keeps | operations | correct when |
|---|---|---|---|---|
| HTTP client | `http_client.go` | none between calls; the caller's `io.Reader` during one | `RequestWithPayment`, `retryWithPayment`, `Selector` | one call pays at most once, and returns the answer that was paid for |
| payment client | `client.go` | list of registered mechanisms | `SelectPaymentRequirements`, `HandlePayment` | signs one of the terms it was offered |
| client mechanisms | `mechanisms/permit402_{evm,tron}.go`, `mechanisms/transfer_auth/client_evm.go` | none | `CreatePaymentPayload` | the permit says what the requirement says |
| client signers | `signers/{evm,tron}_client_signer.go` | key, RPC client | `CheckAllowance`, `EnsureAllowance`, `SignTypedData` | a permit is signed once the contract may draw it |
| paywall | `middleware/paywall.go` and its gin and goframe adapters | none between requests, except a config that gets its defaults on first use | `ProcessPayment`, `verifyAndSettle`, `returnPaymentRequired` | the next handler runs only after a successful settlement |
| resource server | `server.go`, `facilitator.go` | registered mechanisms | `BuildPaymentRequirements(FromAPIKey)`, `CreatePaymentRequiredResponse`, `VerifyPayment`, `SettlePayment` | asks the configured price for the configured payee, with the fee of the right token |
| facilitator client | `facilitator_client.go` | `http.Client` with a 30 s timeout | `Verify`, `Settle`, `FeeQuote`, `GetPaymentConfig` | an answer or an error, never a hang |
| facilitator mechanisms | `mechanisms/permit402_facilitator_{evm,tron}.go`, `mechanisms/transfer_auth/facilitator_evm.go` | fee table, fee address | `FeeQuote`, `Verify`, `Settle` | nothing but the agreed permit reaches the chain; the result tells what happened there |
| facilitator signers | `signers/{evm,tron}_facilitator_signer.go` | cache of RPC clients; the key's account nonce is at the node | `VerifyTypedData`, `WriteContract`, `WaitForTransactionReceipt` | a bounded wait, the receipt's own status, and no harm from concurrent calls of one key |
| Tron RPC, addresses | `tron/rpc.go`, `tron/address.go` | none | `TriggerContract`, `BroadcastTransaction`, `GetTransactionInfo`, base58 | one spelling per address, one status per outcome |
| token registry | `tokens/registry.go` | table of tokens | `ParsePrice`, `GetToken`, `FindByAddress` | the price asked is the price configured |
| EIP-712 | `signers/eip712.go`, `abi/eip712.go`, `utils/eip712.go` | none | digest of a permit or an authorization | client, facilitator and contract hash the same types and values |
| Permit402 contract, EIP-3009 token | not in the repository; `abi/permit402.go` and `mechanisms/transfer_auth/abi.go` have their interfaces | consumed nonces, balances | `permitTransferFrom`, `transferWithAuthorization` | each nonce moves one price once |

### How they interact

    client ──GET──▶ paywall                       (no payment)
           ◀─402─── BuildPaymentRequirements ──FeeQuote──▶ facilitator
    HandlePayment: select, EnsureAllowance ──approve──▶ chain, sign
    client ──GET + PAYMENT-SIGNATURE──▶ paywall
                    VerifyPayment ──HTTP──▶ facilitator.Verify
                    SettlePayment ──HTTP──▶ facilitator.Settle
                                             Verify again, WriteContract ──tx──▶ chain
                                             WaitForTransactionReceipt ◀─polls── chain
           ◀─200─── next handler, only if Settle said Success

Nothing is persisted by any party: what a payment is worth is only remembered by the
contract's set of used nonces. Each request of client, server and facilitator runs in a
goroutine of its own, so everything interleaves with everything.

### What is hard

- *Concurrency*: several deliveries of one payment, several payments of one
  client that share an allowance, several settle calls of one facilitator key, which
  share an account nonce and an unlocked map.
- *Ordering*: Verify, then Settle's own Verify, then the transaction, each at a later
  time than the check before it.
- *Failure*: an answer may be lost between any two parties, and then the parties
  disagree about whether the buyer was charged. The server may die in between.
- *Timeouts*: the server waits 30 s, the facilitator polls for 120 s, and the chain
  waits until the permit expires 3600 s later. The three are independent, and so are
  the clocks they are read from.
- *Representation*: the same address is written `0x`, bare or base58; the same amount is
  a string, a float, an int64 and a big.Int.


## 2. Hazards

The list is in `PROJECT.json` under `hazards`, each at its line, with the properties that
would see it go wrong. Those that no property covers say why. In short:

- double or unpaid access: two deliveries (`http_client.go:124`), two settle calls
  (`permit402_facilitator_evm.go:195`), lost answers, a crash before the answer
  (`paywall.go:90`), equal nonces (`server.go:187`);
- charged without access: the 30 s timeout (`facilitator_client.go:48`);
- a result that is not true: lost answer of the node, or an account nonce that another
  call has taken (`evm_facilitator_signer.go:112`), a poll timeout, an unknown receipt
  code (`tron/rpc.go:301`);
- terms that drift: fees joined by position in a filtered list (`server.go:113`), a fee
  table that changes, windows with inclusive ends, clocks that are apart
  (`permit402_facilitator_evm.go:188`), token names that the parties do not share
  (`transfer_auth/facilitator_evm.go:224`), amounts that saturate before they are
  compared (`transfer_auth/facilitator_evm.go:198`), a choice that is reduced to a filter
  (`http_client.go:82`);
- allowances checked early and used late (`evm_client_signer.go:115`,
  `tron_client_signer.go:139`), and a wait for an approve without a timeout
  (`evm_client_signer.go:154`);
- spellings that compare equal and convert differently (`utils/eip712.go:61`), or that
  the registry does not find (`tokens/registry.go:73`);
- numbers: base58 buffers, float prices, off-by-one polls.


## 3. The modules

### The flow

| module | models | state |
|---|---|---|
| `PaidAccess` | the abstract promise: a request is charged at most once, by one price, and at most one delivery of it is served, after the charge | `paid`, `granted`, `purse` |
| `Permit402Chain` | clock, transaction pool, the Permit402 contract and an EIP-3009 token (external) | `clock`, `tx`, `used`, `balance` |
| `FacilitatorSettle` | `Verify`'s window, `Settle`, `WriteContract`, what becomes of a receipt | `call` |
| `PaywallServer` | `ProcessPayment`, `verifyAndSettle`, the next handler, the facilitator client's errors and timeout, a server crash | `handler` |
| `PaymentFlow` | the clients, and the composition of all of the above; implements `PaidAccess` | `client`, `permit`, `current` |

From `Permit402Chain` on, each module EXTENDS the one above it and adds the variables of
its party. A payment is of one of the two schemes the server may offer. A permit402
permit takes nonce and window from the 402 response, a transfer_auth authorization takes
a random nonce and a window of the client's own; the contract that keeps the used nonces
is another one, too. `Settle` has the same phases for both, and is one set of actions.
`PaymentFlow`'s `Next` is the interleaving of the four parties:

- `ClientStep`: `Ask`, `ReturnPaymentRequired` (the 402 that names the scheme, and nonce
  and window of a permit), `RetryWithPayment`, `TransportRetry`, `Receive`,
  `ConnectionLost`. A *request* is one call of `RequestWithPayment`. A *delivery* is one
  arrival of its paid request at the server: net/http's Transport repeats a request whose
  connection broke before the answer, so a request may have several deliveries with the
  same permit.
- `HandlerStep`: one run of the paywall for a delivery. Every call to the
  facilitator may be answered, refused or lost; `SettleTimeout` leaves the settle call
  running, as the code does. After a successful settlement the request waits for the next
  handler (`RunNext`), and the server may die before it.
- `CallStep`: one run of the facilitator's `Settle`: `SettleVerify`, then
  `NotSent`/`Sent` (the two halves of `WriteContract`; the node may take the
  transaction and its answer may be lost), then `ReceiptArrives` or
  `ReceiptTimeout`. There is a step boundary wherever the code does I/O.
- `ChainStep`: `Transfer`, `Fail`, `Drop`; and `Tick`, the one clock.
- `ServerCrash`: all handlers in flight are gone; nothing was persisted.
- `Quiescent`: all is over. It is there so that TLC's deadlock check means "nobody is
  stuck in the middle".

A crash of the facilitator needs no action: no fairness is assumed of a settle call, so
every behaviour in which it stops after any step is there already.

In the flow a payment is a scheme, a nonce and a window. Whether its other fields are right
is the subject of the next two groups, where the flow's honest payments come from: the
server takes the requirement from the `accepted` entry of the payload, and the flow
assumes a client that echoes an entry it was given, as this SDK's client does.

`RetryWithPayment` contains `HandlePayment`, and with it the wait of `EnsureAllowance` for an
approve, which has no timeout: the action may never be taken, and no fairness says
otherwise.

### The terms

| module | models |
|---|---|
| `ServerRequirements` | `BuildPaymentRequirements`, `...FromAPIKey`, the join of the fee quotes |
| `FacilitatorTerms` | `getBaseFee`, `FeeQuote`, `validatePermit` and `validateAuthorization` of permit402 and transfer_auth, the domain a facilitator checks a signature for, the saturating `ParseInt` |
| `PaymentTerms` | the way of one payment through all three, while time passes and the facilitator is restarted with another fee table |

The first two hold operators only. `PaymentTerms` steps through `Build`, `QuoteFees`,
`Sign` or `SignElsewhere`, `Verify`, `Settle`. `Build` chooses what the API key's configs
hold, whether they can be had, whether there is a static resource, which scheme each has and
which `ValidFor`. An amount is any integer, or missing (`NoAmount`): the server asks for zero
and for negative amounts as it does for others. The list of fee quotes may be short. `Sign`
starts with the `Selector`, of whose choice `Select` keeps scheme and network, as the code
does. `SignElsewhere` is a client that is not this SDK's: it signs any of `ForeignTerms` for a
requirement it was given, and `wallet` remembers which of the two it was. Each party has a
clock: `clock` is the facilitator's, and server and client read one that is off by up to
`MaxSkew`. Client and facilitator know the tokens of their own builds (`ClientKnown`, `Known`:
functions from tokens to names), which may lack a token or name it differently, and which
give the EIP-712 domain of an authorization.

### The payment as it is signed

| module | models |
|---|---|
| `AddressText` | the texts an address is written in, `HexToAddress`, `tron.ToHex`, `base58ToApiHex` |
| `TypedData` | `EIP712Hash`: the two type tables, the type strings with their dependencies in order, the members; and what the contracts hash |
| `PermitEncoding` | who reads a payment's texts, and by which rule: client, comparison (`norm`), digest (`ConvertPermitToEIP712Message`, `verifySignature`), signature check, transaction argument (`buildPermitArg`), for permit402 on EVM and Tron and for transfer_auth |
| `TokenPrice` | `ParsePrice` with its two float64 roundings and its int64 conversion, for any widths of the two |
| `TronAddress` | `HexToBase58`, `Base58ToHex`, and both base58 routines with their carries and divisions; a text may be misspelt on its way |

In `AddressText` a text is a pair of a form (`0x`, bare, base58, empty) and the account
it spells; every conversion of the code is an operator from texts to texts, accounts or
`Error`. What two texts have in common to the code is exactly what these operators
make of them, which is why they are not modelled as the identity. `FindByAddress` is one
of them: on EVM networks it folds the case of a token's text and adds no `0x`, so a bare
text, which the comparisons of a permit take for the same as the requirement's, is not found.
It decides on the name in an authorization's domain (`LookedUpDomain`, "Unknown Token" where
nothing is found) and on `unsupported_token` for a permit with a fee (`Matches`).

In `TypedData` Keccak is an injective function, so a hash is the tuple of what went into
it: the description of the types and the encoded values. The code's digest is built by
`EIP712Hash` from the type table as `encodeType` reads it; the contract's digest
(`PermitOnChain`, `AuthorizationOnChain`) is written down apart from it, with the
contract's own order of types and members and its own address. In `PermitEncoding` the
client of this SDK signs the first of the two, and `SignElsewhere`, any other wallet,
signs the second, for whatever accounts and in whatever spelling; `Verify` compares with
the first, and the contract that `Settle` calls will compute the second.

### The parts below

| module | models |
|---|---|
| `ReceiptAnswer` | abstract: at most one answer, and "confirmed"/"failed" only for a mined transaction, by its code |
| `ReceiptWait` | `WaitForTransactionReceipt`, the EVM loop and the Tron loop, second by second |
| `FacilitatorSigner` | several settle calls of one key on several networks: `getClient` with the one unlocked map of all networks' clients, the pending account nonce of each network, `WriteContract`, mining and replacement; and `ReceiptWait` for one of them, which still implements `ReceiptAnswer` |
| `ClientAllowance` | `EnsureAllowance` on both chains, with the token contract, for payments that overlap or whose permits outlive their call |
| `HttpClient` | one call of `RequestWithPayment` with the caller's reader, every answer, every error, and which response bodies are left open |

`ReceiptAnswer` is what `FacilitatorSettle` assumes of the wait: `ReceiptArrives` is an
answer that follows the code of a mined transaction, and `ReceiptTimeout` is an error
at any time. `FacilitatorSigner` shows that both loops keep this promise, also when
other calls of the key replace the transaction that is waited for.

The `MC...` modules give the constants their values. The `...Proofs` modules hold the
theorems, and `Induction` the inductions and the arithmetic several of them need. Recursion
is written with recursive functions, which the provers can read. Definitions that a
comment marks `mutant:` are the wrong versions of the definition after them; no specification
uses them, and each property of a run is violated when one of them takes the place of the
right version.


## 4. The runs

| run | module | checks | instance | distinct states |
|---|---|---|---|---|
| `flow_duplicate` | `PaymentFlow` | `TypeOK`, `ServedIsPaid`, `ServedOnce`, `DefiniteFailureIsFree`, `PaymentDecided` | EVM: 1 request of either scheme, 2 deliveries, 3 ticks, window 1 | 160 756 |
| `flow_two_requests` | `PaymentFlow` | `AuthorizationIsOwn`, `ServedOnce`, `DefiniteFailureIsFree`, `ImplementsPaidAccess` | Tron: 2 requests of one buyer, 1 delivery each, 2 ticks | 361 985 |
| `receipt` | `FacilitatorSigner` | `SignerTypeOK`, `CollisionNeedsOverlap`, `BoundedWait`, `LastSecondPolled`, `ErrorsAreRetried`, `CallEnds`, `RaceOnlyAtFirstUse`, `ImplementsReceiptAnswer` | both signers, 3 calls, 2 networks, timeout 3, 1 failing poll | 632 648 |
| `allowance` | `ClientAllowance` | `TypeOK`, `RefusedOnlyOverdrawn`, `ApprovalLasts`, `ApprovedCovers`, `EnsureReturns` | both signers, 3 payments in any overlap | 8 268 |
| `terms` | `PaymentTerms` | `TypeOK`, `SignedTermsAccepted`, `SettledTermsPay`, `FeeOfOwnToken`, `TimeoutHonoured`, `TooEarlyIsServerSkew`, `SelectorObeyed` | 2 of 8 configs, 2 chains, 3 fee tables, 5 ticks, clocks 1 apart; the SDK's client or another with 20 terms to sign | 4 546 248 |
| `encoding` | `PermitEncoding` | `HashedAsOnChain`, `SpellingIsFree`, `VerifiedIsAgreed`, `VerifiedIsSubmitted` | 3 networks, one without the token in its registry, 6 deployments | 176 756 |
| `http_client` | `HttpClient` | `PaysOnce`, `PaidAnswerReturned`, `OnlyPaid402LeftOpen` | bodies of 0 to 2, 3 requests | 865 |
| `price` | `TokenPrice` | `WithinOneUnit`, `WholePriceExact` | float of 10 bits, int of 12 | 7 224 |
| `address` | `TronAddress` | `RoundTrip`, `OneSpelling` | addresses and checksums of 1 byte | 119 296 |

The three further runs are the disagreements of section 5.

### What they show

- **flow**: nobody gets access without a confirmed charge, and a payment buys one access,
  however its deliveries, lost answers, timeouts, expiry and a server crash
  interleave. A settle result that promises "not charged" (`invalid`,
  `failed_on_chain`) keeps the promise; `transaction_failed` and `receipt_failed`
  promise nothing, and the property leaves them out because the code cannot know.
  Two requests with one nonce are not both served; an authorization is never used up by
  another request, because its nonce is random. The paywall decides on every payment it is
  given. That the client then hears of it is not claimed: the network may lose the answer, the
  protected handler is the user's, and `http.DefaultClient` has no timeout. The two
  runs differ in the chain as well: on EVM the node estimates the gas of a call and takes
  no transaction that would revert in its present state (`GasEstimated`), on Tron it takes
  every one.
- **receipt**: the loops end in time, look once more after the last second, and never
  make up a status. On EVM a failing poll does not end the wait; on Tron it does, so
  `ErrorsAreRetried` is about the EVM loop. Calls of one key take each other's account
  nonce only while they overlap on one network: one is refused, or its transaction is
  replaced and its wait times out. The race on the map of clients ends when the clients of
  all networks are in it and nobody dials: until then, the first use of one network may end
  the process under calls of another whose client was cached long before.
- **allowance**: a permit whose client saw or awaited the allowance fails for want of it
  only when another payment drew while it was out. That takes no concurrency: a client that
  pays one request at a time gets its answer after the server's 30 s while the earlier permit
  can still be drawn, and the next payment passes the check on the same allowance. A Tron
  client is also refused for the approve it did not wait for. Once any approve was mined
  neither happens again, because what is approved is unlimited. A failed approve is never
  taken for an allowance, and `EnsureAllowance` returns unless its approve gets no receipt.
- **terms**: what the SDK's client signs for what the SDK's server asks is refused by
  the SDK's facilitator only if the fee table changed, the window is over or not yet open,
  the token is not on the list, or the two do not know it by the same name. What is settled,
  whoever signed it and whatever it says, pays the right payee the right price and at least
  the present fee, or no fee at all; only where both amounts lie beyond int64 an
  authorization may pay less than was asked. Within the `MaxTimeoutSeconds` a server asked
  for, nothing of the SDK's client is too late, up to the fixed hour of the
  mechanisms. permit402 is too early as soon as the server's clock is ahead and the
  payment quick; the 30 s of transfer_auth make up for that.
- **encoding**: code and contract hash one payment alike, no customary spelling gets a
  rightful one refused, and the contract computes the signed digest again from what the
  mechanism of the network's own kind submits - all three as far as the registry finds the
  token's text where the code looks it up. No spelling gets a wrong payment accepted,
  without that restriction.
- **http_client**: one call pays at most once, the caller gets the paid answer, and every
  response but the 402 it has paid for is closed or returned.
- **price**, **address**: a price in range is never asked too high and at most one smallest
  unit too low, and exactly when it is a whole number of coins (in range is what the float
  holds to the unit: for an 18-decimal token that is less than 0.0045 coins); an address reads back as
  itself, and no misspelling is accepted as a second text of any address.

### Bounds, and why they are enough

- *Deliveries and requests.* Double access takes two handlers; a race of permits takes
  two permits. `ServedOnce` is about pairs. The proofs of section 6 remove
  the bound for all safety properties of the flow.
- *Clock.* Starts at 1. With `Window = 1` a permit is issued, valid in two ticks, and over:
  with `MaxClock = 3` it can expire between every two checks. With two requests,
  `MaxClock = 2` has equal and different nonces. Random nonces lie outside the range of
  the clock, so that a nonce tells its origin.
- *Funds = 2*: enough to pay both requests, so that a second charge is not prevented
  by an empty purse.
- *Receipt*: `Timeout = 3` has a first, a middle and a last round; the failing poll
  meets each of them. Three calls have a call that is replaced by one that is itself
  replaced, and a gap of nonces; two networks have a client that is stored while those of
  the other are read. Everything but `CallEnds` is also
  proved for any number of calls and networks and every timeout.
- *Allowance*: totals 1, 2 and 2, starting allowances 0 to 3 (nothing, less than,
  exactly and more than one payment); `Max = 6` is more than all payments draw, as
  2^256 - 1 is. Nothing keeps a payment from starting while earlier ones are signed. An
  approve may be mined, reverted or dropped.
- *Terms*: two configs are the least with which a lost member shifts the quotes of
  the next; `MaxInt = 3` lies below the amount 4, so that saturation occurs and a foreign
  authorization of 3 is settled for it; an amount of -1 and a missing one; foreign terms with
  the right and wrong payees, tokens, fees, names and amounts; fee
  tables with a lower, a higher and no entry; `Window = 2`, `Buffer` and `MaxSkew` of one
  tick against five ticks reach both ends of both windows and the tick after, with the
  server's and the client's clock ahead and behind; timeouts of 1 and of the default 2 lie
  on both sides of `Window - MaxSkew`.
- *Price*: 10 and 12 bits stand for 53 and 64: the integer is wider than the float, as in
  the code, and prices up to 300 with 0 to 2 digits and 0 to 3 decimals cross both. The
  theorems are for every width of the two, 53 and 64 among them.
- *Address*: the digits and bytes have the code's bases 58 and 256; only the lengths are
  scaled, so carries, leading zeros and the buffer estimate are the code's. The theorems are
  for every length, 20 and 4 bytes among them. The checksum is
  a function of the whole payload in place of SHA-256; that a text with a wrong digit
  fails the checksum is chance, that it cannot be a second spelling is not.
- *Encoding*: a network of each kind and one without a contract and without the token in its
  registry, each with its own mechanism, Tron also with the EVM mechanism, and transfer_auth; every combination of
  forms of the texts, and each single account replaced by a stranger's. The type tables
  are the code's. Amounts, nonce, ptype and window are one fixed value each: nobody
  compares them here, and the digests only carry them. Case is left out because every path
  folds it.

### Fairness

- *Flow* (`PaymentDecided`): weak fairness of the paywall's own steps between the verify call
  and its decision (`PaywallStep`). The goroutine is scheduled, and a handler that waits
  for the facilitator is always able to step because the HTTP client that
  `NewHTTPFacilitatorClient` makes times out after 30 s (`SettleTimeout`). Nothing
  is assumed of the buyer's client, the protected handler, the facilitator, the chain, the
  clock or the network.
- *Receipt* (`CallEnds`): weak fairness of the steps of the one call, its `WriteContract`
  and its wait, as long as the process is there: each RPC call returns, with an answer or
  an error, which neither signer enforces by a timeout. Nothing is assumed of the other calls.
- *Allowance* (`EnsureReturns`): weak fairness of the client's own steps; its RPC calls
  return. Nothing is assumed of the chain, so an approve may stay pending or be dropped, and
  `bind.WaitMined`, which has no timeout of its own, then waits for ever. The property says
  that this is the only way not to return.

### Deadlock

It is checked in the `flow_*` runs. The other specifications describe one procedure, or a
few, that end, and the cfgs say `CHECK_DEADLOCK FALSE` for that reason alone.


## 5. Disagreements between the code and what it says

Three are runs that TLC finds violated, with the quoted line in `PROJECT.json`
under `findings`.

| run | property | in short |
|---|---|---|
| `flow_settled_not_served` | `SettledIsServed` | the server gives up after 30 s on a settle call that may take 120 s: confirmed, charged, and refused |
| `http_client_body` | `PaidBodyIntact` | the paid request is built from a reader the first request has emptied |
| `price_style` | `StylePriceExact` | a whole price of an 18-decimal token overflows int64 |

Others are part of the models, where the properties name them as their limits:

- *The nonce is the clock* (`server.go:187`, whose comment calls it unique): two 402
  responses of one reading share it. `flow_two_requests` has such pairs, and at most one
  of the two is served; `AuthorizationIsOwn` is about transfer_auth alone.
- *Every Tron receipt code but `FAILED` counts as confirmed* (`tron/rpc.go:301`): with
  java-tron's `REVERT` or `OUT_OF_ENERGY` in `FailureCodes` and not in `ReportedFailed`,
  `ServedIsPaid` is violated. Which codes a node sends is an assumption about the node, so
  the runs have only `FAILED`, and the theorems name the hypothesis.
- *The Tron signer does not wait for its approve* (`tron_client_signer.go:139`): the permit
  may be signed, and sent, before the allowance is there; `RefusedOnlyOverdrawn` says that
  only a payment that had to approve meets that.
- *An allowance is checked, not reserved* (`evm_client_signer.go:115`): two payments draw the
  same one, also when the first call has long returned with an error.
- *The wait for an approve has no end* (`evm_client_signer.go:154`) when the approve is dropped
  or replaced; `EnsureReturns` excepts it, and no run claims that a client retries.
- *The map of clients has no lock* (`evm_facilitator_signer.go:48`) and is one for all
  networks: `Race` ends the process; `RaceOnlyAtFirstUse` says until when.
- *The registry finds no bare address* (`tokens/registry.go:73`), though the comparisons of a
  permit add the `0x` (`permit402_facilitator_evm.go:143`). For an authorization of a bare
  asset, client and facilitator hash the domain of an "Unknown Token": `Verify` accepts it and
  the token refuses it, after the gas is spent; one that a wallet signed for the token's real
  domain is refused. A permit with a bare token and a fee is `unsupported_token`. The SDK's own
  server asks with the registry's texts, so its clients meet neither; `HashedAsOnChain`,
  `SpellingIsFree` and `VerifiedIsSubmitted` except them by `TokenFound`.
- *Any amount is asked for* (`server.go:80`, `server.go:136`): zero, and the negative amount
  that `price_style` finds; `TypeOK` of `PaymentTerms` only says that there is one.
- *Amounts of an authorization saturate* (`transfer_auth/facilitator_evm.go:198`): beyond
  int64 two amounts are equal to the comparison; `SettledTermsPay` names the exception.
- *The window of a payment is not the timeout* (`paywall.go:29`): `ValidFor` becomes
  `MaxTimeoutSeconds`, and the permit is valid for 3600 s whatever it says.
  `TimeoutHonoured` holds because of that for shorter timeouts, and stops at the window
  for longer ones.
- *permit402 has no buffer against clocks* (`permit402_facilitator_evm.go:188`): a payment
  of a server whose clock is ahead is `not_yet_valid`.
- *A Selector's choice is a filter* (`http_client.go:82`): where the server asks for two
  tokens on one network, the other one may be paid; `SelectorObeyed` allows just that. The
  priority a mechanism is registered with (`client.go`) is never read.
- *The EVM mechanism on a Tron network* (`permit402_facilitator_evm.go:309`) verifies a
  base58 address and submits the zero account; `VerifiedIsSubmitted` excludes it.
- *A `0x` asset on Tron* (`permit402_tron.go:80`) is accepted by the conversions and
  refused by the allowance check, though the comment at line 47 accepts both: the payment
  is given up (`stage = "failed"` in `PermitEncoding`).
- *permit402 is registered on chains without a contract address* (`setup/server.go:11`,
  `config.go:44`): `bscTestnet` in `MCPermitEncoding`; the transaction goes to the
  zero address.


## 6. The proofs

The theorems hold for every value of the constants that the named `ASSUME`s allow, and TLC
evaluates each of these on a run. They give ranges of the constants, say that names of
different things differ and that random nonces differ, and what the configuration
tables look like (`ChainAssumption`, `FacilitatorAssumption`, `ServerAssumption`,
`FlowAssumption`, `RandomAssumption`, `ReceiptAssumption`, `SignerAssumption`,
`AllowanceAssumption`, `BodiesAssumption`, `TermsAssumption`, `PaymentAssumption`,
`EncodingAssumption`, `PriceAssumption`, `AddressAssumption`). Two say more.
`ApprovalAssumption`: the payments of a client are finitely many and together draw no more
than the unlimited approval, 2^256 - 1. `ChecksumAssumption`: a checksum is `CheckLen` bytes.

One hypothesis is explicit in the statements instead, `EveryFailureReported`, because it
depends on the node.

| module | theorems | properties |
|---|---|---|
| `PaymentFlowProofs` | `TypeCorrect`, `ServedPaid`, `ServedAtMostOnce`, `DefiniteFailure`, `AuthorizationOwn`, `Refinement` | `TypeOK`, `ServedIsPaid`, `ServedOnce`, `DefiniteFailureIsFree`, `AuthorizationIsOwn`, `ImplementsPaidAccess` |
| `FacilitatorSignerProofs` | of one call: `WaitTypeCorrect`, `WaitIsBounded`, `WaitIsHonest`, `ErrorsRetried`, `WaitRefinement`; of all calls of a key: `SignerTypeCorrect`, `Collisions`, `CacheIsSafe`, `SignerRetries`, `SignerRefinement` | `TypeOK`, `BoundedWait`, `LastSecondPolled`, `ErrorsAreRetried`, `ImplementsReceiptAnswer`; `SignerTypeOK`, `CollisionNeedsOverlap`, `RaceOnlyAtFirstUse`, and the last two of the first list |
| `ClientProofs` | `PaysAtMostOnce`, `PaidIsAnswered`, `ResponsesReturned`, `AllowanceTypeCorrect`, `RefusalsOverdrawn`, `ApprovalIsLasting`, `ApprovalCovers` | `PaysOnce`, `PaidAnswerReturned`, `OnlyPaid402LeftOpen`, `TypeOK`, `RefusedOnlyOverdrawn`, `ApprovalLasts`, `ApprovedCovers` |
| `PaymentTermsProofs` | `TermsTypeCorrect`, `SignedAccepted`, `SettledPays`, `TimeoutIsHonoured`, `TooEarlyIsSkew`, `OwnTokensFee`, `SelectorIsObeyed` | `TypeOK`, `SignedTermsAccepted`, `SettledTermsPay`, `TimeoutHonoured`, `TooEarlyIsServerSkew`, `FeeOfOwnToken`, `SelectorObeyed` |
| `PermitEncodingProofs` | `CanonicalTypes`, `CodeHashesAsContract`, `SpellingFree`, `VerifiedAgreed`, `SubmittedAsSigned` | `HashedAsOnChain`, `SpellingIsFree`, `VerifiedIsAgreed`, `VerifiedIsSubmitted` |
| `TokenPriceProofs` | `PriceWithinOneUnit`, `WholeCoinsExact` | `WithinOneUnit`, `WholePriceExact` |
| `TronAddressProofs` | `AddressInvariant`, `ReadBack`, `OneText` | `RoundTrip`, `OneSpelling` |
| `Induction` | lemmas only | |

### The flow

`ServedPaid`, `ServedAtMostOnce` and `Refinement` have the hypothesis
`EveryFailureReported`, `FailureCodes \subseteq ReportedFailed`. It is a
fact of the EVM signer, whose receipts have two statuses. It is false of the Tron signer
if the node has other codes than `FAILED`: a transaction that ended in such a code is
reported, and served, as a success. So the hypothesis cannot be dropped. The other
theorems do without it.

None of the properties is inductive: that a served delivery is paid says nothing of a
handler about to read the answer of its settle call. `PaymentInv` adds what the
code knows at each stage:

- `DeliveredAfterSigning`: a handler runs only for a client that has signed, so the
  permit a delivery carries no longer changes;
- `CallAfterVerify`: a settle call is under way only for a handler that got past Verify;
- `TxAfterCheck`: a transaction is on its way only for a call that reached its write;
- `ReportIsTrue`: a settle call says success only of a transaction with a code that is not
  reported, and `invalid` or `failed_on_chain` only of one that does not exist or failed;
- `ResultOnSuccess`: a handler has a result only when its call said success;
- `ConfirmedIsUsed`, `UsedIsConfirmed`: a nonce is in its contract's set just when a
  transaction with it is confirmed;
- `ConfirmedOnce`: two confirmed transactions of one key are the same;
- `SignedIsRandom`: the nonce of a signed authorization is its request's own.

`ConfirmedIsUsed` and `ConfirmedOnce` carry the argument: a transfer demands an unused
nonce, so a second confirmation of the same key is impossible, whoever submitted it. Each
part is proved preserved by the client's, the handler's, the call's and the chain's steps in
turn. The refinement maps `paid` to the requests with a confirmed delivery, `granted` to the
served deliveries and `purse` to the balances; `Transfer` is `Pay`, `RunNext` is
`Grant`, and everything else stutters.

### The signer and its receipts

`WaitInv` balances the books: at each place of a loop the polls made
and the seconds slept are a fixed distance from the rounds left. Every step of
`FacilitatorSigner` is one of `ReceiptWait` or leaves its variables alone
(`SignerStepsWait`), so `WaitInv` and the refinement carry over. `Collisions` rests on
`SignerInv`: what is pending has been sent (`PoolSent`), a nonce in hand was free when it was
fetched (`NonceFree`), and whoever is in the pool of its network with it has been sent since
(`RivalsOverlapped`).

### Allowances

`AllowanceInv` has two parts beside the types and `RefusedOnlyOverdrawn` itself. `Covered`:
the allowance is enough for every payment that goes on or has signed (`Out`), unless another
drew meanwhile or it is a Tron payment with an approve of its own; a draw takes from the
allowance and puts all others that are out under the exception, an approve that is mined only
raises it. An approve left over from a payment that gave up may be mined in the middle of a
later one, which changes nothing of that.

`ApprovedCovers` has to say that others' draws leave an approved payment its allowance.
It is not inductive either: `Unspent` says that once any approve was mined, the allowance is
at least what all payments that have not drawn yet would draw together. An approve that is mined
sets the allowance to `Max`, which covers them all by `ApprovalAssumption`, and a draw
takes the same off both sides. `ApprovalIsLasting` follows from it as well: past a mined approve
no draw finds the allowance short. `Together` is a sum over a set; that one payment more adds
its total, whatever order `CHOOSE` takes the members in, is the induction over subsets of
`Induction`.

### The HTTP client

`CallInv` lists what each place of the code knows of the requests sent: none, one without
payment (`Asked`), or that one and a paid one (`Paid`); and which responses are open.

### Terms

`TermsInv` has the types, the order of the steps (`InOrder`), whose quote a fee is
(`FeesQuoted`), that what the SDK's client signed is `CreatePermit` or `CreateAuthorization`
of a requirement of the 402 at a reading between issue and now, and what another signed one of
`ForeignTerms` (`SignedAsChosen`), and that a final verdict is of what is still there
(`VerdictStands`). The seven theorems are read off it, over any skew up to the buffer.
`SettledPays` does not look at who signed: it follows from the checks alone, since nothing is
assumed of the foreign terms but that their numbers are numbers.

One lemma below it, `KeptAreConfigs`, says that the requirements built from an API key's
configs are requirements of its usable ones, whatever the loop over them skips.

### Digests

`EncodingInv` of `PermitEncodingProofs` says that what is signed is the code's digest of the
permit or the contract's. `PermitDigestRead` and `AuthorizationDigestRead` compute the
code's digest member by member; `DigestIsOnChain` compares it with the contract's for
rightly spelt payments, and from there `RightfulAccepted`, `AcceptedAgreed` and
`AcceptedSubmitted` are the three things `Verify` must not get wrong. `NormAccount` and
`NormCustomary` say what the comparison of two texts knows of their accounts. Where the
registry is asked, they need `TokenFound`, and only there: `VerifiedAgreed` does without.

`CanonicalTypes` says that the type strings `encodeType` makes of the two tables are the
contracts'. The tables are fixed, so it is a computation, but one the provers have to be led
through: that the dependencies found are the least set closed under the members' types
(`FindDependencies`), and that sorting takes the names from the alphabet one by one
(`SortSteps`). `VerifiedAgreed` does without it: whatever the types are, equal digests have
equal members.

### Prices

Nothing is bounded: the theorems are for every precision above 1, every width, any number of
digits and decimals. The argument is the usual one for two roundings, in integers. A
positive fraction has a shift that brings exactly `Precision` bits of it before its point
(`Shift` guesses it from the two lengths, and one of two guesses is right); rounding there
moves it by at most one part in 2^`Precision`, up or down. The product of a float with a power
of ten is rounded once more. In range the two errors together are below the distance from
the exact price to the unit after it, so the integer part never exceeds the exact amount, and is
at most one unit less. A whole price in range has a product of fewer bits than the float keeps,
and neither rounding changes it.

### Base58

`AddressInv` says that an intact text is the one `HexToBase58` gives. `ReadBack` and `OneText`
then need that encoding and decoding are inverse to one another, in both directions:

- in each base a number has one numeral of a given length, and so one without zeros in front
  (`OneNumeral`); both routines keep the count of leading zeros apart from the number;
- a round of the encoder multiplies the buffer by 256 and adds the byte, whatever the carries
  are, if the buffer has room (`AddByteNumber`); it has room, since `n * 138 / 100 + 1` digits
  are enough for `n` bytes (`BufferFits`, by 256^8 <= 58^11);
- `big.Int.Bytes`, dividing by 256 until nothing is left, gives back the number without a zero
  in front (complete induction).

`OneText` is why texts may be compared in one place and bytes in another: whatever
misspelling is accepted is the text the code itself would have written. It holds for any checksum.

### Induction

The library states induction for an operator, which no installed prover can instantiate.
`Induction` has it in first-order form: what is to be shown is a *set* of numbers, or of subsets
of a finite set, that contains the first and with each member the next, and a recursive
definition is a *function* whose values are determined one from another
(`NaturalRecursion`, `RunUnique`). From there come the lemmas on products, quotients and powers
that the prices and the numerals need, which linear arithmetic does not give.

### Only model-checked

Liveness: `PaymentDecided`, `CallEnds` and `EnsureReturns`, because the prover does not reason
about `ENABLED`, and so not about fairness. The three violated properties of section 5 are
refuted by TLC and stated by no theorem.


## 7. What is not modelled, and why

- Reorganisations of the chain: the code never looks at a receipt twice, and takes one
  confirmation as final.
- Clients that echo a requirement they were not given. The paywall takes the requirement from
  the payload (`paywall.go:79`) and does not compare it with what it asked; every property here
  is relative to the requirement that is echoed, one the server gave in the flow and in the
  terms. Within it, `SignElsewhere` of `PaymentTerms` and of `PermitEncoding` are other clients
  that sign what they like, in whatever spelling.
- Texts that are no numbers or no addresses at all: `SetString` leaves a zero or an undefined
  value where it fails, and such a payment is not one the parties agreed on. What
  `big.Int.Bytes` and a word of 32 bytes make of a negative or an oversized amount in a digest:
  `PaymentTerms` has such amounts, `PermitEncoding` does not.
- Bytes: the ABI of a call, the layout of a hash's input, Keccak, ECDSA and the `v` of a
  signature, `getZeroValue` (both messages are complete). `CallBalanceOf` and
  `CheckBalance` are not called in a payment.
- The defaults that `ProcessPayment` writes into the shared `PaywallConfig`
  (`paywall.go:57`): a race of equal values; a model would show the race and nothing else.
- Registration of mechanisms: constants of the models. `Supported` of the facilitator client.
- `encoding.go`, `types.go`, `exceptions.go`, `payment_id.go`, `utils/payment_id.go`,
  `utils/provider.go`: data declarations, JSON and base64 wrappers, random ids; they have no
  control of their own, and what they carry appears in the models as records.
- Headers, wording of errors, logging, and how the gin and goframe adapters write a response.


## 8. The order of the work

The flow with its chain came first, because double or unpaid access is what the system is
about; then what the flow takes for granted (receipts and the signer's account, allowances,
the HTTP client); then the terms with their three clocks; then the data below them, down to
the digest that client, facilitator and contract have to agree on. Each module was
checked by TLC before it was proved about.

What could still be added without leaving the code: a pool of HTTP connections under the open
body of a paid 402, and the ABI's words. What remains of the source is data, wrappers and
wording.
