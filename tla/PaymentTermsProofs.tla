-------------------------- MODULE PaymentTermsProofs ------------------------
(***************************************************************************)
(* Theorems about PaymentTerms, for any configs, fee tables, registries,   *)
(* clocks and skews.                                                       *)
(***************************************************************************)
EXTENDS PaymentTerms, SequenceTheorems, Induction

\* A bound on a clock's reading holds when the clock has gone on.
LEMMA StillWithin ==
  ASSUME NEW now \in Int, NEW then \in Int, NEW later \in Int, NEW skew \in Int,
         now <= then + skew, then <= later
  PROVE  now <= later + skew
OBVIOUS

USE ServerAssumption, TermsAssumption, PaymentAssumption

\* What a server may ask for.
Fees == {NoFee} \cup [feeTo : {FeeTo}, feeAmount : Int]
Requirements ==
  {r \in [scheme : Schemes, network : {c.chain : c \in Configs}, asset : Registry,
          amount : Int \ {NoAmount}, payTo : {c.payTo : c \in Configs}, timeout : Nat \ {0},
          fee : Fees] : FindMechanism(r.network, r.scheme)}

-----------------------------------------------------------------------------
\* The least of some numbers is one of them.
LEMMA MinIsMember ==
  ASSUME NEW I, I \subseteq Nat, I # {}
  PROVE  Min(I) \in I
<1> DEFINE R == OpToRel(<, Nat)
<1>1. PICK x \in I : \A y \in I : ~(<<y, x>> \in R)
  BY WFMin, NatLessThanWellFounded, Zenon
<1>2. \A i, j \in Nat : i < j => <<i, j>> \in R
  BY DEF OpToRel
<1>3. \A y \in I : ~(y < x)
  <2> HIDE DEF R
  <2> QED BY <1>1, <1>2
<1>4. \A y \in I : x <= y
  BY <1>3
<1>5. \E z \in I : \A y \in I : z <= y
  BY <1>4
<1> QED
  BY <1>5, Zenon DEF Min

\* What is selected is asked for, fits the choice, and has a mechanism.
LEMMA SelectFits ==
  ASSUME NEW pick, Select(accepts, pick) # None, accepts \in Seq(Requirements)
  PROVE  /\ Select(accepts, pick) \in Range(accepts)
         /\ pick # None => /\ Select(accepts, pick).scheme = pick.scheme
                           /\ Select(accepts, pick).network = pick.network
<1> DEFINE Fits(r) == /\ pick # None => r.scheme = pick.scheme /\ r.network = pick.network
                      /\ Supports(r)
           I == {i \in 1..Len(accepts) : Fits(accepts[i])}
           first == SelectInSeq(accepts, Fits)
<1>1. first = IF I # {} THEN Min(I) ELSE 0
  BY DEF SelectInSeq
<1>2. Select(accepts, pick) = IF first = 0 THEN None ELSE accepts[first]
  BY DEF Select
<1>3. first # 0 /\ I # {}
  BY <1>1, <1>2
<1>4. Len(accepts) \in Nat /\ DOMAIN accepts = 1..Len(accepts)
  BY LenProperties
<1>5. I \subseteq Nat
  BY <1>4
<1>6. first \in I
  BY <1>1, <1>3, <1>5, MinIsMember
<1>7. first \in DOMAIN accepts /\ Fits(accepts[first]) /\ Select(accepts, pick) = accepts[first]
  BY <1>2, <1>3, <1>4, <1>6
<1> QED
  BY <1>7 DEF Range

\* A base fee is a number, and one an int can hold.
LEMMA BaseFeeInt ==
  ASSUME NEW table \in FeeTables, NEW asset
  PROVE  GetBaseFee(table, asset) \in Int /\ GetBaseFee(table, asset) <= MaxInt
BY DEF GetBaseFee

\* What a facilitator quotes is a fee.
LEMMA QuoteIsFee ==
  ASSUME NEW table \in FeeTables, NEW r
  PROVE  FeeQuote(table, r) \in Fees
BY BaseFeeInt DEF FeeQuote, PermitQuote, AuthorizationQuote, Fees

-----------------------------------------------------------------------------
\* The requirements of an API key are those of its usable configs.
LEMMA KeptAreConfigs ==
  ASSUME NEW answer \in SeqOf(Configs, MaxConfigs), NEW scheme, NEW validFor
  PROVE  BuildFromAPIKey(answer, scheme, validFor)
           \in Seq({Requirement(scheme, c, validFor) : c \in {d \in Configs : Usable(scheme, d)}})
<1> DEFINE kept == {Requirement(scheme, c, validFor) : c \in {d \in Configs : Usable(scheme, d)}}
           V == Seq(kept)
           N == Len(answer)
           After(n, v) == IF Usable(scheme, answer[n])
                          THEN Append(v, Requirement(scheme, answer[n], validFor)) ELSE v
           step == [n \in 1..N |-> [v \in V |-> After(n, v)]]
           Builds(g) == g = [n \in 0..N |-> IF n = 0 THEN <<>> ELSE After(n, g[n - 1])]
           built == CHOOSE g : Builds(g)
<1>1. BuildFromAPIKey(answer, scheme, validFor) = built[N]
  BY DEF BuildFromAPIKey
<1>2. N \in Nat /\ \A n \in 1..N : answer[n] \in Configs
  BY DEF SeqOf
<1>3. ASSUME NEW n \in 1..N, NEW v \in V PROVE After(n, v) \in V
  <2>1. CASE Usable(scheme, answer[n])
    <3>1. Requirement(scheme, answer[n], validFor) \in kept
      BY <1>2, <2>1
    <3> HIDE DEF kept
    <3> QED
      BY <2>1, <3>1
  <2> QED
    BY <2>1
<1>4. <<>> \in V
  OBVIOUS
<1> HIDE DEF V, After, N
<1>5. IsLoop(step, N, V)
  BY <1>3 DEF IsLoop
<1>6. PICK f : Runs(f, <<>>, step, N, V)
  <2> HIDE DEF step
  <2> QED
    BY <1>2, <1>4, <1>5, Recursion
<1>7. Builds(f)
  <2>1. ASSUME NEW n \in 1..N PROVE step[n][f[n - 1]] = After(n, f[n - 1])
    <3>1. f[n - 1] \in V
      BY <1>2, <1>6 DEF Runs
    <3> QED
      BY <3>1
  <2>2. \A n \in 1..N : f[n] = After(n, f[n - 1])
    BY <1>6, <2>1 DEF Runs
  <2>3. f \in [0..N -> V] /\ f[0] = <<>>
    BY <1>6 DEF Runs
  <2>4. \A n \in 0..N : n = 0 \/ n \in 1..N
    BY <1>2
  <2> HIDE DEF step
  <2> QED
    BY <2>2, <2>3, <2>4
<1>8. Builds(built)
  <2> HIDE DEF Builds
  <2> QED
    BY <1>7
<1>9. built[0] = <<>> /\ \A n \in 1..N : built[n] = After(n, built[n - 1])
  <2> HIDE DEF built
  <2>1. N \in Nat /\ built = [n \in 0..N |-> IF n = 0 THEN <<>> ELSE After(n, built[n - 1])]
    BY <1>2, <1>8
  <2>2. 0 \in 0..N /\ \A n \in 1..N : n \in 0..N /\ n # 0
    BY <2>1
  <2> QED
    BY <2>1, <2>2, Zenon
<1>10. built[N] \in V
  <2> DEFINE S == {n \in Nat : built[n] \in V}
  <2> HIDE DEF built
  <2>1. 0 \in S
    BY <1>4, <1>9
  <2>2. ASSUME NEW n \in 0..(N - 1), n \in S PROVE n + 1 \in S
    BY <1>2, <1>3, <1>9, <2>2
  <2>3. 0..N \subseteq S
    <3> HIDE DEF S
    <3> QED
      BY <1>2, <2>1, <2>2, IntervalInduction
  <2> QED
    BY <1>2, <2>3
<1> QED
  BY <1>1, <1>10 DEF V

\* The server's requirements are such ones, without a fee.
LEMMA BuiltAreRequirements ==
  ASSUME NEW scheme \in Schemes, NEW ownScheme \in Schemes, NEW answer \in KeyAnswers,
         NEW validFor \in ValidFors, NEW resource \in Configs \cup {None},
         BuildAccepts(scheme, answer, resource, ownScheme, validFor) # ServerError
  PROVE  LET reqs == BuildAccepts(scheme, answer, resource, ownScheme, validFor)
         IN  /\ reqs \in Seq(Requirements)
             /\ \A i \in DOMAIN reqs : reqs[i].fee = NoFee
<1> DEFINE Plain == {r \in Requirements : r.fee = NoFee}
           reqs == BuildAccepts(scheme, answer, resource, ownScheme, validFor)
           fromKey == BuildFromAPIKey(answer, scheme, validFor)
           own == BuildRequirements(<<resource>>, ownScheme, validFor)
<1>1. ASSUME NEW s \in Schemes, NEW c \in Configs, Usable(s, c)
      PROVE  Requirement(s, c, validFor) \in Plain
  BY <1>1 DEF Usable, GetToken, Requirement, Timeout, Requirements, Fees
<1>2. ASSUME answer # ServerError
      PROVE  fromKey \in Seq(Plain)
  <2> DEFINE kept == {Requirement(scheme, c, validFor) : c \in {d \in Configs : Usable(scheme, d)}}
  <2>1. fromKey \in Seq(kept)
    BY <1>2, KeptAreConfigs DEF KeyAnswers
  <2>2. kept \subseteq Plain
    BY <1>1
  <2> HIDE DEF kept, Plain, fromKey
  <2> QED
    BY <2>1, <2>2
<1>3. ASSUME resource # None, own # ServerError
      PROVE  own \in Seq(Plain)
  <2>1. resource \in Configs /\ Usable(ownScheme, resource)
    BY <1>3 DEF BuildRequirements
  <2>2. own = <<Requirement(ownScheme, resource, validFor)>>
    BY <1>3 DEF BuildRequirements
  <2> HIDE DEF own, Plain
  <2> QED
    BY <1>1, <2>1, <2>2
<1>4. reqs \in Seq(Plain)
  BY <1>2, <1>3 DEF BuildAccepts
<1>5. reqs \in Seq(Requirements)
  <2> HIDE DEF reqs
  <2> QED BY <1>4
<1>6. \A i \in DOMAIN reqs : reqs[i] \in Plain
  <2> HIDE DEF reqs, Plain
  <2> QED BY <1>4
<1> QED
  BY <1>5, <1>6

\* A joined quote changes the fee of its own requirement and nothing else, however many
\* quotes there are.
LEMMA JoinedAreRequirements ==
  ASSUME NEW table \in FeeTables, NEW reqs \in Seq(Requirements), NEW n \in 0..Len(reqs),
         \A i \in DOMAIN reqs : reqs[i].fee = NoFee
  PROVE  LET joined == JoinFees(reqs, [i \in 1..n |-> FeeQuote(table, reqs[i])])
         IN  /\ joined \in Seq(Requirements)
             /\ \A i \in DOMAIN joined :
                  joined[i].fee # NoFee => joined[i].fee = FeeQuote(table, joined[i])
<1> DEFINE quotes == [i \in 1..n |-> FeeQuote(table, reqs[i])]
           joined == JoinFees(reqs, quotes)
<1>1. ASSUME NEW i \in DOMAIN reqs
      PROVE  /\ joined[i] \in Requirements
             /\ joined[i].fee # NoFee => joined[i].fee = FeeQuote(table, joined[i])
  <2>1. joined[i] = IF i \in 1..n /\ FeeQuote(table, reqs[i]) # NoFee
                    THEN [reqs[i] EXCEPT !.fee = FeeQuote(table, reqs[i])] ELSE reqs[i]
    BY DEF JoinFees
  <2>2. reqs[i] \in Requirements /\ reqs[i].fee = NoFee
    OBVIOUS
  <2>3. FeeQuote(table, reqs[i]) \in Fees
    BY QuoteIsFee
  <2>4. joined[i].scheme = reqs[i].scheme /\ joined[i].asset = reqs[i].asset
    BY <2>1, <2>2 DEF Requirements
  <2>5. FeeQuote(table, joined[i]) = FeeQuote(table, reqs[i])
    BY <2>4 DEF FeeQuote
  <2>6. joined[i] \in Requirements
    BY <2>1, <2>2, <2>3 DEF Requirements
  <2> QED
    BY <2>1, <2>2, <2>5, <2>6 DEF Requirements
<1>2. Len(reqs) \in Nat /\ DOMAIN joined = 1..Len(reqs) /\ DOMAIN reqs = 1..Len(reqs)
  BY LenProperties DEF JoinFees
<1>3. joined = [i \in 1..Len(reqs) |-> joined[i]]
  BY <1>2 DEF JoinFees
<1> HIDE DEF joined
<1>4. joined \in [1..Len(reqs) -> Requirements]
  BY <1>1, <1>2, <1>3
<1>5. joined \in Seq(Requirements)
  BY <1>2, <1>4, SeqDef
<1> QED
  BY <1>1, <1>2, <1>5 DEF joined

-----------------------------------------------------------------------------
\* The inductive invariant: the types,
Typed ==
  /\ stage \in {"start", "built", "issued", "signed", "verified", "settled", "refused", "failed"}
  /\ accepts \in Seq(Requirements)
  /\ fees \in FeeTables /\ quoted \in FeeTables \cup {None}
  /\ clock \in 1..MaxClock /\ issued \in 0..clock
  /\ opened \in Int /\ issued - MaxSkew <= opened /\ opened <= issued + MaxSkew
  /\ wallet \in {"sdk", "other", None}

\* the order of the steps,
InOrder ==
  /\ stage \in {"start", "built"} => quoted = None
  /\ stage \in {"start", "built", "issued"} => chosen = None /\ wallet = None
  /\ stage \in {"start", "built", "issued", "signed", "failed"} => verdict = None

\* whose fee a requirement carries,
FeesQuoted ==
  \A i \in DOMAIN accepts :
    accepts[i].fee # NoFee =>
      quoted # None /\ accepts[i].fee = FeeQuote(quoted, accepts[i])

\* what was signed, by the SDK's client and when, or by another one,
SignedBy(now) ==
  /\ now \in Int /\ issued - MaxSkew <= now /\ now <= clock + MaxSkew
  /\ \/ chosen.scheme = "permit402" /\ signed = CreatePermit(chosen)
     \/ chosen.scheme = "transfer_auth" /\ signed = CreateAuthorization(chosen, now)

SignedAlike(terms) ==
  signed = IF chosen.scheme = "permit402" THEN terms ELSE AuthorizationOf(terms, chosen)

SignedAsChosen ==
  stage \in {"signed", "verified", "settled", "refused"} =>
    /\ chosen \in Range(accepts)
    /\ \/ wallet = "sdk" /\ \E now \in Int : SignedBy(now)
       \/ wallet = "other" /\ \E terms \in ForeignTerms : SignedAlike(terms)

\* and that a verdict is of the terms, the fees and the time that are still there.
VerdictStands ==
  /\ stage = "verified" => verdict = "valid"
  /\ stage = "settled" => Check = "valid"  /\ verdict = "valid"
  /\ stage = "refused" => Check # "valid" /\ verdict = Check

TermsInv == Typed /\ InOrder /\ FeesQuoted /\ SignedAsChosen /\ VerdictStands /\ SelectorObeyed

LEMMA InitTerms == Init => TermsInv
BY DEF Init, TermsInv, Typed, InOrder, FeesQuoted, SignedAsChosen, VerdictStands, SelectorObeyed

LEMMA BuildTerms == TermsInv /\ Build => TermsInv'
<1> SUFFICES ASSUME TermsInv, Build PROVE TermsInv'
  OBVIOUS
<1> USE DEF TermsInv, Build
<1>1. /\ accepts' \in Seq(Requirements)
      /\ \A i \in DOMAIN accepts' : accepts'[i].fee # NoFee => quoted # None /\ accepts'[i].fee = FeeQuote(quoted, accepts'[i])
      /\ stage' \in {"built", "failed"}
  <2>1. PICK scheme \in Schemes, ownScheme \in Schemes, answer \in KeyAnswers, validFor \in ValidFors,
             resource \in Configs \cup {None} :
             LET reqs == BuildAccepts(scheme, answer, resource, ownScheme, validFor)
             IN  IF reqs = ServerError
                 THEN stage' = "failed" /\ UNCHANGED accepts
                 ELSE stage' = "built" /\ accepts' = reqs
    OBVIOUS
  <2>3. CASE BuildAccepts(scheme, answer, resource, ownScheme, validFor) = ServerError
    BY <2>1, <2>3 DEF Typed, FeesQuoted
  <2>4. CASE BuildAccepts(scheme, answer, resource, ownScheme, validFor) # ServerError
    BY <2>1, <2>4, BuiltAreRequirements
  <2> QED
    BY <2>3, <2>4
<1>2. chosen' = None /\ wallet' = None /\ verdict' = None /\ quoted' = None
  BY DEF InOrder
<1>3. Typed'
  BY <1>1 DEF Typed
<1>4. InOrder'
  BY <1>1, <1>2 DEF InOrder
<1>5. FeesQuoted'
  BY <1>1 DEF FeesQuoted
<1>6. SignedAsChosen' /\ VerdictStands' /\ SelectorObeyed'
  BY <1>1, <1>2 DEF SignedAsChosen, VerdictStands, SelectorObeyed
<1> QED
  BY <1>3, <1>4, <1>5, <1>6

LEMMA QuoteTerms == TermsInv /\ QuoteFees => TermsInv'
<1> SUFFICES ASSUME TermsInv, QuoteFees PROVE TermsInv'
  OBVIOUS
<1> USE DEF TermsInv
<1>1. /\ accepts' \in Seq(Requirements)
      /\ quoted' \in FeeTables \cup {None}
      /\ \A i \in DOMAIN accepts' : accepts'[i].fee # NoFee => quoted' # None /\ accepts'[i].fee = FeeQuote(quoted', accepts'[i])
  <2>1. \A i \in DOMAIN accepts : accepts[i].fee = NoFee
    BY DEF QuoteFees, InOrder, FeesQuoted
  <2>2. CASE UNCHANGED <<accepts, quoted>>
    BY <2>1, <2>2 DEF Typed
  <2>3. CASE /\ \E n \in 0..Len(accepts) :
                  accepts' = JoinFees(accepts, [i \in 1..n |-> FeeQuote(fees, accepts[i])])
             /\ quoted' = fees
    BY <2>1, <2>3, JoinedAreRequirements DEF Typed
  <2> QED
    BY <2>2, <2>3 DEF QuoteFees, FeeAnswers
<1>2. /\ stage' = "issued" /\ issued' = clock /\ opened' \in Reading
      /\ chosen' = None /\ wallet' = None /\ verdict' = None
      /\ UNCHANGED <<fees, clock>>
  BY DEF QuoteFees, InOrder
<1>3. Typed'
  <2>1. clock \in Nat /\ clock' \in 1..MaxClock /\ issued' \in 0..clock'
    BY <1>2 DEF Typed
  <2>2. opened' \in Int /\ clock - MaxSkew <= opened' /\ opened' <= clock + MaxSkew
    BY <1>2, <2>1 DEF Reading
  <2> QED
    BY <1>1, <1>2, <2>1, <2>2 DEF Typed
<1>4. InOrder'
  BY <1>2 DEF InOrder
<1>5. FeesQuoted'
  BY <1>1 DEF FeesQuoted
<1>6. SignedAsChosen' /\ VerdictStands' /\ SelectorObeyed'
  BY <1>2 DEF SignedAsChosen, VerdictStands, SelectorObeyed
<1> QED
  BY <1>3, <1>4, <1>5, <1>6

LEMMA SignTerms == TermsInv /\ Sign => TermsInv'
<1> SUFFICES ASSUME TermsInv, Sign PROVE TermsInv'
  OBVIOUS
<1> USE DEF TermsInv
<1>1. /\ UNCHANGED <<accepts, fees, quoted, clock, issued, opened>>
      /\ stage' \in {"signed", "failed"}
      /\ stage' = "signed" => chosen' # None
      /\ chosen' = Select(accepts, picked')
      /\ wallet' = "sdk"
      /\ verdict' = None
  BY DEF Sign, InOrder
<1>2. chosen' # None =>
        /\ chosen' \in Range(accepts)
        /\ picked' # None => chosen'.scheme = picked'.scheme /\ chosen'.network = picked'.network
  BY <1>1, SelectFits DEF Typed
<1>3. Typed' /\ InOrder' /\ FeesQuoted' /\ VerdictStands'
  BY <1>1 DEF Typed, InOrder, FeesQuoted, VerdictStands
<1>4. SelectorObeyed'
  BY <1>1, <1>2 DEF SelectorObeyed
<1>5. ASSUME stage' = "signed" PROVE \E now \in Int : SignedBy(now)'
  <2>1. clock \in Int /\ issued \in Int /\ issued <= clock
    BY DEF Typed
  <2>2. CASE chosen'.scheme = "permit402" /\ signed' = CreatePermit(chosen')
    <3>1. signed' = CreatePermit(chosen)'
      BY <1>1, <2>2 DEF CreatePermit
    <3>2. SignedBy(clock)'
      BY <1>1, <2>1, <2>2, <3>1 DEF SignedBy
    <3> QED
      BY <1>1, <2>1, <3>2
  <2>3. CASE /\ chosen'.scheme = "transfer_auth"
             /\ \E now \in Reading : signed' = CreateAuthorization(chosen', now)
    <3>1. PICK now \in Reading : signed' = CreateAuthorization(chosen', now)
      BY <2>3
    <3>2. now \in Int /\ issued - MaxSkew <= now /\ now <= clock + MaxSkew
      BY <2>1, <3>1 DEF Reading
    <3>3. signed' = CreateAuthorization(chosen', now)
      BY <3>1
    <3>4. /\ issued' - MaxSkew <= now /\ now <= clock' + MaxSkew
      BY <1>1, <3>2
    <3> QED
      BY <2>3, <3>2, <3>3, <3>4 DEF SignedBy, CreateAuthorization
  <2> QED
    BY <1>1, <1>5, <2>2, <2>3 DEF Sign
<1>6. SignedAsChosen'
  BY <1>1, <1>2, <1>5 DEF SignedAsChosen
<1> QED
  BY <1>3, <1>4, <1>6

LEMMA SignElsewhereTerms == TermsInv /\ SignElsewhere => TermsInv'
<1> SUFFICES ASSUME TermsInv, SignElsewhere PROVE TermsInv'
  OBVIOUS
<1> USE DEF TermsInv
<1>1. /\ UNCHANGED <<accepts, fees, quoted, clock, issued, opened>>
      /\ stage' = "signed" /\ wallet' = "other" /\ verdict' = None
      /\ chosen' \in Range(accepts)
      /\ \E terms \in ForeignTerms :
           signed' = IF chosen'.scheme = "permit402" THEN terms ELSE AuthorizationOf(terms, chosen')
  BY DEF SignElsewhere, InOrder
<1>2. Typed' /\ InOrder' /\ FeesQuoted' /\ VerdictStands'
  BY <1>1 DEF Typed, InOrder, FeesQuoted, VerdictStands
<1>3. SelectorObeyed'
  BY <1>1 DEF SelectorObeyed
<1>4. \E terms \in ForeignTerms : SignedAlike(terms)'
  BY <1>1 DEF SignedAlike, AuthorizationOf
<1>5. SignedAsChosen'
  BY <1>1, <1>4 DEF SignedAsChosen
<1> QED
  BY <1>2, <1>3, <1>5

LEMMA CheckKeepsTerms ==
  ASSUME TermsInv, NEW before \in {"signed", "verified"}, NEW after \in {"verified", "settled"},
         CheckTerms(before, after)
  PROVE  TermsInv'
<1> USE DEF TermsInv
<1>1. /\ UNCHANGED <<accepts, fees, quoted, clock, issued, opened, picked, chosen, wallet, signed>>
      /\ stage \in {"signed", "verified"} /\ stage' = IF Check = "valid" THEN after ELSE "refused"
      /\ verdict' = Check /\ Check' = Check
  BY DEF CheckTerms, Check, ValidatePermit, VerifyAuthorization, ValidateAuthorization, InTime, CheckFee
<1>2. Typed' /\ InOrder' /\ FeesQuoted' /\ SelectorObeyed'
  BY <1>1 DEF Typed, InOrder, FeesQuoted, SelectorObeyed
<1>3. VerdictStands'
  BY <1>1 DEF VerdictStands
<1>4. \A now \in Int : SignedBy(now) => SignedBy(now)'
  BY <1>1 DEF SignedBy, CreatePermit, CreateAuthorization
<1>6. \A terms \in ForeignTerms : SignedAlike(terms) => SignedAlike(terms)'
  BY <1>1 DEF SignedAlike, AuthorizationOf
<1>5. SignedAsChosen'
  BY <1>1, <1>4, <1>6 DEF SignedAsChosen
<1> QED
  BY <1>2, <1>3, <1>5

LEMMA TimePassesTerms == TermsInv /\ (ChangeFees \/ Tick \/ UNCHANGED vars) => TermsInv'
<1> SUFFICES ASSUME TermsInv, ChangeFees \/ Tick \/ UNCHANGED vars PROVE TermsInv'
  OBVIOUS
<1> USE DEF TermsInv
<1>1. /\ UNCHANGED <<stage, accepts, quoted, issued, opened, picked, chosen, wallet, signed, verdict>>
      /\ fees' \in FeeTables /\ clock' \in 1..MaxClock /\ clock' >= clock
      /\ UnderWay \/ UNCHANGED <<fees, clock>>
  BY DEF ChangeFees, Tick, vars, Typed
<1>2. Typed'
  BY <1>1 DEF Typed
<1>3. InOrder' /\ FeesQuoted' /\ SelectorObeyed'
  BY <1>1 DEF InOrder, FeesQuoted, SelectorObeyed
<1>4. stage \in {"settled", "refused"} => Check' = Check
  BY <1>1 DEF UnderWay, Check, ValidatePermit, VerifyAuthorization, ValidateAuthorization, InTime, CheckFee
<1>5. VerdictStands'
  BY <1>1, <1>4 DEF VerdictStands
<1>6. ASSUME NEW now \in Int, SignedBy(now) PROVE SignedBy(now)'
  <2>1. now <= clock + MaxSkew
    BY <1>6 DEF SignedBy
  <2>2. now <= clock' + MaxSkew
    <3>1. now \in Int /\ clock \in Int /\ clock' \in Int /\ clock <= clock'
      BY <1>1, <1>6 DEF Typed
    <3>2. MaxSkew \in Int
      BY PaymentAssumption
    <3> QED BY <2>1, <3>1, <3>2, StillWithin
  <2> QED
    BY <1>1, <1>6, <2>2 DEF SignedBy, CreatePermit, CreateAuthorization
<1>8. \A terms \in ForeignTerms : SignedAlike(terms) => SignedAlike(terms)'
  BY <1>1 DEF SignedAlike, AuthorizationOf
<1>7. SignedAsChosen'
  BY <1>1, <1>6, <1>8 DEF SignedAsChosen
<1> QED
  BY <1>2, <1>3, <1>5, <1>7

\* Every state of every payment satisfies the invariant.
LEMMA TermsInvariant == Spec => []TermsInv
<1>1. TermsInv /\ [Next]_vars => TermsInv'
  <2> SUFFICES ASSUME TermsInv, [Next]_vars PROVE TermsInv'
    OBVIOUS
  <2>1. CASE Verify
    BY <2>1, CheckKeepsTerms DEF Verify
  <2>2. CASE Settle
    BY <2>2, CheckKeepsTerms DEF Settle
  <2> QED
    BY <2>1, <2>2, BuildTerms, QuoteTerms, SignTerms, SignElsewhereTerms,
       TimePassesTerms DEF Next
<1> QED
  BY <1>1, InitTerms, PTL DEF Spec

-----------------------------------------------------------------------------
\* What is chosen was asked for.
LEMMA ChosenIsRequirement ==
  ASSUME TermsInv, stage \in {"signed", "verified", "settled", "refused"}
  PROVE  chosen \in Requirements /\ chosen.scheme \in {"permit402", "transfer_auth"}
<1>1. PICK i \in DOMAIN accepts : chosen = accepts[i]
  BY DEF TermsInv, SignedAsChosen, Range
<1>2. chosen \in Requirements
  BY <1>1 DEF TermsInv, Typed
<1> QED
  BY <1>2 DEF Requirements

\* What the SDK's client signs, in the words of the properties: the merchant's terms, and
\* a window that is open for the clock skew but for a permit of a server that is ahead.
SignedTerms ==
  /\ chosen \in Requirements
  /\ signed.payTo = chosen.payTo /\ signed.payToken = chosen.asset
  /\ signed.payAmount = chosen.amount
  /\ signed.validAfter \in Int /\ signed.validBefore \in Int
  /\ signed.validBefore >= issued + Window - MaxSkew
  /\ signed.validAfter > clock => chosen.scheme = "permit402" /\ opened > issued
  /\ chosen.scheme = "transfer_auth" => signed.feeTo = Zero

LEMMA SignedAreTerms ==
  ASSUME TermsInv, stage \in {"signed", "verified", "settled", "refused"}, wallet = "sdk"
  PROVE  SignedTerms
<1>1. PICK now \in Int : SignedBy(now)
  BY DEF TermsInv, SignedAsChosen
<1>2. chosen \in Requirements
  BY ChosenIsRequirement
<1>3. /\ clock \in Int /\ issued \in Int /\ issued <= clock
      /\ opened \in Int /\ issued - MaxSkew <= opened
      /\ issued - MaxSkew <= now /\ now <= clock + MaxSkew
  BY <1>1 DEF TermsInv, Typed, SignedBy
<1>4. CASE chosen.scheme = "permit402" /\ signed = CreatePermit(chosen)
  <2>1. signed.validAfter = opened /\ signed.validBefore = opened + Window
    BY <1>4 DEF CreatePermit
  <2>2. opened > clock => opened > issued
    BY <1>3
  <2>3. opened + Window \in Int /\ opened + Window >= issued + Window - MaxSkew
    BY <1>3
  <2> QED
    BY <1>2, <1>3, <1>4, <2>1, <2>2, <2>3 DEF SignedTerms, CreatePermit
<1>5. CASE chosen.scheme = "transfer_auth" /\ signed = CreateAuthorization(chosen, now)
  <2>1. signed.validAfter = now - Buffer /\ signed.validBefore = now + Window
    BY <1>5 DEF CreateAuthorization
  <2>2. ~(now - Buffer > clock)
    BY <1>3
  <2>3. /\ now - Buffer \in Int /\ now + Window \in Int
        /\ now + Window >= issued + Window - MaxSkew
    BY <1>3
  <2> QED
    BY <1>2, <1>5, <2>1, <2>2, <2>3 DEF SignedTerms, CreateAuthorization
<1> QED
  BY <1>1, <1>4, <1>5 DEF SignedBy

\* What anybody signs are numbers where numbers are compared, and an authorization has no
\* token of its own and no fee.
LEMMA SignedAreNumbers ==
  ASSUME TermsInv, stage \in {"signed", "verified", "settled", "refused"}
  PROVE  /\ signed.payAmount \in Int /\ signed.feeAmount \in Int
         /\ signed.validAfter \in Int /\ signed.validBefore \in Int
         /\ chosen.scheme = "transfer_auth" =>
              signed.payToken = chosen.asset /\ signed.feeTo = Zero
<1>1. CASE wallet = "sdk"
  <2>1. SignedTerms /\ signed.payAmount \in Int
    BY <1>1, SignedAreTerms DEF SignedTerms, Requirements
  <2>2. chosen.fee \in Fees /\ 0 \in Int
    BY <2>1 DEF SignedTerms, Requirements
  <2>3. signed.feeAmount \in Int
    BY <1>1, <2>2 DEF TermsInv, SignedAsChosen, SignedBy, CreatePermit, CreateAuthorization, Fees
  <2> QED
    BY <2>1, <2>3 DEF SignedTerms
<1>2. CASE wallet = "other"
  <2>1. PICK terms \in ForeignTerms : SignedAlike(terms)
    BY <1>2 DEF TermsInv, SignedAsChosen
  <2>2. /\ terms.payAmount \in Int /\ terms.feeAmount \in Int /\ 0 \in Int
        /\ terms.validAfter \in Int /\ terms.validBefore \in Int
    OBVIOUS
  <2>3. CASE chosen.scheme = "permit402"
    BY <2>1, <2>2, <2>3 DEF SignedAlike
  <2>4. CASE chosen.scheme # "permit402"
    BY <2>1, <2>2, <2>4 DEF SignedAlike, AuthorizationOf
  <2> QED
    BY <2>3, <2>4
<1> QED
  BY <1>1, <1>2 DEF TermsInv, SignedAsChosen

\* A payment never leaves the order of its steps, and whatever an API key or a
\* resource is configured with, only what has a mechanism, a known token and an amount is
\* asked for.
THEOREM TermsTypeCorrect == Spec => []TypeOK
<1>1. TermsInv => TypeOK
  <2> SUFFICES ASSUME TermsInv PROVE TypeOK
    OBVIOUS
  <2>1. \A i \in DOMAIN accepts : accepts[i] \in Requirements
    BY DEF TermsInv, Typed
  <2>2. \A i \in DOMAIN accepts : /\ accepts[i].asset \in Registry
                                 /\ FindMechanism(accepts[i].network, accepts[i].scheme)
                                 /\ accepts[i].amount # NoAmount /\ accepts[i].timeout > 0
    BY <2>1 DEF Requirements
  <2>3. opened - issued \in (-MaxSkew)..MaxSkew
    <3>1. issued \in Int /\ opened \in Int /\ issued - MaxSkew <= opened /\ opened <= issued + MaxSkew
      BY DEF TermsInv, Typed
    <3> QED
      BY <3>1
  <2> QED
    BY <2>2, <2>3 DEF TypeOK, TermsInv, Typed, InOrder
<1> QED
  BY <1>1, TermsInvariant, PTL

\* What goes to the chain, whoever signed it, pays the payee and, unless it carries none,
\* the fee of the facilitator's present table, within the signed window; only amounts
\* beyond int64 escape the comparison of an authorization.
THEOREM SettledPays == Spec => []SettledTermsPay
<1>1. TermsInv => SettledTermsPay
  <2> SUFFICES ASSUME TermsInv, stage = "settled" PROVE SettledTermsPay
    BY DEF SettledTermsPay
  <2>1. Check = "valid" /\ chosen.amount \in Int /\ chosen.scheme \in {"permit402", "transfer_auth"}
    BY ChosenIsRequirement DEF TermsInv, VerdictStands, Requirements
  <2>2. /\ signed.payAmount \in Int /\ signed.feeAmount \in Int
        /\ signed.validAfter \in Int /\ signed.validBefore \in Int
        /\ chosen.scheme = "transfer_auth" =>
             signed.payToken = chosen.asset /\ signed.feeTo = Zero
    BY SignedAreNumbers
  <2>3. InTime(signed, clock) = "valid"
    BY <2>1 DEF Check, ValidatePermit, VerifyAuthorization, ValidateAuthorization
  <2>4. clock \in signed.validAfter..signed.validBefore
    <3>1. clock \in Int
      BY DEF TermsInv, Typed
    <3> QED
      BY <2>2, <2>3, <3>1 DEF InTime
  <2>5. CASE chosen.scheme = "permit402"
    <3>1. /\ ~(signed.payAmount < chosen.amount)
          /\ signed.payTo = chosen.payTo /\ signed.payToken = chosen.asset
          /\ CheckFee(fees, signed) = "valid"
      BY <2>1, <2>5 DEF Check, ValidatePermit
    <3>2. ASSUME signed.feeTo # Zero
          PROVE  signed.feeTo = FeeTo /\ signed.feeAmount >= GetBaseFee(fees, signed.payToken)
      <4>1. /\ signed.feeTo = FeeTo
            /\ ~(GetBaseFee(fees, signed.payToken) < 0)
            /\ ~(ParseInt(signed.feeAmount) < GetBaseFee(fees, signed.payToken))
        BY <3>1, <3>2 DEF CheckFee
      <4>2. GetBaseFee(fees, signed.payToken) \in Int
        BY BaseFeeInt DEF TermsInv, Typed
      <4> QED
        BY <2>2, <4>1, <4>2 DEF ParseInt, MinInt
    <3> QED
      BY <2>1, <2>2, <2>4, <2>5, <3>1, <3>2 DEF SettledTermsPay
  <2>6. CASE chosen.scheme = "transfer_auth"
    <3>1. /\ ~(ParseInt(signed.payAmount) < ParseInt(chosen.amount))
          /\ signed.payTo = chosen.payTo
          /\ signed.domain = TokenDomain(Known, chosen.asset)
      BY <2>1, <2>6 DEF Check, VerifyAuthorization, ValidateAuthorization
    <3>2. signed.payAmount >= chosen.amount \/ Saturated(signed.payAmount, chosen.amount)
      BY <2>1, <2>2, <3>1 DEF ParseInt, MinInt, Saturated
    <3> QED
      BY <2>2, <2>4, <2>6, <3>1, <3>2 DEF SettledTermsPay
  <2> QED
    BY <2>1, <2>5, <2>6
<1> QED
  BY <1>1, TermsInvariant, PTL

\* A verdict about the window is of a payment that was checked, and means what it says.
LEMMA WindowVerdict ==
  ASSUME TermsInv, wallet = "sdk", verdict \in {"expired", "not_yet_valid"}
  PROVE  /\ stage = "refused" /\ SignedTerms /\ clock \in Int /\ issued \in Int
         /\ verdict = "expired" => signed.validBefore < clock
         /\ verdict = "not_yet_valid" => signed.validAfter > clock
<1>1. stage = "refused" /\ verdict = Check
  BY DEF TermsInv, Typed, InOrder, VerdictStands
<1>2. InTime(signed, clock) = verdict
  <2>1. \A p : CheckFee(fees, p) \notin {"expired", "not_yet_valid"}
    BY DEF CheckFee
  <2> QED
    BY <1>1, <2>1 DEF Check, ValidatePermit, VerifyAuthorization, ValidateAuthorization
<1>3. SignedTerms /\ clock \in Int /\ issued \in Int
  BY <1>1, SignedAreTerms DEF TermsInv, Typed
<1> QED
  BY <1>1, <1>2, <1>3 DEF InTime

\* A payment within the timeout of its requirement is not too late, as far as the fixed
\* window of the mechanisms leaves room for the clocks.
THEOREM TimeoutIsHonoured == Spec => []TimeoutHonoured
<1>1. TermsInv => TimeoutHonoured
  <2> SUFFICES ASSUME TermsInv, verdict = "expired", wallet = "sdk" PROVE TimeoutHonoured
    BY DEF TimeoutHonoured
  <2>1. /\ signed.validBefore < clock /\ signed.validBefore >= issued + Window - MaxSkew
        /\ clock \in Int /\ issued \in Int /\ signed.validBefore \in Int
    BY WindowVerdict DEF SignedTerms
  <2>2. clock > issued + Window - MaxSkew
    BY <2>1
  <2>3. chosen.timeout \in Int
    BY WindowVerdict DEF SignedTerms, Requirements
  <2>4. chosen.timeout <= Window - MaxSkew => clock > issued + chosen.timeout
    BY <2>1, <2>2, <2>3
  <2> QED
    BY <2>2, <2>3, <2>4 DEF TimeoutHonoured
<1> QED
  BY <1>1, TermsInvariant, PTL

\* Only a permit402 permit of a server whose clock is ahead comes too early.
THEOREM TooEarlyIsSkew == Spec => []TooEarlyIsServerSkew
<1>1. TermsInv => TooEarlyIsServerSkew
  BY WindowVerdict DEF TooEarlyIsServerSkew, SignedTerms
<1> QED
  BY <1>1, TermsInvariant, PTL

\* Each requirement of a 402 response carries the quote of its own token.
THEOREM OwnTokensFee == Spec => []FeeOfOwnToken
<1>1. TermsInv => FeeOfOwnToken
  BY DEF TermsInv, FeesQuoted, FeeOfOwnToken
<1> QED
  BY <1>1, TermsInvariant, PTL

\* What is paid is asked for, and is of the scheme and the network that were picked.
THEOREM SelectorIsObeyed == Spec => []SelectorObeyed
<1>1. TermsInv => SelectorObeyed
  BY DEF TermsInv
<1> QED
  BY <1>1, TermsInvariant, PTL

\* The fee of a permit that was quoted from the present table, or not at all, is right.
LEMMA QuotedFeeAccepted ==
  ASSUME TermsInv, stage = "refused", wallet = "sdk", quoted \in {None, fees},
         chosen.scheme = "permit402"
  PROVE  CheckFee(fees, signed) = "valid"
<1>1. signed = CreatePermit(chosen)
  BY DEF TermsInv, SignedAsChosen, SignedBy
<1>2. CASE chosen.fee = NoFee
  BY <1>1, <1>2 DEF CreatePermit, CheckFee
<1>3. CASE chosen.fee # NoFee
  <2>1. PICK i \in DOMAIN accepts : chosen = accepts[i]
    BY DEF TermsInv, SignedAsChosen, Range
  <2>2. chosen.fee = FeeQuote(fees, chosen)
    BY <1>3, <2>1 DEF TermsInv, FeesQuoted
  <2>3. /\ ~(GetBaseFee(fees, chosen.asset) < 0)
        /\ chosen.fee = [feeTo |-> FeeTo, feeAmount |-> GetBaseFee(fees, chosen.asset)]
    BY <1>3, <2>2 DEF FeeQuote, PermitQuote
  <2>4. /\ signed.feeTo = FeeTo /\ signed.feeAmount = GetBaseFee(fees, chosen.asset)
        /\ signed.payToken = chosen.asset
    BY <1>1, <1>3, <2>3 DEF CreatePermit
  <2>5. ~(ParseInt(signed.feeAmount) < GetBaseFee(fees, signed.payToken))
    BY <2>3, <2>4, BaseFeeInt DEF ParseInt, MinInt, TermsInv, Typed
  <2> QED
    BY <2>3, <2>4, <2>5 DEF CheckFee
<1> QED
  BY <1>2, <1>3

\* The SDK's facilitator refuses what the SDK's client signs for the SDK's server only
\* for a fee table that was changed, a window that is not open, a token that is not
\* allowed, or one that client and facilitator name differently.
THEOREM SignedAccepted == Spec => []SignedTermsAccepted
<1>1. TermsInv => SignedTermsAccepted
  <2> SUFFICES ASSUME TermsInv, stage = "refused", wallet = "sdk", quoted \in {None, fees},
                      ~(clock > issued + Window - MaxSkew)
               PROVE  SignedTermsAccepted
    BY DEF SignedTermsAccepted
  <2>1. /\ SignedTerms /\ chosen.amount \in Int /\ clock \in Int /\ issued \in Int
        /\ Check # "valid"
    BY SignedAreTerms DEF SignedTerms, Requirements, TermsInv, Typed, VerdictStands
  <2>2. ~(signed.validBefore < clock)
    BY <2>1 DEF SignedTerms
  <2>3. CASE chosen.scheme = "permit402"
    <3>1. Check = InTime(signed, clock)
      BY <2>1, <2>3, QuotedFeeAccepted DEF Check, ValidatePermit, SignedTerms
    <3>2. signed.validAfter > clock
      BY <2>1, <2>2, <3>1 DEF InTime
    <3> QED
      BY <2>1, <2>3, <3>2 DEF SignedTermsAccepted, SignedTerms
  <2>4. CASE chosen.scheme = "transfer_auth"
    <3>1. ~(signed.validAfter > clock)
      BY <2>1, <2>4 DEF SignedTerms
    <3>2. InTime(signed, clock) = "valid"
      BY <2>2, <3>1 DEF InTime
    <3>3. ~(ParseInt(signed.payAmount) < ParseInt(chosen.amount))
      BY <2>1 DEF SignedTerms, ParseInt, MinInt
    <3>4. signed.domain = TokenDomain(ClientKnown, chosen.asset)
      BY <2>4 DEF TermsInv, SignedAsChosen, SignedBy, CreateAuthorization
    <3>5. \/ chosen.asset \notin Allowed
          \/ signed.domain # TokenDomain(Known, chosen.asset)
      BY <2>1, <2>4, <3>2, <3>3 DEF Check, VerifyAuthorization, ValidateAuthorization, SignedTerms
    <3> QED
      BY <2>4, <3>4, <3>5 DEF SignedTermsAccepted
  <2> QED
    BY <2>3, <2>4, ChosenIsRequirement
<1> QED
  BY <1>1, TermsInvariant, PTL
=============================================================================
