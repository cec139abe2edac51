---------------------------- MODULE ClientProofs ----------------------------
(***************************************************************************)
(* The client.  For bodies of any size and whatever the server answers:    *)
(* one call of RequestWithPayment pays at most once, gives the caller the  *)
(* answer to what was paid for, and keeps no other response from the       *)
(* caller than the 402 it paid.  For any number of payments, any totals    *)
(* and any starting allowance, in whatever way the payments overlap: one  *)
(* is only refused for want of allowance if another drew while its permit  *)
(* was out or its Tron approve was not awaited; once any approve is mined  *)
(* none is refused again; and past its own approve an EVM client finds its *)
(* allowance.                                                              *)
(***************************************************************************)
EXTENDS HttpClient, ClientAllowance, Induction

Requests == [paid : BOOLEAN, offered : Nat, answered : BOOLEAN]

\* After the first request,
Asked == /\ Len(sent) = 1
         /\ sent[1].paid = FALSE

\* and after the second one.
Paid == /\ Len(sent) = 2
        /\ sent[1].paid = FALSE
        /\ sent[2].paid = TRUE

\* The requests made by each step, and what the caller got at the end.
CallInv ==
  /\ unread \in Nat
  /\ sent \in Seq(Requests)
  /\ pc \in {"first", "answered", "pay", "retry", "paid", "done"}
  /\ pc = "first" => sent = <<>>
  /\ pc \in {"answered", "pay", "retry"} => Asked
  /\ pc = "paid" => Paid
  /\ pc = "done" => \/ /\ Asked
                       /\ result.response = 1 \/ ~sent[1].answered
                    \/ /\ Paid
                       /\ \/ result = Result(2, FALSE)
                          \/ result = Result(0, TRUE) /\ ~sent[2].answered

LEMMA CallInit == HttpInit => CallInv
BY BodiesAssumption DEF HttpInit, CallInv

LEMMA DoKeeps ==
  ASSUME CallInv, NEW paid \in BOOLEAN, NEW next, Do(paid, next)
  PROVE  /\ unread' \in Nat
         /\ sent' \in Seq(Requests)
         /\ Len(sent') = Len(sent) + 1
         /\ sent'[Len(sent) + 1].paid = paid
         /\ \A i \in 1..Len(sent) : sent'[i] = sent[i]
         /\ \/ pc' = next
            \/ pc' = "done" /\ result' = Result(0, TRUE) /\ ~sent'[Len(sent) + 1].answered
<1>1. PICK carried \in 0..unread, answered \in BOOLEAN :
        /\ unread' = unread - carried
        /\ sent' = Append(sent, [paid |-> paid, offered |-> unread, answered |-> answered])
        /\ \/ pc' = next
           \/ ~answered /\ Return(Result(0, TRUE))
  BY DEF Do
<1> DEFINE request == [paid |-> paid, offered |-> unread, answered |-> answered]
<1>2. request \in Requests
  BY DEF CallInv, Requests
<1>3. request.paid = paid /\ request.answered = answered
  OBVIOUS
<1>4. sent' = Append(sent, request) /\ sent \in Seq(Requests)
  BY <1>1 DEF CallInv
<1> HIDE DEF request
<1>5. /\ sent' \in Seq(Requests)
      /\ Len(sent') = Len(sent) + 1
      /\ sent'[Len(sent) + 1] = request
      /\ \A i \in 1..Len(sent) : sent'[i] = sent[i]
  BY <1>2, <1>4
<1>6. unread' \in Nat
  BY <1>1 DEF CallInv
<1>7. \/ pc' = next
      \/ pc' = "done" /\ result' = Result(0, TRUE) /\ ~answered
  BY <1>1 DEF Return
<1> QED
  BY <1>3, <1>5, <1>6, <1>7

LEMMA CallNext == CallInv /\ [HttpNext]_httpVars => CallInv'
<1> SUFFICES ASSUME CallInv, [HttpNext]_httpVars PROVE CallInv'
  OBVIOUS
<1>1. CASE FirstRequest
  <2>1. sent = <<>> /\ Len(sent) = 0
    BY <1>1 DEF FirstRequest, CallInv
  <2>2. Do(FALSE, "answered")
    BY <1>1 DEF FirstRequest
  <2>3. /\ unread' \in Nat
        /\ sent' \in Seq(Requests)
        /\ Len(sent') = Len(sent) + 1
        /\ sent'[Len(sent) + 1].paid = FALSE
        /\ \/ pc' = "answered"
           \/ pc' = "done" /\ ~sent'[Len(sent) + 1].answered
    BY <2>2, DoKeeps, Zenon
  <2>4. /\ Len(sent') = 1 /\ sent'[1].paid = FALSE
        /\ \/ pc' = "answered"
           \/ pc' = "done" /\ ~sent'[1].answered
    BY <2>1, <2>3
  <2> QED BY <2>3, <2>4 DEF CallInv, Asked
<1>2. CASE Inspect
  BY <1>2 DEF Inspect, CallInv, Asked, Return, Result
<1>3. CASE HandlePayment
  BY <1>3 DEF HandlePayment, CallInv, Asked, Return, Result
<1>4. CASE RetryWithPayment
  <2>1. Asked
    BY <1>4 DEF RetryWithPayment, CallInv
  <2>2. Do(TRUE, "paid")
    BY <1>4 DEF RetryWithPayment
  <2>3. /\ unread' \in Nat
        /\ sent' \in Seq(Requests)
        /\ Len(sent') = Len(sent) + 1
        /\ sent'[Len(sent) + 1].paid = TRUE
        /\ \A i \in 1..Len(sent) : sent'[i] = sent[i]
        /\ \/ pc' = "paid"
           \/ pc' = "done" /\ result' = Result(0, TRUE) /\ ~sent'[Len(sent) + 1].answered
    BY <2>2, DoKeeps, Zenon
  <2>4. Len(sent) + 1 = 2 /\ 1 \in 1..Len(sent)
    BY <2>1 DEF Asked
  <2>5. /\ Len(sent') = 2 /\ sent'[2].paid = TRUE /\ sent'[1] = sent[1]
        /\ \/ pc' = "paid"
           \/ pc' = "done" /\ result' = Result(0, TRUE) /\ ~sent'[2].answered
    BY <2>3, <2>4, Zenon
  <2> QED BY <2>1, <2>3, <2>5 DEF CallInv, Asked, Paid
<1>5. CASE ReturnPaid
  BY <1>5 DEF ReturnPaid, CallInv, Paid, Return, Result
<1>6. CASE UNCHANGED httpVars
  BY <1>6 DEF httpVars, CallInv, Asked, Paid
<1> QED
  BY <1>1, <1>2, <1>3, <1>4, <1>5, <1>6 DEF HttpNext

LEMMA CallInvariant == HttpSpec => []CallInv
BY CallInit, CallNext, PTL DEF HttpSpec

\* One call of RequestWithPayment makes at most one paid request, as its last one.
THEOREM PaysAtMostOnce == HttpSpec => []PaysOnce
<1>1. CallInv => PaysOnce
  <2> SUFFICES ASSUME CallInv PROVE PaysOnce
    OBVIOUS
  <2>1. CASE sent = <<>>
    BY <2>1 DEF PaysOnce
  <2>2. CASE Asked
    <3>1. \A i \in DOMAIN sent : i = 1
      BY <2>2 DEF CallInv, Asked
    <3> QED BY <2>2, <3>1 DEF Asked, PaysOnce
  <2>3. CASE Paid
    <3>1. \A i \in DOMAIN sent : i = 1 \/ i = 2
      BY <2>3 DEF CallInv, Paid
    <3>2. ~sent[1].paid /\ sent[2].paid /\ Len(sent) = 2
      BY <2>3 DEF Paid
    <3> QED BY <3>1, <3>2 DEF PaysOnce
  <2> QED BY <2>1, <2>2, <2>3 DEF CallInv
<1> QED BY <1>1, CallInvariant, PTL

\* Who paid gets the answer to the paid request, or an error without a response.
THEOREM PaidIsAnswered == HttpSpec => []PaidAnswerReturned
<1>1. ASSUME CallInv, pc = "done", NEW i \in DOMAIN sent, sent[i].paid
      PROVE  result \in {Result(Len(sent), FALSE), Result(0, TRUE)}
  <2>1. ~Asked
    <3>1. Asked => i = 1
      BY <1>1 DEF CallInv, Asked
    <3> QED BY <1>1, <3>1 DEF Asked
  <2> QED BY <1>1, <2>1 DEF CallInv, Paid
<1>2. CallInv => PaidAnswerReturned
  BY <1>1 DEF PaidAnswerReturned
<1> QED BY <1>2, CallInvariant, PTL

\* The only response the caller is not given is the 402 that was paid.
THEOREM ResponsesReturned == HttpSpec => []OnlyPaid402LeftOpen
<1>1. CallInv => OnlyPaid402LeftOpen
  BY DEF CallInv, Asked, Paid, OnlyPaid402LeftOpen, Result
<1> QED BY <1>1, CallInvariant, PTL

-----------------------------------------------------------------------------
\* f adds up the totals of the subsets of P.
AddsUp(f, P) == /\ f \in [SUBSET P -> Nat]
                /\ f[{}] = 0
                /\ \A S \in SUBSET P : \A p \in S : f[S] = Total[p] + f[S \ {p}]

\* There is such a function.
LEMMA SumExists == \E f : AddsUp(f, Payments)
<1> DEFINE F == {P \in SUBSET Payments : \E f : AddsUp(f, P)}
<1>1. {} \in F
  <2>1. AddsUp([S \in SUBSET {} |-> 0], {})
    BY DEF AddsUp
  <2> QED
    BY <2>1
<1>2. ASSUME NEW P \in SUBSET Payments, P \in F, NEW x \in Payments \ P PROVE P \cup {x} \in F
  <2>1. PICK f : AddsUp(f, P)
    BY <1>2
  <2>2. Total[x] \in Nat
    BY AllowanceAssumption
  <2> DEFINE g == [S \in SUBSET (P \cup {x}) |-> IF x \in S THEN Total[x] + f[S \ {x}] ELSE f[S]]
  <2>3. \A S \in SUBSET (P \cup {x}) : S \ {x} \in SUBSET P /\ (x \notin S => S \in SUBSET P)
    OBVIOUS
  <2>4. g \in [SUBSET (P \cup {x}) -> Nat]
    BY <2>1, <2>2, <2>3 DEF AddsUp
  <2>5. g[{}] = 0
    BY <2>1 DEF AddsUp
  <2>6. ASSUME NEW S \in SUBSET (P \cup {x}), NEW p \in S PROVE g[S] = Total[p] + g[S \ {p}]
    <3>1. S \ {p} \in SUBSET (P \cup {x})
      OBVIOUS
    <3>2. CASE p = x
      <4>1. x \notin S \ {p} /\ S \ {p} = S \ {x}
        BY <3>2
      <4> QED
        BY <3>1, <3>2, <4>1
    <3>3. CASE p # x /\ x \notin S
      <4>1. f[S] = Total[p] + f[S \ {p}]
        BY <2>1, <2>3, <3>3 DEF AddsUp
      <4> QED
        BY <3>1, <3>3, <4>1
    <3>4. CASE p # x /\ x \in S
      <4>1. p \in S \ {x} /\ (S \ {x}) \ {p} = (S \ {p}) \ {x} /\ x \in S \ {p}
        BY <3>4
      <4>2. f[S \ {x}] = Total[p] + f[(S \ {p}) \ {x}]
        BY <2>1, <2>3, <4>1 DEF AddsUp
      <4>3. f[(S \ {p}) \ {x}] \in Nat /\ Total[p] \in Nat
        BY <2>1, <2>3, <3>1, AllowanceAssumption DEF AddsUp
      <4>4. g[S] = Total[x] + f[S \ {x}] /\ g[S \ {p}] = Total[x] + f[(S \ {p}) \ {x}]
        BY <3>1, <3>4, <4>1
      <4> HIDE DEF g
      <4> QED
        BY <2>2, <4>2, <4>3, <4>4
    <3> QED
      BY <3>2, <3>3, <3>4
  <2>7. AddsUp(g, P \cup {x})
    <3> HIDE DEF g
    <3> QED
      BY <2>4, <2>5, <2>6 DEF AddsUp
  <2> QED
    BY <2>7
<1>3. Payments \in F
  <2> HIDE DEF F
  <2> QED
    BY <1>1, <1>2, ApprovalAssumption, SubsetInduction
<1> QED
  BY <1>3

\* What payments draw together is the sum of their totals, in whatever order it is taken.
LEMMA TogetherAddsUp == AddsUp(Together, Payments)
<1> DEFINE p(S) == CHOOSE p \in S : TRUE
           Sum(g) == g = [S \in SUBSET Payments |->
                            IF S = {} THEN 0 ELSE Total[p(S)] + g[S \ {p(S)}]]
<1>1. PICK f : AddsUp(f, Payments)
  BY SumExists
<1>2. \A S : S # {} => p(S) \in S
  OBVIOUS
<1> HIDE DEF p
<1>3. Sum(f)
  <2>1. f[{}] = 0 /\ \A S \in SUBSET Payments : S # {} => f[S] = Total[p(S)] + f[S \ {p(S)}]
    BY <1>1, <1>2 DEF AddsUp
  <2>2. f \in [SUBSET Payments -> Nat]
    BY <1>1 DEF AddsUp
  <2> QED
    BY <2>1, <2>2
<1>4. Together = CHOOSE g : Sum(g)
  BY DEF Together, p
<1>5. Sum(Together)
  <2> HIDE DEF Sum
  <2> QED
    BY <1>3, <1>4
<1>6. Together[{}] = 0
  <2>1. {} \in SUBSET Payments
    OBVIOUS
  <2> QED
    BY <1>5, <2>1, Zenon
<1>7. \A S \in SUBSET Payments : S # {} => Together[S] = Total[p(S)] + Together[S \ {p(S)}]
  BY <1>5, Zenon
<1>8. ASSUME NEW S \in SUBSET Payments PROVE Together[S] = f[S]
  <2> DEFINE N == {n \in Nat : \A T \in SUBSET Payments : Cardinality(T) = n => Together[T] = f[T]}
  <2>1. 0 \in N
    <3>1. \A T \in SUBSET Payments : Cardinality(T) = 0 => T = {}
      BY ApprovalAssumption, FS_Subset, FS_EmptySet
    <3> QED
      BY <1>1, <1>6, <3>1 DEF AddsUp
  <2>2. ASSUME NEW n \in N PROVE n + 1 \in N
    <3>1. ASSUME NEW T \in SUBSET Payments, Cardinality(T) = n + 1 PROVE Together[T] = f[T]
      <4>1. IsFiniteSet(T) /\ T # {}
        BY <3>1, ApprovalAssumption, FS_Subset, FS_EmptySet
      <4>2. p(T) \in T /\ T \ {p(T)} \in SUBSET Payments
        BY <1>2, <4>1
      <4>3. Cardinality(T \ {p(T)}) = n
        <5>1. Cardinality(T \ {p(T)}) = Cardinality(T) - 1
          BY <4>1, <4>2, FS_RemoveElement
        <5>2. n \in Nat
          OBVIOUS
        <5> HIDE DEF N
        <5> QED
          BY <3>1, <5>1, <5>2
      <4>4. Together[T \ {p(T)}] = f[T \ {p(T)}]
        BY <4>2, <4>3
      <4> QED
        BY <1>1, <1>7, <4>1, <4>2, <4>4 DEF AddsUp
    <3> QED
      BY <3>1
  <2>3. N = Nat
    <3>1. N \in SUBSET Nat
      OBVIOUS
    <3> HIDE DEF N
    <3> QED
      BY <2>1, <2>2, <3>1, NaturalInduction
  <2>4. Cardinality(S) \in Nat
    BY ApprovalAssumption, FS_Subset, FS_CardinalityType
  <2> QED
    BY <2>3, <2>4
<1>9. Together = f
  <2>1. DOMAIN Together = SUBSET Payments /\ DOMAIN f = SUBSET Payments
    BY <1>1, <1>5 DEF AddsUp
  <2>2. Together = [S \in DOMAIN Together |-> Together[S]] /\ f = [S \in DOMAIN f |-> f[S]]
    BY <1>1, <1>5 DEF AddsUp
  <2> QED
    BY <1>8, <2>1, <2>2
<1> QED
  BY <1>1, <1>9

\* No payment draws more than all those it is one of.
LEMMA TogetherCovers ==
  ASSUME NEW S \in SUBSET Payments, NEW p \in S
  PROVE  /\ Together[S] \in Nat /\ Together[S \ {p}] \in Nat
         /\ Together[S] = Total[p] + Together[S \ {p}]
         /\ Total[p] \in Nat
BY TogetherAddsUp, AllowanceAssumption DEF AddsUp

\* Together is monotone.
LEMMA TogetherMonotone ==
  ASSUME NEW S \in SUBSET Payments
  PROVE  Together[S] \in Nat /\ Together[S] <= Together[Payments]
<1> DEFINE F == {P \in SUBSET Payments : Together[S] <= Together[S \cup P]}
<1>1. {} \in F
  <2>1. S \cup {} = S /\ Together[S] \in Nat
    BY TogetherAddsUp DEF AddsUp
  <2> QED
    BY <2>1
<1>2. ASSUME NEW P \in SUBSET Payments, P \in F, NEW x \in Payments \ P PROVE P \cup {x} \in F
  <2>1. CASE x \in S
    <3>1. S \cup (P \cup {x}) = S \cup P
      BY <2>1
    <3> QED
      BY <1>2, <3>1
  <2>2. CASE x \notin S
    <3> DEFINE T == S \cup (P \cup {x})
    <3>1. T \in SUBSET Payments /\ x \in T /\ T \ {x} = S \cup P
      BY <2>2
    <3>2. Together[T] = Total[x] + Together[S \cup P] /\ Total[x] \in Nat /\ Together[S \cup P] \in Nat
      <4> HIDE DEF T
      <4> QED
        BY <3>1, TogetherCovers
    <3>3. Together[S] \in Nat
      BY TogetherAddsUp DEF AddsUp
    <3> QED
      BY <1>2, <3>2, <3>3
  <2> QED
    BY <2>1, <2>2
<1>3. Payments \in F
  <2> HIDE DEF F
  <2> QED
    BY <1>1, <1>2, ApprovalAssumption, SubsetInduction
<1>4. S \cup Payments = Payments
  OBVIOUS
<1> QED
  BY <1>3, <1>4, TogetherAddsUp DEF AddsUp

\* Who has not drawn,
Undrawn == {p \in Payments : pay[p] # "drawn"}

\* still finds the allowance, once any approve was mined,
Unspent == (\E p \in Payments : approval[p] = "mined") => allowance >= Together[Undrawn]

\* and so does who saw or awaited it, until somebody else draws.
Covered == \A p \in Out :
  Mode[p] # "skip" /\ p \notin contended /\ (tron => approval[p] = "none")
  => allowance >= Total[p]

AllowanceInv == TypeOK /\ Unspent /\ Covered /\ RefusedOnlyOverdrawn

LEMMA AllowanceInit == Init => AllowanceInv
BY AllowanceAssumption
   DEF Init, AllowanceInv, TypeOK, Unspent, Covered, Out, RefusedOnlyOverdrawn, Over

LEMMA TypeStep == TypeOK /\ [Next]_vars => TypeOK'
<1> SUFFICES ASSUME TypeOK, [Next]_vars PROVE TypeOK'
  OBVIOUS
<1> USE DEF TypeOK, Goes, Over
<1>1. ASSUME NEW p \in Payments, Start(p) \/ Sign(p) \/ ContextEnds(p), UNCHANGED <<contended, tron>>
      PROVE  TypeOK'
  BY <1>1 DEF Start, Sign, ContextEnds
<1>2. ASSUME NEW p \in Payments, Ensure(p), UNCHANGED <<contended, tron>> PROVE TypeOK'
  BY <1>2 DEF Ensure, CheckAllowance, SendApprove, WaitMined
<1>3. ASSUME NEW p \in Payments, Approve(p), UNCHANGED tron PROVE TypeOK'
  BY <1>3, AllowanceAssumption DEF Approve, Approved
<1>4. ASSUME NEW p \in Payments, Draw(p), UNCHANGED tron PROVE TypeOK'
  BY <1>4, AllowanceAssumption DEF Draw, Out
<1>5. CASE UNCHANGED vars
  BY <1>5 DEF vars
<1> QED BY <1>1, <1>2, <1>3, <1>4, <1>5 DEF Next, ClientStep

\* The steps of the client neither draw nor refuse, and no approve is mined by them.
LEMMA ClientQuiet ==
  ASSUME TypeOK, NEW p \in Payments, ClientStep(p)
  PROVE  /\ UNCHANGED <<allowance, contended>>
         /\ Undrawn' = Undrawn
         /\ \A q \in Payments : /\ approval'[q] = "mined" => approval[q] = "mined"
                                /\ approval'[q] = "none" => approval[q] = "none"
                                /\ pay'[q] = "refused" <=> pay[q] = "refused"
<1> USE DEF TypeOK, Goes, ClientStep
<1>1. CASE Start(p) \/ Sign(p) \/ ContextEnds(p)
  BY <1>1 DEF Start, Sign, ContextEnds, Undrawn
<1>2. CASE CheckAllowance(p) \/ WaitMined(p)
  BY <1>2 DEF CheckAllowance, WaitMined, Undrawn
<1>3. CASE SendApprove(p)
  <2>1. PICK phase \in {"ensured", "mining", "error"} : Goes(p, phase)
    BY <1>3 DEF SendApprove
  <2>2. approval' = [approval EXCEPT ![p] = "pending"] \/ UNCHANGED approval
    BY <1>3 DEF SendApprove
  <2> QED BY <1>3, <2>1, <2>2 DEF SendApprove, Undrawn
<1> QED
  BY <1>1, <1>2, <1>3 DEF Ensure

LEMMA UnspentStep == AllowanceInv /\ [Next]_vars => Unspent'
<1> SUFFICES ASSUME AllowanceInv, [Next]_vars PROVE Unspent'
  OBVIOUS
<1> USE DEF AllowanceInv, TypeOK, Goes
<1>1. ASSUME NEW p \in Payments, ClientStep(p) PROVE Unspent'
  BY <1>1, ClientQuiet DEF Unspent
<1>2. ASSUME NEW p \in Payments, Approve(p) PROVE Unspent'
  <2>1. Undrawn' = Undrawn
    BY <1>2 DEF Approve, Undrawn
  <2>2. CASE allowance' = Max
    <3>1. Undrawn \in SUBSET Payments /\ Max \in Nat
      BY AllowanceAssumption DEF Undrawn
    <3>2. Together[Undrawn] \in Nat /\ Together[Undrawn] <= Together[Payments]
      BY <3>1, TogetherMonotone
    <3>3. Together[Payments] \in Nat
      BY TogetherAddsUp DEF AddsUp
    <3> QED
      BY <2>1, <2>2, <3>1, <3>2, <3>3, ApprovalAssumption DEF Unspent
  <2>3. ASSUME NEW end \in {"failed", "dropped"}, approval' = [approval EXCEPT ![p] = end],
               UNCHANGED allowance
        PROVE  Unspent'
    <3>1. \A q \in Payments : approval'[q] = "mined" => approval[q] = "mined"
      BY <2>3
    <3> QED
      BY <2>1, <2>3, <3>1 DEF Unspent
  <2> QED
    BY <1>2, <2>2, <2>3 DEF Approve, Approved
<1>3. ASSUME NEW p \in Payments, Draw(p) PROVE Unspent'
  <2>1. CASE allowance >= Total[p]
    <3>1. pay' = [pay EXCEPT ![p] = "drawn"] /\ allowance' = allowance - Total[p] /\ UNCHANGED approval
      BY <1>3, <2>1 DEF Draw
    <3>2. p \in Undrawn /\ Undrawn' = Undrawn \ {p} /\ Undrawn \in SUBSET Payments
      BY <1>3, <3>1 DEF Draw, Undrawn
    <3>3. /\ Together[Undrawn] = Total[p] + Together[Undrawn']
          /\ Together[Undrawn'] \in Nat /\ Total[p] \in Nat
      BY <3>2, TogetherCovers
    <3> QED
      BY <3>1, <3>3 DEF Unspent
  <2>2. CASE ~ (allowance >= Total[p])
    <3>1. UNCHANGED <<allowance, approval>> /\ Undrawn' = Undrawn
      BY <1>3, <2>2 DEF Draw, Undrawn
    <3> QED
      BY <3>1 DEF Unspent
  <2> QED
    BY <2>1, <2>2
<1>4. CASE UNCHANGED vars
  BY <1>4 DEF vars, Unspent, Undrawn
<1> QED
  BY <1>1, <1>2, <1>3, <1>4 DEF Next

\* An approve that was mined covers whoever has not drawn.
LEMMA MinedCovers ==
  ASSUME AllowanceInv, NEW p \in Payments, pay[p] # "drawn",
         \E q \in Payments : approval[q] = "mined"
  PROVE  allowance >= Total[p]
<1>1. p \in Undrawn /\ Undrawn \in SUBSET Payments
  BY DEF Undrawn
<1>2. allowance >= Together[Undrawn]
  BY DEF AllowanceInv, Unspent
<1>3. /\ Together[Undrawn] = Total[p] + Together[Undrawn \ {p}]
      /\ Together[Undrawn \ {p}] \in Nat /\ Total[p] \in Nat
  BY <1>1, TogetherCovers
<1>4. allowance \in Nat
  BY DEF AllowanceInv, TypeOK
<1> QED
  BY <1>2, <1>3, <1>4

LEMMA CoveredStep == AllowanceInv /\ [Next]_vars => Covered' /\ RefusedOnlyOverdrawn'
<1> SUFFICES ASSUME AllowanceInv, [Next]_vars PROVE Covered' /\ RefusedOnlyOverdrawn'
  OBVIOUS
<1> USE AllowanceAssumption DEF AllowanceInv, TypeOK, Goes
<1>1. ASSUME NEW p \in Payments, ClientStep(p), UNCHANGED tron
      PROVE  Covered' /\ RefusedOnlyOverdrawn'
  <2>1. /\ UNCHANGED <<allowance, contended>>
        /\ \A q \in Payments : /\ approval'[q] = "none" => approval[q] = "none"
                               /\ pay'[q] = "refused" <=> pay[q] = "refused"
    BY <1>1, ClientQuiet
  <2>2. RefusedOnlyOverdrawn'
    BY <1>1, <2>1 DEF RefusedOnlyOverdrawn
  <2>3. ASSUME NEW q \in Out', Mode[q] # "skip", tron => approval'[q] = "none",
               q \notin Out
        PROVE  allowance >= Total[q]
    <3>1. q = p /\ pay'[p] = "ensured" /\ pay[p] \notin {"ensured", "signed"}
      BY <1>1, <2>3
         DEF Out, ClientStep, Start, Ensure, CheckAllowance, SendApprove, WaitMined, ContextEnds, Sign
    <3>2. CASE Start(p) \/ Sign(p) \/ ContextEnds(p)
      BY <2>3, <3>1, <3>2 DEF Start, Sign, ContextEnds
    <3>3. CASE CheckAllowance(p)
      BY <3>1, <3>3 DEF CheckAllowance
    <3>4. CASE SendApprove(p)
      BY <1>1, <2>3, <3>1, <3>4 DEF SendApprove
    <3>5. CASE WaitMined(p)
      <4>1. approval[p] = "mined" /\ pay[p] # "drawn"
        BY <3>1, <3>5 DEF WaitMined
      <4> QED BY <3>1, <4>1, MinedCovers
    <3> QED BY <1>1, <3>2, <3>3, <3>4, <3>5 DEF ClientStep, Ensure
  <2>4. Covered'
    BY <1>1, <2>1, <2>3 DEF Covered, Out
  <2> QED BY <2>2, <2>4
<1>2. ASSUME NEW p \in Payments, Approve(p), UNCHANGED tron
      PROVE  Covered' /\ RefusedOnlyOverdrawn'
  <2>1. /\ UNCHANGED <<pay, contended>>
        /\ allowance' = Max \/ allowance' = allowance
        /\ \A q \in Payments : approval'[q] = "none" => approval[q] = "none"
    BY <1>2 DEF Approve, Approved
  <2>2. Out' = Out /\ Out \subseteq Payments
    BY <2>1 DEF Out
  <2> QED BY <1>2, <2>1, <2>2 DEF Covered, RefusedOnlyOverdrawn
<1>3. ASSUME NEW p \in Payments, Draw(p), UNCHANGED tron
      PROVE  Covered' /\ RefusedOnlyOverdrawn'
  <2>1. pay[p] = "signed" /\ p \in Out /\ UNCHANGED approval
    BY <1>3 DEF Draw, Out
  <2>2. CASE allowance >= Total[p]
    <3>1. /\ pay' = [pay EXCEPT ![p] = "drawn"]
          /\ contended' = contended \union (Out \ {p})
      BY <1>3, <2>2 DEF Draw
    <3>2. Out' = Out \ {p}
      BY <2>1, <3>1 DEF Out
    <3> QED BY <1>3, <2>1, <3>1, <3>2 DEF Covered, RefusedOnlyOverdrawn
  <2>3. CASE ~ (allowance >= Total[p])
    <3>1. /\ pay' = [pay EXCEPT ![p] = "refused"]
          /\ UNCHANGED <<allowance, contended>>
      BY <1>3, <2>3 DEF Draw
    <3>2. Out' = Out \ {p}
      BY <2>1, <3>1 DEF Out
    <3>3. Mode[p] # "skip" => p \in contended \/ (tron /\ approval[p] # "none")
      BY <2>1, <2>3 DEF Covered
    <3> QED BY <1>3, <2>1, <3>1, <3>2, <3>3 DEF Covered, RefusedOnlyOverdrawn
  <2> QED BY <2>2, <2>3
<1>4. CASE UNCHANGED vars
  BY <1>4 DEF vars, Covered, Out, RefusedOnlyOverdrawn
<1> QED
  BY <1>1, <1>2, <1>3, <1>4 DEF Next

LEMMA AllowanceStep == AllowanceInv /\ [Next]_vars => AllowanceInv'
BY TypeStep, UnspentStep, CoveredStep DEF AllowanceInv

\* No payment is refused for want of an allowance that its client saw or awaited, unless
\* another one drew while its permit was out; a Tron client that had to approve did not
\* await it.
THEOREM RefusalsOverdrawn == Spec => []RefusedOnlyOverdrawn
<1>1. AllowanceInv => RefusedOnlyOverdrawn
  BY DEF AllowanceInv
<1> QED BY <1>1, AllowanceStep, AllowanceInit, PTL DEF Spec

\* Once any approve was mined, no payment is refused for want of allowance again, on
\* either chain, under any overlap and in any mode.
THEOREM ApprovalIsLasting == Spec => ApprovalLasts
<1>1. AllowanceInv /\ [Next]_vars => [LastingApproval]_vars
  <2> SUFFICES ASSUME AllowanceInv, Next, NEW p \in Payments,
                      pay[p] # "refused", pay'[p] = "refused", NEW q \in Payments
               PROVE  approval[q] # "mined"
    BY DEF LastingApproval
  <2> USE DEF AllowanceInv, TypeOK
  <2>1. Draw(p)
    <3>1. PICK r \in Payments : ClientStep(r) \/ Approve(r) \/ Draw(r)
      BY DEF Next
    <3>2. ~ClientStep(r)
      BY ClientQuiet
    <3>3. ~Approve(r)
      BY DEF Approve
    <3>4. Draw(r)
      BY <3>1, <3>2, <3>3
    <3> QED BY <3>4 DEF Draw, Goes
  <2>2. pay[p] # "drawn" /\ ~ (allowance >= Total[p])
    BY <2>1 DEF Draw, Goes
  <2> QED BY <2>2, MinedCovers
<1> QED BY <1>1, AllowanceStep, AllowanceInit, PTL DEF Spec, ApprovalLasts

\* Under any interleaving of payments, and on Tron too, the variables keep their types;
\* the allowance in particular is never drawn below zero.
THEOREM AllowanceTypeCorrect == Spec => []TypeOK
<1>1. Init => TypeOK
  BY AllowanceAssumption DEF Init, TypeOK
<1> QED BY <1>1, TypeStep, PTL DEF Spec

\* EnsureAllowance on EVM, past an approve of its own, only returns true when the
\* allowance covers this payment, whatever the client's other payments drew meanwhile:
\* the unlimited approval covers all of them, and who has not drawn still finds its share.
THEOREM ApprovalCovers == Spec => ApprovedCovers
<1>1. AllowanceInv /\ [Next]_vars
      => [\A p \in Payments : pay[p] = "mining" /\ pay'[p] = "ensured" => allowance >= Total[p]]_vars
  <2> SUFFICES ASSUME AllowanceInv, Next, NEW p \in Payments, pay[p] = "mining", pay'[p] = "ensured"
               PROVE  allowance >= Total[p]
    OBVIOUS
  <2>1. approval[p] = "mined"
    BY DEF AllowanceInv, TypeOK, Goes, Next, ClientStep, Start, Ensure, CheckAllowance, SendApprove,
           WaitMined, ContextEnds, Sign, Approve, Draw
  <2> QED
    BY <2>1, MinedCovers
<1> QED
  BY <1>1, AllowanceInit, AllowanceStep, PTL DEF Spec, ApprovedCovers
=============================================================================
