----------------------- MODULE FacilitatorSignerProofs ----------------------
(***************************************************************************)
(* For any number of settle calls of one facilitator key, and any timeout  *)
(* of a receipt: one wait ends in time, looks once more after its last     *)
(* second and makes up no status (ReceiptWait), also among the others; and *)
(* account nonces only collide between calls that overlap on one network,  *)
(* and the client cache is safe once every network's client is in it.      *)
(***************************************************************************)
EXTENDS FacilitatorSigner, FiniteSetTheorems, TLAPS

\* The loops keep the seconds left and the polls made in balance; the EVM loop
\* makes one poll more, before its first test of the time.
Rounds == IF tron THEN Timeout ELSE Timeout + 1

AtClient == pc = "client" => left = Timeout /\ polls = 0 /\ slept = 0

AtPoll == pc = "poll" => polls = slept /\ polls + left + 1 = Rounds

AtTest == pc = "test" => /\ polls + left = Rounds
                         /\ slept = IF polls > 0 THEN polls - 1 ELSE 0

AtEnd == pc = "done" => /\ polls <= Rounds
                        /\ slept <= Timeout
                        /\ LastSecondPolled

Waiting == answer = "waiting" <=> pc # "done"

WaitInv == TypeOK /\ AtClient /\ AtPoll /\ AtTest /\ AtEnd /\ Waiting

LEMMA StatusIsAnswer == \A code : StatusOf(code) \in {"confirmed", "failed"}
BY DEF StatusOf

LEMMA WaitInit == Init => WaitInv
<1> SUFFICES ASSUME Init PROVE WaitInv
  OBVIOUS
<1>1. TypeOK
  <2>1. left \in 0..Timeout
    BY ReceiptAssumption DEF Init
  <2>2. polls \in Nat /\ slept \in Nat /\ errors \in Nat
    BY DEF Init
  <2>3. tron \in BOOLEAN /\ ctxDone \in BOOLEAN /\ block \in Codes \union {"unmined"}
    BY DEF Init
  <2> QED
    BY <2>1, <2>2, <2>3 DEF Init, TypeOK
<1>2. pc = "client" /\ answer = "waiting" /\ AtClient
  BY DEF Init, AtClient
<1> QED
  BY <1>1, <1>2 DEF WaitInv, AtPoll, AtTest, AtEnd, Waiting

LEMMA WaitNext == WaitInv /\ [Next]_vars => WaitInv'
<1> SUFFICES ASSUME WaitInv, [Next]_vars PROVE WaitInv'
  OBVIOUS
<1> USE ReceiptAssumption DEF WaitInv, TypeOK, AtClient, AtPoll, AtTest, AtEnd, Waiting,
                              Rounds, LastSecondPolled, env
<1>1. CASE GetClient
  BY <1>1 DEF GetClient, Return
<1>2. CASE PollFinds
  BY <1>2, StatusIsAnswer DEF PollFinds, Return
<1>3. CASE PollUnmined
  BY <1>3 DEF PollUnmined
<1>4. CASE PollError
  BY <1>4 DEF PollError, Unanswered, Return
<1>5. CASE LoopTest
  <2>1. CASE OutOfTime
    BY <1>5, <2>1 DEF LoopTest, OutOfTime, Leave, Return, EvmLoop, TronLoop
  <2>2. CASE ~ OutOfTime
    <3>1. left \in 1..Timeout
      BY <2>2 DEF OutOfTime
    <3>2. CASE tron
      BY <1>5, <2>2, <3>1, <3>2 DEF LoopTest, TronLoop, Round, Poll
    <3>3. CASE ~ tron
      BY <1>5, <2>2, <3>1, <3>3 DEF LoopTest, EvmLoop, Round, Poll
    <3> QED BY <3>2, <3>3
  <2> QED BY <2>1, <2>2
<1>6. CASE Include
  BY <1>6 DEF Include
<1>7. CASE Cancel
  BY <1>7 DEF Cancel
<1>8. CASE UNCHANGED vars
  BY <1>8 DEF vars
<1> QED
  BY <1>1, <1>2, <1>3, <1>4, <1>5, <1>6, <1>7, <1>8 DEF Next, Step

LEMMA WaitInvariant == Spec => []WaitInv
BY WaitInit, WaitNext, PTL DEF Spec

\* The variables of either loop keep their types: the answer is a status that
\* Settle knows, or an error.
THEOREM WaitTypeCorrect == Spec => []TypeOK
<1>1. WaitInv => TypeOK
  BY DEF WaitInv
<1> QED BY <1>1, WaitInvariant, PTL

\* Whatever the node does, neither loop sleeps for more than the timeout, nor polls
\* more often than its rounds.
THEOREM WaitIsBounded == Spec => []BoundedWait
<1>1. WaitInv => BoundedWait
  BY ReceiptAssumption
     DEF WaitInv, TypeOK, AtClient, AtPoll, AtTest, AtEnd, BoundedWait, Rounds
<1> QED BY <1>1, WaitInvariant, PTL

\* A loop that ran out of time asked for the receipt after the last second it slept.
THEOREM WaitIsHonest == Spec => []LastSecondPolled
<1>1. WaitInv => LastSecondPolled
  BY DEF WaitInv, TypeOK, AtEnd, Waiting, LastSecondPolled
<1> QED BY <1>1, WaitInvariant, PTL

LEMMA RetryStep == [Next]_vars => [~ tron /\ pc = "poll" /\ pc' = "done" => answer' # "error"]_vars
<1> SUFFICES ASSUME Next, ~ tron, pc = "poll", pc' = "done" PROVE answer' # "error"
  OBVIOUS
<1>1. CASE PollFinds
  BY <1>1, StatusIsAnswer DEF PollFinds, Return
<1>2. CASE ~ PollFinds
  BY <1>2 DEF Next, Step, GetClient, PollUnmined, PollError, Unanswered, LoopTest, Include, Cancel, env
<1> QED
  BY <1>1, <1>2

\* On EVM, a poll the node failed to answer never ends the wait by itself, however
\* many of them there are.
THEOREM ErrorsRetried == Spec => ErrorsAreRetried
BY RetryStep, PTL DEF Spec, ErrorsAreRetried

LEMMA AnswerInit == Init => RA!Init
BY DEF Init, RA!Init

LEMMA AnswerNext == WaitInv /\ [Next]_vars => [RA!Next]_<<block, answer>>
<1> SUFFICES ASSUME WaitInv, [Next]_vars PROVE [RA!Next]_<<block, answer>>
  OBVIOUS
<1> USE DEF WaitInv, Waiting, RA!Next, env
<1>1. CASE GetClient
  BY <1>1 DEF GetClient, Return, RA!GiveUp
<1>2. CASE PollFinds
  BY <1>2 DEF PollFinds, Return, RA!Report
<1>3. CASE PollUnmined
  BY <1>3 DEF PollUnmined
<1>4. CASE PollError
  BY <1>4 DEF PollError, Unanswered, Return, RA!GiveUp
<1>5. CASE LoopTest
  BY <1>5 DEF LoopTest, EvmLoop, TronLoop, Leave, Round, Poll, Return, RA!GiveUp
<1>6. CASE Include
  BY <1>6 DEF Include, RA!Include
<1>7. CASE Cancel \/ UNCHANGED vars
  BY <1>7 DEF Cancel, vars
<1> QED
  BY <1>1, <1>2, <1>3, <1>4, <1>5, <1>6, <1>7 DEF Next, Step

\* Both loops implement ReceiptAnswer, which is what FacilitatorSettle assumes of
\* them: no status before the block, no other status than the block's, no revision.
THEOREM WaitRefinement == Spec => ImplementsReceiptAnswer
BY AnswerInit, AnswerNext, WaitInvariant, PTL DEF Spec, ImplementsReceiptAnswer, RA!Spec

-----------------------------------------------------------------------------

\* What the waiting call does is a step of ReceiptWait, what the others do is none.
LEMMA SignerStepsWait == [SignerNext]_allVars => [Next]_vars
<1> SUFFICES ASSUME [SignerNext]_allVars PROVE [Next]_vars
  OBVIOUS
<1>1. CASE \E c \in Calls : WriteStep(c)
  BY <1>1 DEF WriteStep, Lookup, Dial, Store, Fetch, Trigger, Send
<1>2. CASE WaitStep
  BY <1>2 DEF WaitStep, Next
<1>3. CASE Race
  BY <1>3 DEF Race
<1>4. CASE \E c \in Calls : Mined(c) \/ Evict(c)
  BY <1>4 DEF Mined, Evict, Next
<1>5. CASE Cancel /\ UNCHANGED signerVars
  BY <1>5 DEF Next
<1>6. CASE UNCHANGED allVars
  BY <1>6 DEF allVars
<1> QED
  BY <1>1, <1>2, <1>3, <1>4, <1>5, <1>6 DEF SignerNext

LEMMA SignerWaits == SignerSpec => []WaitInv
BY WaitInit, WaitNext, SignerStepsWait, PTL DEF SignerSpec, SignerInit

\* A pending transaction belongs to a call that has made its send,
PoolSent == \A e \in pool : write[e] \in {"sent", "error"}

\* one with the nonce of a call about to send was sent beside it,
RivalsOverlapped == \A c \in Calls, e \in pool :
  ~tron /\ write[c] = "send" /\ network[e] = network[c] /\ nonce[e] = nonce[c]
  => e \in overlapped

\* and a call about to send whose window nobody has used still has a nonce to itself.
NonceFree == \A c \in Calls :
  ~tron /\ write[c] = "send" /\ c \notin overlapped
  => /\ nonce[c] >= account[network[c]]
     /\ \A e \in pool : network[e] = network[c] => nonce[e] # nonce[c]

SignerInv == /\ SignerTypeOK
             /\ PoolSent
             /\ RivalsOverlapped
             /\ NonceFree
             /\ CollisionNeedsOverlap

LEMMA SignerInitInv == SignerInit => SignerInv
<1> SUFFICES ASSUME SignerInit PROVE SignerInv
  OBVIOUS
<1>1. TypeOK /\ pc = "client"
  BY WaitInit DEF SignerInit, WaitInv, Init
<1> QED
  BY <1>1, SignerAssumption
     DEF SignerInit, SignerInv, SignerTypeOK, PoolSent, RivalsOverlapped, NonceFree,
         CollisionNeedsOverlap

\* The account's records stay as they are while nothing is fetched, sent or mined.
LEMMA QuietStep ==
  ASSUME SignerInv, TypeOK', tron' = tron,
         write' \in [Calls -> {"start", "dial", "store", "fetch", "send", "sent", "error"}],
         \A c \in Calls : write[c] \in {"sent", "error"} => write'[c] = write[c],
         \A c \in Calls : write'[c] = "send" => tron \/ write[c] = "send",
         cached' \subseteq Networks, died' \in BOOLEAN, pc' # "client" => write[Mine] = "sent",
         UNCHANGED <<network, nonce, account, overlapped, collided>>,
         pool' \subseteq pool
  PROVE  SignerInv'
<1> USE DEF SignerInv, SignerTypeOK
<1>1. SignerTypeOK'
  BY SignerAssumption
<1>2. PoolSent'
  BY DEF PoolSent
<1>3. RivalsOverlapped' /\ NonceFree' /\ CollisionNeedsOverlap'
  BY DEF RivalsOverlapped, NonceFree, CollisionNeedsOverlap
<1> QED BY <1>1, <1>2, <1>3

LEMMA FetchKeeps ==
  ASSUME SignerInv, NEW c \in Calls, Fetch(c), UNCHANGED network, TypeOK'
  PROVE  SignerInv'
<1> USE DEF SignerInv, SignerTypeOK, Fetch, Becomes, chainVars, vars
<1>1. CASE write' = [write EXCEPT ![c] = "error"] /\ UNCHANGED nonce
  BY <1>1, QuietStep
<1>2. CASE write' = [write EXCEPT ![c] = "send"]
  <2>1. PICK k \in account[network[c]]..(account[network[c]] + Cardinality(Calls)) :
           PendingNonce(network[c], k) /\ nonce' = [nonce EXCEPT ![c] = k]
    BY <1>2
  <2>2. k \in Nat /\ k >= account[network[c]]
    BY SignerAssumption, FS_CardinalityType
  <2>3. \A e \in pool : network[e] = network[c] => nonce[e] # k
    BY <2>1 DEF PendingNonce, PooledNonces, OfNetwork
  <2>4. c \notin pool /\ \A e \in pool : nonce'[e] = nonce[e]
    BY <2>1 DEF PoolSent
  <2>5. SignerTypeOK' /\ PoolSent' /\ CollisionNeedsOverlap'
    BY <1>2, <2>1, <2>2, <2>4, SignerAssumption DEF PoolSent, CollisionNeedsOverlap
  <2>6. RivalsOverlapped'
    BY <1>2, <2>1, <2>3, <2>4 DEF RivalsOverlapped
  <2>7. NonceFree'
    BY <1>2, <2>1, <2>2, <2>3, <2>4 DEF NonceFree
  <2> QED BY <2>5, <2>6, <2>7
<1> QED BY <1>1, <1>2

LEMMA SendKeeps ==
  ASSUME SignerInv, NEW c \in Calls, Send(c), UNCHANGED network, TypeOK'
  PROVE  SignerInv'
<1> USE DEF SignerInv, SignerTypeOK, Send, Becomes, vars
<1>1. write' \in [Calls -> {"start", "dial", "store", "fetch", "send", "sent", "error"}]
      /\ write'[c] \in {"sent", "error"} /\ \A e \in Calls \ {c} : write'[e] = write[e]
  BY DEF Accepted, Refused
<1>2. pool' \subseteq pool \union {c}
  BY DEF Accepted, Refused
<1>3. collided' \subseteq collided \union Rivals(c) \union
                          (IF TooLow(c) \/ Rivals(c) # {} THEN {c} ELSE {})
  BY DEF Accepted, Refused
<1>4. overlapped \subseteq overlapped' /\ overlapped' \subseteq Calls
  BY DEF Sending, OfNetwork
<1>5. \A e \in Calls \ {c} : write[e] = "send" /\ network[e] = network[c]
                            => e \in overlapped' /\ c \in overlapped'
  BY DEF Sending, OfNetwork
<1>6. SignerTypeOK'
  <2>1. pc' # "client" => write'[Mine] = "sent"
    BY <1>1, SignerAssumption
  <2>2. collided' \subseteq Calls
    BY <1>3 DEF Rivals
  <2> QED BY <1>1, <1>2, <1>4, <2>1, <2>2
<1>7. PoolSent'
  BY <1>1, <1>2 DEF PoolSent
<1>8. RivalsOverlapped'
  BY <1>1, <1>2, <1>4, <1>5 DEF RivalsOverlapped
<1>9. NonceFree'
  BY <1>1, <1>2, <1>4, <1>5 DEF NonceFree
<1>10. CollisionNeedsOverlap'
  <2>1. Rivals(c) \subseteq overlapped
    BY DEF Rivals, RivalsOverlapped, OfNetwork
  <2>2. TooLow(c) \/ Rivals(c) # {} => c \in overlapped
    BY DEF TooLow, Rivals, NonceFree, OfNetwork
  <2> QED BY <1>3, <1>4, <2>1, <2>2 DEF CollisionNeedsOverlap
<1> QED BY <1>6, <1>7, <1>8, <1>9, <1>10

LEMMA MinedKeeps ==
  ASSUME SignerInv, NEW c \in Calls, Mined(c), UNCHANGED network, TypeOK'
  PROVE  SignerInv'
<1> USE DEF SignerInv, SignerTypeOK, Mined
<1>1. tron' = tron /\ pc' = pc
  BY DEF Include, vars
<1>2. SignerTypeOK' /\ PoolSent' /\ RivalsOverlapped' /\ CollisionNeedsOverlap'
  BY <1>1 DEF PoolSent, RivalsOverlapped, CollisionNeedsOverlap
<1>3. NonceFree'
  BY <1>1 DEF NonceFree
<1> QED BY <1>2, <1>3

LEMMA SignerNextInv == SignerInv /\ TypeOK' /\ [SignerNext]_allVars => SignerInv'
<1> SUFFICES ASSUME SignerInv, TypeOK', [SignerNext]_allVars PROVE SignerInv'
  OBVIOUS
<1> USE DEF SignerInv, SignerTypeOK
<1>1. ASSUME NEW c \in Calls, Lookup(c) \/ Dial(c) \/ Store(c) \/ Trigger(c), UNCHANGED network
      PROVE  SignerInv'
  <2> USE <1>1 DEF Lookup, Dial, Store, Trigger, Becomes, vars, chainVars
  <2>1. /\ write' \in [Calls -> {"start", "dial", "store", "fetch", "send", "sent", "error"}]
        /\ \A e \in Calls : write[e] \in {"sent", "error"} => write'[e] = write[e]
        /\ \A e \in Calls : write'[e] = "send" => tron \/ write[e] = "send"
    OBVIOUS
  <2>2. /\ cached' \subseteq Networks /\ died' \in BOOLEAN
        /\ UNCHANGED <<network, tron, pc, nonce, account, overlapped, collided, pool>>
    OBVIOUS
  <2> QED BY <2>1, <2>2, QuietStep
<1>2. ASSUME NEW c \in Calls, WriteStep(c), UNCHANGED network PROVE SignerInv'
  BY <1>1, <1>2, FetchKeeps, SendKeeps DEF WriteStep
<1>3. CASE WaitStep
  <2>1. tron' = tron
    BY <1>3 DEF WaitStep, Step, GetClient, PollFinds, PollUnmined, PollError, Unanswered, LoopTest, env
  <2> QED BY <1>3, <2>1, QuietStep DEF WaitStep, signerVars
<1>4. CASE Race /\ UNCHANGED network
  BY <1>4, QuietStep DEF Race, vars, chainVars
<1>5. ASSUME NEW c \in Calls, Mined(c) \/ Evict(c), UNCHANGED network PROVE SignerInv'
  BY <1>5, MinedKeeps, QuietStep DEF Evict, vars
<1>6. CASE (Cancel /\ UNCHANGED signerVars) \/ UNCHANGED allVars
  BY <1>6, QuietStep DEF Cancel, signerVars, allVars, vars
<1> QED
  BY <1>2, <1>3, <1>4, <1>5, <1>6 DEF SignerNext

LEMMA SignerInvariant == SignerSpec => []SignerInv
<1>1. WaitInv' => TypeOK'
  BY DEF WaitInv
<1> QED
  BY <1>1, SignerInitInv, SignerNextInv, SignerWaits, PTL DEF SignerSpec

\* Signer, account and receipt loop keep their types for any number of calls, and no
\* receipt is awaited before there is a hash.
THEOREM SignerTypeCorrect == SignerSpec => []SignerTypeOK
<1>1. SignerInv => SignerTypeOK
  BY DEF SignerInv
<1> QED BY <1>1, SignerInvariant, PTL

\* Calls of one key only lose their account nonce to each other while they overlap on
\* one network.
THEOREM Collisions == SignerSpec => []CollisionNeedsOverlap
<1>1. SignerInv => CollisionNeedsOverlap
  BY DEF SignerInv
<1> QED BY <1>1, SignerInvariant, PTL

\* Once the clients of all networks are cached and nobody dials, the unlocked map is
\* harmless for ever; no sooner, for the first use of any network writes it.
THEOREM CacheIsSafe == SignerSpec => RaceOnlyAtFirstUse
<1>1. SignerInv /\ CacheSettled /\ [SignerNext]_allVars => CacheSettled'
  <2> SUFFICES ASSUME SignerInv, CacheSettled, [SignerNext]_allVars PROVE CacheSettled'
    OBVIOUS
  <2> USE DEF SignerInv, SignerTypeOK, CacheSettled, Becomes
  <2>1. ASSUME NEW c \in Calls, WriteStep(c), UNCHANGED network PROVE CacheSettled'
    <3> USE DEF Accepted, Refused
    <3>1. Lookup(c) \/ Fetch(c) \/ Trigger(c) \/ Send(c)
      BY <2>1 DEF WriteStep, Dial, Store
    <3>2. cached' = cached /\ died' = died /\ network' = network
      BY <2>1, <3>1 DEF Lookup, Fetch, Trigger, Send
    <3>3. \E phase \in {"fetch", "send", "sent", "error"} : write' = [write EXCEPT ![c] = phase]
      <4>1. CASE Lookup(c)
        BY <4>1 DEF Lookup
      <4>2. CASE Fetch(c) \/ Trigger(c) \/ Send(c)
        BY <4>2 DEF Fetch, Trigger, Send
      <4> QED BY <3>1, <4>1, <4>2
    <3>4. \A e \in Calls : write'[e] \notin {"dial", "store"}
      BY <3>3
    <3> QED BY <3>2, <3>4
  <2>2. CASE Race
    BY <2>2 DEF Race
  <2>3. CASE UNCHANGED <<network, write, cached, died>>
    BY <2>3
  <2> QED
    BY <2>1, <2>2, <2>3 DEF SignerNext, WaitStep, Mined, Evict, signerVars, allVars
<1>2. CacheSettled => ~died
  BY DEF CacheSettled
<1> QED
  BY <1>1, <1>2, SignerInvariant, PTL DEF SignerSpec, RaceOnlyAtFirstUse

\* Whatever the other calls of the key do, the call is told of its own transaction
\* what ReceiptAnswer allows.
THEOREM SignerRefinement == SignerSpec => ImplementsReceiptAnswer
BY AnswerInit, AnswerNext, SignerStepsWait, SignerWaits, PTL
   DEF SignerSpec, SignerInit, ImplementsReceiptAnswer, RA!Spec

\* Nor does it with other calls of the key beside it.
THEOREM SignerRetries == SignerSpec => ErrorsAreRetried
BY RetryStep, SignerStepsWait, PTL DEF SignerSpec, ErrorsAreRetried
=============================================================================
