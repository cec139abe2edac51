-------------------------- MODULE FacilitatorSigner -------------------------
(***************************************************************************)
(* The settle calls of one facilitator key, which share the signer and, on *)
(* each network, its account: WriteContract of signers/evm_ and            *)
(* tron_facilitator_signer.go for every call, and ReceiptWait for one of   *)
(* them.  The signer takes no lock, keeps no account nonce of its own and  *)
(* caches the clients of all its networks in one plain map.                *)
(***************************************************************************)
EXTENDS ReceiptWait, FiniteSets

CONSTANTS Calls,          \* bound: the settle calls
          Mine,           \* the one whose receipt ReceiptWait waits for
          Networks,       \* bound: the networks the facilitator settles on
          Home            \* the one that call is for

VARIABLES network,        \* the network of a call
          write,          \* the phase of the WriteContract of a call
          cached,         \* the networks whose client is in clients
          died,           \* the Go runtime has ended the process
          nonce,          \* the account nonce of a call's transaction (EVM)
          pool,           \* external: the calls whose transaction is pending
          account,        \* external: the account nonce of a network's next block (EVM)
          overlapped,     \* history: calls that sent while another of the network was about to
          collided        \* history: calls refused or replaced for their nonce

signerVars == <<network, write, cached, died, nonce, pool, account, overlapped, collided>>
allVars    == <<vars, signerVars>>

ASSUME SignerAssumption == Mine \in Calls /\ IsFiniteSet(Calls) /\ Home \in Networks

\* The records of both modules keep their shape, and nobody waits for a receipt
\* before WriteContract has returned a hash.
SignerTypeOK ==
  /\ TypeOK
  /\ write \in [Calls -> {"start", "dial", "store", "fetch", "send", "sent", "error"}]
  /\ network \in [Calls -> Networks]
  /\ cached \subseteq Networks /\ died \in BOOLEAN
  /\ nonce \in [Calls -> Nat] /\ account \in [Networks -> Nat]
  /\ pool \subseteq Calls /\ overlapped \subseteq Calls /\ collided \subseteq Calls
  /\ pc # "client" => write[Mine] = "sent"

SignerInit == /\ Init
              /\ network \in [Calls -> Networks] /\ network[Mine] = Home
              /\ write = [c \in Calls |-> "start"]
              /\ cached \in IF tron THEN {{}} ELSE SUBSET Networks
              /\ died = FALSE
              /\ nonce = [c \in Calls |-> 0]
              /\ pool = {}
              /\ account = [n \in Networks |-> 0]
              /\ overlapped = {}
              /\ collided = {}

Becomes(c, phase) == write' = [write EXCEPT ![c] = phase]

chainVars == <<pool, account, overlapped, collided>>

\* mutant: the client is dialled again for every call
LookupDials(c) == /\ write[c] = "start" /\ ~tron
                  /\ Becomes(c, "dial")
                  /\ UNCHANGED <<vars, cached, died, nonce, chainVars>>

\* getClient: the map is read; without a client for the network one is dialled,
Lookup(c) == /\ write[c] = "start" /\ ~tron
             /\ Becomes(c, IF network[c] \in cached THEN "fetch" ELSE "dial")
             /\ UNCHANGED <<vars, cached, died, nonce, chainVars>>

\* or the call is given up, for want of an RPC URL too.
Dial(c) == /\ write[c] = "dial"
           /\ Becomes(c, "store") \/ Becomes(c, "error")
           /\ UNCHANGED <<vars, cached, died, nonce, chainVars>>

\* The assignment to the map is over.
Store(c) == /\ write[c] = "store"
            /\ Becomes(c, "fetch")
            /\ cached' = cached \union {network[c]}
            /\ UNCHANGED <<vars, died, nonce, chainVars>>

\* A goroutine that reads the map or assigns to it, for whatever network: before its
\* transaction, or at the start of the wait for its receipt.
UsesMap(c) == \/ write[c] \in {"start", "store"}
              \/ write[c] = "sent" /\ (c = Mine => pc = "client")

\* Another goroutine uses the map while it is assigned to; the runtime may notice and
\* end the process, with every call in it.
Race == /\ ~tron
        /\ \E c \in Calls : write[c] = "store" /\ \E e \in Calls \ {c} : UsesMap(e)
        /\ died' = TRUE
        /\ UNCHANGED <<vars, write, cached, nonce, chainVars>>

OfNetwork(n) == {c \in Calls : network[c] = n}

PooledNonces(n) == {nonce[c] : c \in pool \intersect OfNetwork(n)}

\* PendingNonceAt: the first nonce neither mined nor pending on a network.
PendingNonce(n, k) == /\ k \notin PooledNonces(n)
                      /\ \A m \in account[n]..(k - 1) : m \in PooledNonces(n)

\* mutant: auth.Nonce is the nonce of the last block, whatever is pending
FetchMined(c) == /\ write[c] = "fetch"
                 /\ nonce' = [nonce EXCEPT ![c] = account[network[c]]]
                 /\ Becomes(c, "send")
                 /\ UNCHANGED <<vars, cached, died, chainVars>>

\* bind.Transact without auth.Nonce asks the node for it, or fails on the way.
Fetch(c) == /\ write[c] = "fetch"
            /\ \/ /\ \E k \in account[network[c]]..(account[network[c]] + Cardinality(Calls)) :
                        PendingNonce(network[c], k) /\ nonce' = [nonce EXCEPT ![c] = k]
                  /\ Becomes(c, "send")
               \/ Becomes(c, "error") /\ UNCHANGED nonce
            /\ UNCHANGED <<vars, cached, died, chainVars>>

\* Tron has no account nonce and its signer no map: TriggerContractCall has the node build the transaction.
Trigger(c) == /\ write[c] = "start" /\ tron
              /\ Becomes(c, "send") \/ Becomes(c, "error")
              /\ UNCHANGED <<vars, cached, died, nonce, chainVars>>

Sending(n) == {c \in OfNetwork(n) : write[c] = "send"}

TooLow(c) == ~tron /\ nonce[c] < account[network[c]]
Rivals(c) == {e \in pool \intersect OfNetwork(network[c]) : ~tron /\ nonce[e] = nonce[c]}

\* The node takes the transaction, in place of a pending one with its nonce; the
\* answer may be lost, and WriteContract then reports an error.
Accepted(c) == /\ ~TooLow(c)
               /\ pool' = (pool \ Rivals(c)) \union {c}
               /\ collided' = collided \union Rivals(c)
               /\ Becomes(c, "sent") \/ Becomes(c, "error")

\* It does not: the nonce is taken, or for a reason of its own.
Refused(c) == /\ Becomes(c, "error")
              /\ collided' = IF TooLow(c) \/ Rivals(c) # {} THEN collided \union {c} ELSE collided
              /\ UNCHANGED pool

Send(c) == /\ write[c] = "send"
           /\ Accepted(c) \/ Refused(c)
           /\ overlapped' = IF Sending(network[c]) = {c} THEN overlapped
                            ELSE overlapped \union Sending(network[c])
           /\ UNCHANGED <<vars, cached, died, nonce, account>>

\* A block takes the pending transaction with the account's next nonce,
Mined(c) == /\ c \in pool
            /\ tron \/ nonce[c] = account[network[c]]
            /\ IF c = Mine THEN Include ELSE UNCHANGED vars
            /\ pool' = pool \ {c}
            /\ account' = IF tron THEN account
                         ELSE [account EXCEPT ![network[c]] = @ + 1]
            /\ UNCHANGED <<write, cached, died, nonce, overlapped, collided>>

\* or the node forgets one.
Evict(c) == /\ c \in pool
            /\ pool' = pool \ {c}
            /\ UNCHANGED <<vars, write, cached, died, nonce, account, overlapped, collided>>

WriteStep(c) == \/ Lookup(c)
                \/ Dial(c)
                \/ Store(c)
                \/ Fetch(c)
                \/ Trigger(c)
                \/ Send(c)

\* WaitForTransactionReceipt, once there is a hash to wait for.
WaitStep == /\ write[Mine] = "sent"
            /\ Step
            /\ UNCHANGED signerVars

SignerNext == /\ ~died
              /\ \/ \E c \in Calls : WriteStep(c)
                 \/ WaitStep
                 \/ Race
                 \/ \E c \in Calls : Mined(c) \/ Evict(c)
                 \/ Cancel /\ UNCHANGED signerVars
              /\ UNCHANGED network

\* The goroutine of the call is scheduled, as long as there is a process, and each
\* single RPC call of it returns, with an answer or an error.
SignerSpec == /\ SignerInit
              /\ [][SignerNext]_allVars
              /\ WF_allVars(~died /\ (WriteStep(Mine) \/ WaitStep) /\ UNCHANGED network)

-----------------------------------------------------------------------------
\* Calls of one key only take each other's account nonce while they overlap on one
\* network: what is refused or replaced for its nonce sent its transaction, or saw
\* another sent there, between the fetch of the nonce and its own send.
CollisionNeedsOverlap == collided \subseteq overlapped

\* The unlocked map is shared by all networks, so the first use of a second network may
\* end the process under the calls of the first, long after that one's client was
\* cached.  Only with the clients of all networks cached and nobody dialling is the
\* process never ended by it again.
CacheSettled == /\ {network[c] : c \in Calls} \subseteq cached
                /\ ~died
                /\ \A c \in Calls : write[c] \notin {"dial", "store"}

RaceOnlyAtFirstUse == [](CacheSettled => []~died)

\* A settle call comes back from its signer, unless the process ends, if its RPC
\* calls do: neither signer gives them a timeout.
CallEnds == <>(died \/ write[Mine] = "error" \/ pc = "done")
=============================================================================
