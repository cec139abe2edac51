-------------------------- MODULE MCPermitEncoding --------------------------
(***************************************************************************)
(* One network of each kind: bsc with a contract, bscTestnet without one   *)
(* and without the token in its registry, and nile, whose contract is      *)
(* configured in base58.  The numbers differ, so that none can be taken    *)
(* for another.                                                            *)
(***************************************************************************)
EXTENDS PermitEncoding

MCContract == [n \in {"bsc", "bscTestnet", "nile"} |->
                 CASE n = "bsc"        -> Text("0x", Permit402)
                   [] n = "bscTestnet" -> Empty
                   [] n = "nile"       -> Text("base58", Permit402)]

MCChainID == [n \in {"bsc", "bscTestnet", "nile"} |->
                CASE n = "bsc" -> 56 [] n = "bscTestnet" -> 97 [] n = "nile" -> 100]

MCRegistry == [n \in {"bsc", "bscTestnet", "nile"} |->
                 IF n = "bscTestnet" THEN {} ELSE {Token}]

MCNumbers == [ptype |-> 0, nonce |-> 1, validAfter |-> 2, validBefore |-> 3,
              payAmount |-> 4, feeAmount |-> 5]
MCTokenDomain == [name |-> "Coin", version |-> "1"]

Deployment(n, m, s) == [network |-> n, mechanism |-> m, signer |-> s]

\* Each chain with the mechanism named after it, and the EVM mechanism with a Tron
\* signer, and transfer_auth.
MCDeployments == {Deployment("bsc", "evm", "evm"), Deployment("bscTestnet", "evm", "evm"),
                  Deployment("nile", "tron", "tron"), Deployment("nile", "evm", "tron"),
                  Deployment("bsc", "auth", "evm"), Deployment("bscTestnet", "auth", "evm")}
=============================================================================
