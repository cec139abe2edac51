---------------------------- MODULE MCPaymentTerms --------------------------
(***************************************************************************)
(* Two chains and four registered tokens: the facilitator does not know    *)
(* USDC, and knows DAI by another name than the client; USDC on nile is    *)
(* known to nobody.  Three fee tables, one without an entry for the tokens *)
(* in use; two payees.  An amount of 4 is beyond MaxInt.                   *)
(***************************************************************************)
EXTENDS PaymentTerms, FiniteSets, TLC

MCUsdt == <<"bsc", "USDT">>
MCUsdc == <<"bsc", "USDC">>
MCDai  == <<"bsc", "DAI">>

MCRegistry    == {MCUsdt, MCUsdc, MCDai, <<"nile", "USDT">>}
MCClientKnown == [a \in MCRegistry |-> a[2]]
MCKnown       == [a \in MCRegistry \ {MCUsdc} |-> IF a = MCDai THEN "Dai Stablecoin" ELSE a[2]]
MCSchemes     == {"permit402", "transfer_auth"}
MCMechanisms  == {<<"bsc", "permit402">>, <<"bsc", "transfer_auth">>, <<"nile", "permit402">>}
MCSupported   == {<<"bsc", "transfer_auth">>, <<"bsc", "permit402">>, <<"nile", "permit402">>}
MCAllowed     == {MCUsdc, MCUsdt, MCDai}
MCValidFors   == {0, 1}
MCFeeTables   == {[s \in {"USDT"} |-> 1], [s \in {"USDT"} |-> 2], [s \in {"SUN"} |-> 1]}

MCConfig(network, token, amount, payTo) ==
  [chain |-> network, token |-> token, amount |-> amount, payTo |-> payTo]

MCConfigs == {MCConfig("bsc", "USDT", 4, "merchant"), MCConfig("bsc", "USDT", 4, "partner"),
              MCConfig("bsc", "USDT", -1, "merchant"), MCConfig("bsc", "USDT", NoAmount, "merchant"),
              MCConfig("bsc", "USDC", 4, "merchant"), MCConfig("bsc", "DAI", 4, "merchant"),
              MCConfig("nile", "USDT", 4, "merchant"), MCConfig("nile", "USDC", 4, "merchant")}

MCForeignTerms ==
  [payToken : {MCUsdt, MCUsdc}, payAmount : {4}, payTo : {"merchant"},
   feeTo : {Zero, FeeTo, "partner"}, feeAmount : {1, 2},
   validAfter : {1}, validBefore : {3}, domain : {"USDT"}]
  \cup [payToken : {MCUsdt}, payAmount : {-2, 3}, payTo : {"merchant", "partner"},
        feeTo : {Zero}, feeAmount : {0}, validAfter : {2}, validBefore : {3},
        domain : {"USDT", "Dai Stablecoin"}]
=============================================================================
