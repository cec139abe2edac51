-------------------------- MODULE ServerRequirements ------------------------
(***************************************************************************)
(* The terms a server asks for: BuildPaymentRequirementsFromAPIKey and     *)
(* BuildPaymentRequirements of server.go over the token registry.  A token *)
(* is known by its network and its symbol; an address that belongs to no   *)
(* registered token has none.                                              *)
(***************************************************************************)
EXTENDS Naturals, Sequences

CONSTANTS Registry,       \* the <<network, symbol>> pairs of tokens/registry.go
          Mechanisms,     \* the <<network, scheme>> pairs registered with the server
          NoFee,          \* Extra.Fee is absent, or a quote is null
          NoAmount,       \* a config without amount, or a price that does not parse
          DefaultTimeout, \* 3600 s: MaxTimeoutSeconds when no ValidFor is configured
          ServerError     \* the error return

ASSUME ServerAssumption == DefaultTimeout \in Nat \ {0}

FindMechanism(network, scheme) == <<network, scheme>> \in Mechanisms

\* The token of a symbol is in the registry.
GetToken(network, symbol) == <<network, symbol>> \in Registry

\* MaxTimeoutSeconds of a ValidFor; 0 stands for none.
Timeout(validFor) == IF validFor = 0 THEN DefaultTimeout ELSE validFor

Requirement(scheme, c, validFor) ==
  [scheme |-> scheme, network |-> c.chain, asset |-> <<c.chain, c.token>>,
   amount |-> c.amount, payTo |-> c.payTo, timeout |-> Timeout(validFor), fee |-> NoFee]

\* mutant: a config without amount is asked for all the same
UsableWithoutAmount(scheme, c) == /\ FindMechanism(c.chain, scheme)
                                  /\ GetToken(c.chain, c.token)

\* A config of the API key yields a requirement unless its mechanism or token is
\* unknown or it comes without an amount.  That the amount is zero or negative is
\* nobody's concern.
Usable(scheme, c) == /\ FindMechanism(c.chain, scheme)
                     /\ GetToken(c.chain, c.token)
                     /\ c.amount # NoAmount

BuildFromAPIKey(configs, scheme, validFor) ==
  LET built[n \in 0..Len(configs)] ==
        IF n = 0 THEN <<>>
        ELSE IF Usable(scheme, configs[n])
             THEN Append(built[n - 1], Requirement(scheme, configs[n], validFor))
             ELSE built[n - 1]
  IN  built[Len(configs)]

\* A static config without mechanism, or whose price does not parse or names an
\* unknown token, is an error for the whole list.
BuildRequirements(configs, scheme, validFor) ==
  IF \A i \in DOMAIN configs : Usable(scheme, configs[i])
  THEN [i \in DOMAIN configs |-> Requirement(scheme, configs[i], validFor)]
  ELSE ServerError

\* mutant: quotes are appended one by one, an absent one moves the rest up
JoinCompacted(reqs, quotes) ==
  LET given == SelectSeq(quotes, LAMBDA q : q # NoFee)
  IN  [i \in DOMAIN reqs |->
         IF i \in DOMAIN given THEN [reqs[i] EXCEPT !.fee = given[i]] ELSE reqs[i]]

\* The i-th quote goes to the i-th requirement; a missing one, or a list that is
\* too short, leaves it without fee.
JoinFees(reqs, quotes) ==
  [i \in DOMAIN reqs |->
     IF i \in DOMAIN quotes /\ quotes[i] # NoFee
     THEN [reqs[i] EXCEPT !.fee = quotes[i]]
     ELSE reqs[i]]
=============================================================================
