------------------------------ MODULE TypedData -----------------------------
(***************************************************************************)
(* EIP712Hash of signers/eip712.go, by which client and facilitator hash a *)
(* permit402 permit and a transfer_auth authorization, and, apart from it, *)
(* what the contracts hash.  Keccak stands for an injective function: a    *)
(* hash is the tuple of what went into it, so two digests are equal just   *)
(* when types, order and values are.                                       *)
(***************************************************************************)
EXTENDS AddressText, Integers, Sequences, FiniteSets

Field(name, type) == [name |-> name, type |-> type]

\* abi/eip712.go and transfer_auth/types.go: the members of each struct.
PermitTypes ==
  [EIP712Domain |-> <<Field("name", "string"), Field("chainId", "uint256"),
                      Field("verifyingContract", "address")>>,
   PermitMeta |-> <<Field("ptype", "uint8"), Field("paymentId", "bytes16"),
                    Field("nonce", "uint256"), Field("validAfter", "uint256"),
                    Field("validBefore", "uint256")>>,
   Payment |-> <<Field("payToken", "address"), Field("payAmount", "uint256"),
                 Field("payTo", "address")>>,
   Fee |-> <<Field("feeTo", "address"), Field("feeAmount", "uint256")>>,
   Permit402Details |-> <<Field("meta", "PermitMeta"), Field("buyer", "address"),
                          Field("payment", "Payment"), Field("fee", "Fee")>>]

AuthorizationTypes ==
  [EIP712Domain |-> <<Field("name", "string"), Field("version", "string"),
                      Field("chainId", "uint256"), Field("verifyingContract", "address")>>,
   TransferWithAuthorization |->
     <<Field("from", "address"), Field("to", "address"), Field("value", "uint256"),
       Field("validAfter", "uint256"), Field("validBefore", "uint256"),
       Field("nonce", "bytes32")>>]

\* sort.Strings on the names of structs.
Alphabet == <<"EIP712Domain", "Fee", "Payment", "Permit402Details", "PermitMeta",
              "TransferWithAuthorization">>

\* A struct, those it mentions, and those they mention: the least set with it and
\* with what its members mention.
FindDependencies(struct, types) ==
  LET Mentioned(s) == {types[s][i].type : i \in DOMAIN types[s]} \cap DOMAIN types
      Visits(S)    == struct \in S /\ \A s \in S : Mentioned(s) \subseteq S
  IN  {s \in DOMAIN types : \A S \in SUBSET DOMAIN types : Visits(S) => s \in S}

SortStrings(names) ==
  LET sorted[n \in 0..Len(Alphabet)] ==
        IF n = 0 THEN <<>>
        ELSE IF Alphabet[n] \in names THEN Append(sorted[n - 1], Alphabet[n])
        ELSE sorted[n - 1]
  IN  sorted[Len(Alphabet)]

\* The struct's own description, then those of its dependencies by name.
EncodeType(struct, types) ==
  LET sorted == SortStrings(FindDependencies(struct, types) \ {struct})
  IN  <<<<struct, types[struct]>>>> \o [i \in DOMAIN sorted |-> <<sorted[i], types[sorted[i]]>>]

Abs(n) == IF n < 0 THEN -n ELSE n

\* A member that is no struct: an address is read by HexToAddress, a number loses its
\* sign (big.Int.Bytes), a text is hashed, bytes are padded to a word.
EncodeAtom(type, value) ==
  IF type = "address" THEN HexToAddress(value)
  ELSE IF type \in {"uint8", "uint256"} THEN Abs(value)
  ELSE IF type = "string" THEN <<value>>
  ELSE value

\* hashStruct, encodeData and encodeValue; the structs of the two tables nest once.
HashAtoms(struct, data, types) ==
  LET fields == types[struct] IN
  <<EncodeType(struct, types),
    [i \in DOMAIN fields |-> EncodeAtom(fields[i].type, data[fields[i].name])]>>

EncodeValue(type, value, types) ==
  IF type \in DOMAIN types THEN HashAtoms(type, value, types) ELSE EncodeAtom(type, value)

\* mutant: in the type, the structs follow in the order in which they are mentioned
HashStructUnsorted(struct, data, types) ==
  LET fields == types[struct]
      Kind(f) == f.type \in DOMAIN types
      mentioned == SelectSeq(fields, Kind)
  IN <<<<<<struct, fields>>>>
         \o [i \in DOMAIN mentioned |-> <<mentioned[i].type, types[mentioned[i].type]>>],
       [i \in DOMAIN fields |-> EncodeValue(fields[i].type, data[fields[i].name], types)]>>

HashStruct(struct, data, types) ==
  LET fields == types[struct] IN
  <<EncodeType(struct, types),
    [i \in DOMAIN fields |-> EncodeValue(fields[i].type, data[fields[i].name], types)]>>

EIP712Hash(domain, types, message, primaryType) ==
  <<HashStruct("EIP712Domain", domain, types), HashStruct(primaryType, message, types)>>

-----------------------------------------------------------------------------
\* External: what a contract at the account self hashes of its arguments a, in which
\* the addresses are accounts; n holds the numbers.
Described(struct, types) == <<struct, types[struct]>>

Descriptions(structs, types) == [i \in DOMAIN structs |-> Described(structs[i], types)]

Hashed(structs, types, values) == <<Descriptions(structs, types), values>>

PermitOnChain(self, chain, a, n) ==
  LET H(structs, values) == Hashed(structs, PermitTypes, values) IN
  <<H(<<"EIP712Domain">>, <<<<"Permit402">>, chain, self>>),
    H(<<"Permit402Details", "Fee", "Payment", "PermitMeta">>,
      <<H(<<"PermitMeta">>, <<n.ptype, a.paymentId, n.nonce, n.validAfter, n.validBefore>>),
        a.buyer,
        H(<<"Payment">>, <<a.payToken, n.payAmount, a.payTo>>),
        H(<<"Fee">>, <<a.feeTo, n.feeAmount>>)>>)>>

AuthorizationOnChain(self, chain, token, a, n) ==
  LET H(structs, values) == Hashed(structs, AuthorizationTypes, values) IN
  <<H(<<"EIP712Domain">>, <<<<token.name>>, <<token.version>>, chain, self>>),
    H(<<"TransferWithAuthorization">>,
      <<a.buyer, a.payTo, n.payAmount, n.validAfter, n.validBefore, n.nonce>>)>>

-----------------------------------------------------------------------------
\* encodeType of the EIP: each struct alone describes itself, and the permit is followed
\* by what it is made of in the order of the names, as the contract's type hash has it.
TypesAreCanonical ==
  /\ EncodeType("Permit402Details", PermitTypes)
       = Descriptions(<<"Permit402Details", "Fee", "Payment", "PermitMeta">>, PermitTypes)
  /\ \A s \in DOMAIN PermitTypes \ {"Permit402Details"} :
       EncodeType(s, PermitTypes) = Descriptions(<<s>>, PermitTypes)
  /\ \A s \in DOMAIN AuthorizationTypes :
       EncodeType(s, AuthorizationTypes) = Descriptions(<<s>>, AuthorizationTypes)
=============================================================================
