------------------------ MODULE PermitEncodingProofs ------------------------
(***************************************************************************)
(* PermitEncoding, for any accounts, networks, contracts and deployments   *)
(* its assumption allows: first what encodeType makes of the two tables of *)
(* types, then what the digests are made of, then what is accepted.        *)
(***************************************************************************)
EXTENDS PermitEncoding, Induction

LEMMA AbsNat == \A n \in Nat : Abs(n) = n
BY DEF Abs

LEMMA NumbersAreNat ==
  /\ Numbers.ptype \in Nat /\ Numbers.nonce \in Nat
  /\ Numbers.validAfter \in Nat /\ Numbers.validBefore \in Nat
  /\ Numbers.payAmount \in Nat /\ Numbers.feeAmount \in Nat
BY EncodingAssumption

LEMMA StructNames ==
  /\ DOMAIN PermitTypes = {"EIP712Domain", "PermitMeta", "Payment", "Fee",
                           "Permit402Details"}
  /\ DOMAIN AuthorizationTypes = {"EIP712Domain", "TransferWithAuthorization"}
BY DEF PermitTypes, AuthorizationTypes

\* Sorting takes one name after the other from the alphabet.
LEMMA SortSteps ==
  ASSUME NEW names
  PROVE  \E f : /\ SortStrings(names) = f[6]
                /\ f[0] = <<>>
                /\ \A n \in 1..6 : f[n] = IF Alphabet[n] \in names
                                          THEN Append(f[n - 1], Alphabet[n])
                                          ELSE f[n - 1]
<1> DEFINE V == Seq({Alphabet[n] : n \in 1..6})
           After(n, v) == IF Alphabet[n] \in names THEN Append(v, Alphabet[n]) ELSE v
           step == [n \in 1..6 |-> [v \in V |-> After(n, v)]]
           Sorts(g) == g = [n \in 0..6 |-> IF n = 0 THEN <<>> ELSE After(n, g[n - 1])]
           sorted == CHOOSE g : Sorts(g)
<1>1. SortStrings(names) = sorted[6]
  <2>1. Len(Alphabet) = 6
    BY DEF Alphabet
  <2> QED
    BY <2>1 DEF SortStrings
<1>2. ASSUME NEW n \in 1..6, NEW v \in V PROVE After(n, v) \in V
  OBVIOUS
<1>3. <<>> \in V
  OBVIOUS
<1> HIDE DEF V, After
<1>4. IsLoop(step, 6, V)
  BY <1>2 DEF IsLoop
<1>5. PICK f : Runs(f, <<>>, step, 6, V)
  <2> HIDE DEF step
  <2> QED
    BY <1>3, <1>4, Recursion
<1>6. Sorts(f)
  <2>1. ASSUME NEW n \in 1..6 PROVE step[n][f[n - 1]] = After(n, f[n - 1])
    <3>1. f[n - 1] \in V
      BY <1>5 DEF Runs
    <3> QED
      BY <3>1
  <2> QED
    BY <1>5, <2>1 DEF Runs
<1>7. Sorts(sorted)
  <2> HIDE DEF Sorts
  <2> QED
    BY <1>6
<1>8. sorted[0] = <<>> /\ \A n \in 1..6 : sorted[n] = After(n, sorted[n - 1])
  <2> HIDE DEF sorted
  <2> QED
    BY <1>7
<1> HIDE DEF sorted
<1> QED
  BY <1>1, <1>8 DEF After

\* The alphabet's names by their places.
LEMMA AlphabetNames ==
  /\ Alphabet[1] = "EIP712Domain" /\ Alphabet[2] = "Fee" /\ Alphabet[3] = "Payment"
  /\ Alphabet[4] = "Permit402Details" /\ Alphabet[5] = "PermitMeta"
  /\ Alphabet[6] = "TransferWithAuthorization"
BY DEF Alphabet

\* Sorted, nothing is nothing,
LEMMA SortNone == SortStrings({}) = <<>>
<1>1. PICK f : /\ SortStrings({}) = f[6]
               /\ f[0] = <<>>
               /\ \A n \in 1..6 : f[n] = f[n - 1]
  BY SortSteps
<1>2. f[1] = f[0] /\ f[2] = f[1] /\ f[3] = f[2] /\ f[4] = f[3] /\ f[5] = f[4] /\ f[6] = f[5]
  BY <1>1
<1> QED
  BY <1>1, <1>2

\* A short sequence is a tuple.
LEMMA Tuples ==
  ASSUME NEW S, NEW s \in Seq(S)
  PROVE  /\ Len(s) = 2 => s = <<s[1], s[2]>>
         /\ Len(s) = 3 => s = <<s[1], s[2], s[3]>>
         /\ Len(s) = 4 => s = <<s[1], s[2], s[3], s[4]>>
OBVIOUS
LEMMA Appended ==
  ASSUME NEW S, NEW a \in S, NEW b \in S, NEW c \in S
  PROVE  /\ Append(<<>>, a) = <<a>>
         /\ Append(<<a>>, b) = <<a, b>>
         /\ Append(<<a, b>>, c) = <<a, b, c>>
<1> DEFINE s == Append(<<a>>, b)
           t == Append(<<a, b>>, c)
<1>1. s \in Seq(S) /\ Len(s) = 2 /\ s[1] = a /\ s[2] = b OBVIOUS
<1>2. t \in Seq(S) /\ Len(t) = 3 /\ t[1] = a /\ t[2] = b /\ t[3] = c OBVIOUS
<1>3. Append(<<>>, a) = <<a>> OBVIOUS
<1> HIDE DEF s, t
<1>4. s = <<a, b>> BY <1>1, Tuples
<1>5. t = <<a, b, c>> BY <1>2, Tuples
<1> QED BY <1>3, <1>4, <1>5 DEF s, t
LEMMA Joined ==
  ASSUME NEW S, NEW a \in S, NEW b \in S, NEW c \in S, NEW d \in S
  PROVE  <<a>> \o <<b, c, d>> = <<a, b, c, d>>
<1> DEFINE s == <<a>> \o <<b, c, d>>
<1>1. s \in Seq(S) /\ Len(s) = 4 /\ s[1] = a /\ s[2] = b /\ s[3] = c /\ s[4] = d OBVIOUS
<1> HIDE DEF s
<1>4. s = <<a, b, c, d>> BY <1>1, Tuples
<1> QED BY <1>4 DEF s

\* and the parts of a permit stand in the order the contract has them.
LEMMA SortPermit ==
  SortStrings({"PermitMeta", "Payment", "Fee"}) = <<"Fee", "Payment", "PermitMeta">>
<1> DEFINE names == {"PermitMeta", "Payment", "Fee"}
<1>1. PICK f : /\ SortStrings(names) = f[6]
               /\ f[0] = <<>>
               /\ \A n \in 1..6 : f[n] = IF Alphabet[n] \in names
                                         THEN Append(f[n - 1], Alphabet[n])
                                         ELSE f[n - 1]
  BY SortSteps
<1>2. f[1] = <<>>
  BY <1>1, AlphabetNames
<1>3. f[2] = Append(f[1], Alphabet[2]) /\ f[3] = Append(f[2], Alphabet[3]) /\ f[4] = f[3]
  <2> HIDE DEF names
  <2>1. 2 \in 1..6 /\ 3 \in 1..6 /\ 4 \in 1..6 /\ 2 - 1 = 1 /\ 3 - 1 = 2 /\ 4 - 1 = 3
    OBVIOUS
  <2>2. Alphabet[2] \in names /\ Alphabet[3] \in names /\ Alphabet[4] \notin names
    BY AlphabetNames DEF names
  <2> QED
    BY <1>1, <2>1, <2>2
<1>5. f[5] = Append(f[4], Alphabet[5]) /\ f[6] = f[5]
  <2> HIDE DEF names
  <2>1. 5 \in 1..6 /\ 6 \in 1..6 /\ 5 - 1 = 4 /\ 6 - 1 = 5
    OBVIOUS
  <2>2. Alphabet[5] \in names /\ Alphabet[6] \notin names
    BY AlphabetNames DEF names
  <2> QED
    BY <1>1, <2>1, <2>2
<1>6. /\ Append(<<>>, "Fee") = <<"Fee">>
      /\ Append(<<"Fee">>, "Payment") = <<"Fee", "Payment">>
      /\ Append(<<"Fee", "Payment">>, "PermitMeta") = <<"Fee", "Payment", "PermitMeta">>
  <2>1. "Fee" \in names /\ "Payment" \in names /\ "PermitMeta" \in names
    OBVIOUS
  <2> HIDE DEF names
  <2> QED
    BY <2>1, Appended
<1>8. f[5] = <<"Fee", "Payment", "PermitMeta">>
  BY <1>2, <1>3, <1>5, <1>6, AlphabetNames, Zenon
<1> QED
  BY <1>1, <1>5, <1>8

\* A struct without structs depends on itself,
LEMMA FlatDependencies ==
  ASSUME NEW types, NEW s \in DOMAIN types,
         \A i \in DOMAIN types[s] : types[s][i].type \notin DOMAIN types
  PROVE  FindDependencies(s, types) = {s}
<1>1. s \in FindDependencies(s, types)
  BY DEF FindDependencies
<1>2. ASSUME NEW t \in FindDependencies(s, types) PROVE t = s
  BY {s} \in SUBSET DOMAIN types DEF FindDependencies
<1> QED
  BY <1>1, <1>2

\* and those of a permit but one do,
LEMMA PermitFields ==
  /\ \A s \in {"EIP712Domain", "PermitMeta", "Payment", "Fee"} :
       \A i \in DOMAIN PermitTypes[s] : PermitTypes[s][i].type \notin DOMAIN PermitTypes
  /\ PermitTypes["Permit402Details"]
       = <<Field("meta", "PermitMeta"), Field("buyer", "address"),
           Field("payment", "Payment"), Field("fee", "Fee")>>
<1>1. DOMAIN PermitTypes = {"EIP712Domain", "PermitMeta", "Payment", "Fee", "Permit402Details"}
  BY DEF PermitTypes
<1>2. \A i \in DOMAIN PermitTypes["EIP712Domain"] :
        PermitTypes["EIP712Domain"][i].type \in {"string", "uint256", "address"}
  BY DEF PermitTypes, Field
<1>3. \A i \in DOMAIN PermitTypes["PermitMeta"] :
        PermitTypes["PermitMeta"][i].type \in {"uint8", "bytes16", "uint256"}
  BY DEF PermitTypes, Field
<1>4. \A i \in DOMAIN PermitTypes["Payment"] :
        PermitTypes["Payment"][i].type \in {"address", "uint256"}
  BY DEF PermitTypes, Field
<1>5. \A i \in DOMAIN PermitTypes["Fee"] :
        PermitTypes["Fee"][i].type \in {"address", "uint256"}
  BY DEF PermitTypes, Field
<1>6. PermitTypes["Permit402Details"]
      = <<Field("meta", "PermitMeta"), Field("buyer", "address"),
          Field("payment", "Payment"), Field("fee", "Fee")>>
  BY DEF PermitTypes
<1> QED
  BY <1>1, <1>2, <1>3, <1>4, <1>5, <1>6

\* which depends on all of its parts.
LEMMA PermitDependencies ==
  FindDependencies("Permit402Details", PermitTypes)
    = {"Permit402Details", "PermitMeta", "Payment", "Fee"}
<1> DEFINE top == "Permit402Details"
           parts == {"PermitMeta", "Payment", "Fee"}
           types == PermitTypes
           Mentioned(s) == {types[s][i].type : i \in DOMAIN types[s]} \cap DOMAIN types
<1>1. DOMAIN types = {"EIP712Domain", "PermitMeta", "Payment", "Fee", "Permit402Details"}
  BY DEF PermitTypes
<1>2. Mentioned(top) = parts
  <2>1. /\ DOMAIN types[top] = 1..4
        /\ types[top][1].type = "PermitMeta" /\ types[top][2].type = "address"
        /\ types[top][3].type = "Payment" /\ types[top][4].type = "Fee"
    BY PermitFields DEF Field
  <2> HIDE DEF types
  <2>2. {types[top][i].type : i \in 1..4} = {"PermitMeta", "address", "Payment", "Fee"}
    BY <2>1
  <2> QED
    BY <1>1, <2>1, <2>2
<1>3. \A s \in parts : Mentioned(s) = {}
  BY PermitFields
<1>4. FindDependencies(top, types)
      = {s \in DOMAIN types : \A S \in SUBSET DOMAIN types :
           top \in S /\ (\A t \in S : Mentioned(t) \subseteq S) => s \in S}
  BY DEF FindDependencies
<1> HIDE DEF types, Mentioned
<1>5. \A t \in {top} \cup parts : Mentioned(t) \subseteq {top} \cup parts
  BY <1>2, <1>3
<1>6. {top} \cup parts \in SUBSET DOMAIN types
  BY <1>1
<1>7. FindDependencies(top, types) \subseteq {top} \cup parts
  BY <1>4, <1>5, <1>6
<1>8. {top} \cup parts \subseteq FindDependencies(top, types)
  BY <1>1, <1>2, <1>4
<1> QED
  BY <1>7, <1>8 DEF types

\* A struct without structs describes itself alone.
LEMMA FlatType ==
  ASSUME NEW types, NEW s \in DOMAIN types,
         \A i \in DOMAIN types[s] : types[s][i].type \notin DOMAIN types
  PROVE  EncodeType(s, types) = Descriptions(<<s>>, types)
<1>1. FindDependencies(s, types) \ {s} = {}
  BY FlatDependencies
<1>2. EncodeType(s, types) = <<<<s, types[s]>>>> \o [i \in DOMAIN <<>> |-> <<(<<>>)[i], types[(<<>>)[i]]>>]
  BY <1>1, SortNone, Zenon DEF EncodeType
<1>4. [i \in DOMAIN <<>> |-> <<(<<>>)[i], types[(<<>>)[i]]>>] = <<>>
  OBVIOUS
<1>5. \A a : <<a>> \o <<>> = <<a>>
  OBVIOUS
<1>3. Descriptions(<<s>>, types) = <<<<s, types[s]>>>>
  BY DEF Descriptions, Described
<1> QED
  BY <1>2, <1>3, <1>4, <1>5, Zenon

\* The type strings of both tables are those the contracts hash (eip712.go sorts what a
\* struct depends on, as the EIP asks).
THEOREM CanonicalTypes == TypesAreCanonical
<1>1. EncodeType("Permit402Details", PermitTypes)
      = Descriptions(<<"Permit402Details", "Fee", "Payment", "PermitMeta">>, PermitTypes)
  <2> DEFINE D(s) == <<s, PermitTypes[s]>>
             sorted == <<"Fee", "Payment", "PermitMeta">>
  <2>1. FindDependencies("Permit402Details", PermitTypes) \ {"Permit402Details"}
        = {"PermitMeta", "Payment", "Fee"}
    BY PermitDependencies
  <2>2. EncodeType("Permit402Details", PermitTypes)
        = <<D("Permit402Details")>> \o [i \in DOMAIN sorted |-> D(sorted[i])]
    BY <2>1, SortPermit DEF EncodeType
  <2>3. [i \in DOMAIN sorted |-> D(sorted[i])] = <<D("Fee"), D("Payment"), D("PermitMeta")>>
    <3> HIDE DEF D
    <3> QED
      OBVIOUS
  <2>4. Descriptions(<<"Permit402Details", "Fee", "Payment", "PermitMeta">>, PermitTypes)
        = <<D("Permit402Details"), D("Fee"), D("Payment"), D("PermitMeta")>>
    BY DEF Descriptions, Described
  <2>5. <<D("Permit402Details")>> \o <<D("Fee"), D("Payment"), D("PermitMeta")>>
        = <<D("Permit402Details"), D("Fee"), D("Payment"), D("PermitMeta")>>
    <3> DEFINE All == {D(s) : s \in {"Permit402Details", "Fee", "Payment", "PermitMeta"}}
    <3>1. /\ D("Permit402Details") \in All /\ D("Fee") \in All
          /\ D("Payment") \in All /\ D("PermitMeta") \in All
      OBVIOUS
    <3> HIDE DEF All, D
    <3> QED
      BY <3>1, Joined
  <2> HIDE DEF D
  <2> QED
    BY <2>2, <2>3, <2>4, <2>5
<1>2. ASSUME NEW s \in DOMAIN PermitTypes \ {"Permit402Details"}
      PROVE  EncodeType(s, PermitTypes) = Descriptions(<<s>>, PermitTypes)
  <2>1. s \in {"EIP712Domain", "PermitMeta", "Payment", "Fee"}
    BY DEF PermitTypes
  <2> QED
    BY <2>1, PermitFields, FlatType
<1>3. ASSUME NEW s \in DOMAIN AuthorizationTypes
      PROVE  EncodeType(s, AuthorizationTypes) = Descriptions(<<s>>, AuthorizationTypes)
  <2>1. \A i \in DOMAIN AuthorizationTypes[s] :
          AuthorizationTypes[s][i].type \in {"string", "uint256", "address", "bytes32"}
    BY DEF AuthorizationTypes, Field
  <2>2. DOMAIN AuthorizationTypes = {"EIP712Domain", "TransferWithAuthorization"}
    BY DEF AuthorizationTypes
  <2> QED
    BY <2>1, <2>2, FlatType
<1> QED
  BY <1>1, <1>2, <1>3 DEF TypesAreCanonical

-----------------------------------------------------------------------------
\* The structs of a permit, each the tuple of its values.
LEMMA MetaHash ==
  ASSUME NEW id
  PROVE  HashAtoms("PermitMeta",
           [ptype |-> Numbers.ptype, paymentId |-> id, nonce |-> Numbers.nonce,
            validAfter |-> Numbers.validAfter, validBefore |-> Numbers.validBefore],
           PermitTypes)
         = Hashed(<<"PermitMeta">>, PermitTypes,
             <<Numbers.ptype, id, Numbers.nonce, Numbers.validAfter, Numbers.validBefore>>)
<1> DEFINE data == [ptype |-> Numbers.ptype, paymentId |-> id, nonce |-> Numbers.nonce,
                    validAfter |-> Numbers.validAfter, validBefore |-> Numbers.validBefore]
           fields == PermitTypes["PermitMeta"]
           encoded == [i \in DOMAIN fields |-> EncodeAtom(fields[i].type,
                                                          data[fields[i].name])]
<1>1. fields = <<Field("ptype", "uint8"), Field("paymentId", "bytes16"),
                 Field("nonce", "uint256"), Field("validAfter", "uint256"),
                 Field("validBefore", "uint256")>>
  BY DEF PermitTypes
<1>2. /\ DOMAIN fields = 1..5
      /\ fields[1] = Field("ptype", "uint8")
      /\ fields[2] = Field("paymentId", "bytes16")
      /\ fields[3] = Field("nonce", "uint256")
      /\ fields[4] = Field("validAfter", "uint256")
      /\ fields[5] = Field("validBefore", "uint256")
  BY <1>1
<1>3. encoded = <<Numbers.ptype, id, Numbers.nonce, Numbers.validAfter,
                  Numbers.validBefore>>
  BY <1>2, NumbersAreNat, AbsNat DEF Field, EncodeAtom
<1>4. EncodeType("PermitMeta", PermitTypes)
      = Descriptions(<<"PermitMeta">>, PermitTypes)
  BY StructNames, CanonicalTypes DEF TypesAreCanonical
<1> QED BY <1>3, <1>4 DEF HashAtoms, Hashed

\* the payment,
LEMMA PaymentHash ==
  ASSUME NEW token, NEW to
  PROVE  HashAtoms("Payment",
           [payToken |-> token, payAmount |-> Numbers.payAmount, payTo |-> to],
           PermitTypes)
         = Hashed(<<"Payment">>, PermitTypes,
             <<HexToAddress(token), Numbers.payAmount, HexToAddress(to)>>)
<1> DEFINE data == [payToken |-> token, payAmount |-> Numbers.payAmount, payTo |-> to]
           fields == PermitTypes["Payment"]
           encoded == [i \in DOMAIN fields |-> EncodeAtom(fields[i].type,
                                                          data[fields[i].name])]
<1>1. fields = <<Field("payToken", "address"), Field("payAmount", "uint256"),
                 Field("payTo", "address")>>
  BY DEF PermitTypes
<1>2. /\ DOMAIN fields = 1..3
      /\ fields[1] = Field("payToken", "address")
      /\ fields[2] = Field("payAmount", "uint256")
      /\ fields[3] = Field("payTo", "address")
  BY <1>1
<1>3. encoded = <<HexToAddress(token), Numbers.payAmount, HexToAddress(to)>>
  BY <1>2, NumbersAreNat, AbsNat DEF Field, EncodeAtom
<1>4. EncodeType("Payment", PermitTypes)
      = Descriptions(<<"Payment">>, PermitTypes)
  BY StructNames, CanonicalTypes DEF TypesAreCanonical
<1> QED BY <1>3, <1>4 DEF HashAtoms, Hashed

\* the fee,
LEMMA FeeHash ==
  ASSUME NEW to
  PROVE  HashAtoms("Fee",
           [feeTo |-> to, feeAmount |-> Numbers.feeAmount],
           PermitTypes)
         = Hashed(<<"Fee">>, PermitTypes,
             <<HexToAddress(to), Numbers.feeAmount>>)
<1> DEFINE data == [feeTo |-> to, feeAmount |-> Numbers.feeAmount]
           fields == PermitTypes["Fee"]
           encoded == [i \in DOMAIN fields |-> EncodeAtom(fields[i].type,
                                                          data[fields[i].name])]
<1>1. fields = <<Field("feeTo", "address"), Field("feeAmount", "uint256")>>
  BY DEF PermitTypes
<1>2. /\ DOMAIN fields = 1..2
      /\ fields[1] = Field("feeTo", "address")
      /\ fields[2] = Field("feeAmount", "uint256")
  BY <1>1
<1>3. encoded = <<HexToAddress(to), Numbers.feeAmount>>
  BY <1>2, NumbersAreNat, AbsNat DEF Field, EncodeAtom
<1>4. EncodeType("Fee", PermitTypes)
      = Descriptions(<<"Fee">>, PermitTypes)
  BY StructNames, CanonicalTypes DEF TypesAreCanonical
<1> QED BY <1>3, <1>4 DEF HashAtoms, Hashed

\* the domain of Permit402,
LEMMA DomainHash ==
  ASSUME NEW chain \in Nat, NEW self
  PROVE  HashStruct("EIP712Domain",
           [name |-> "Permit402", chainId |-> chain, verifyingContract |-> self],
           PermitTypes)
         = Hashed(<<"EIP712Domain">>, PermitTypes,
             <<<<"Permit402">>, chain, HexToAddress(self)>>)
<1> DEFINE data == [name |-> "Permit402", chainId |-> chain, verifyingContract |-> self]
           fields == PermitTypes["EIP712Domain"]
           encoded == [i \in DOMAIN fields |->
                         EncodeValue(fields[i].type, data[fields[i].name], PermitTypes)]
<1>1. fields = <<Field("name", "string"), Field("chainId", "uint256"),
                 Field("verifyingContract", "address")>>
  BY DEF PermitTypes
<1>2. /\ DOMAIN fields = 1..3
      /\ fields[1] = Field("name", "string")
      /\ fields[2] = Field("chainId", "uint256")
      /\ fields[3] = Field("verifyingContract", "address")
  BY <1>1
<1>3. encoded = <<<<"Permit402">>, chain, HexToAddress(self)>>
  BY <1>2, StructNames, AbsNat DEF Field, EncodeValue, EncodeAtom
<1>4. EncodeType("EIP712Domain", PermitTypes)
      = Descriptions(<<"EIP712Domain">>, PermitTypes)
  BY StructNames, CanonicalTypes DEF TypesAreCanonical
<1> QED BY <1>3, <1>4 DEF HashStruct, Hashed

\* and the permit, of whose members three are structs.
LEMMA DetailsHash ==
  ASSUME NEW meta, NEW buyer, NEW payment, NEW fee
  PROVE  HashStruct("Permit402Details",
           [meta |-> meta, buyer |-> buyer, payment |-> payment, fee |-> fee],
           PermitTypes)
         = Hashed(<<"Permit402Details", "Fee", "Payment", "PermitMeta">>, PermitTypes,
             <<HashAtoms("PermitMeta", meta, PermitTypes), HexToAddress(buyer),
               HashAtoms("Payment", payment, PermitTypes),
               HashAtoms("Fee", fee, PermitTypes)>>)
<1> DEFINE data == [meta |-> meta, buyer |-> buyer, payment |-> payment, fee |-> fee]
           fields == PermitTypes["Permit402Details"]
           encoded == [i \in DOMAIN fields |->
                         EncodeValue(fields[i].type, data[fields[i].name], PermitTypes)]
<1>1. fields = <<Field("meta", "PermitMeta"), Field("buyer", "address"),
                 Field("payment", "Payment"), Field("fee", "Fee")>>
  BY DEF PermitTypes
<1>2. /\ DOMAIN fields = 1..4
      /\ fields[1] = Field("meta", "PermitMeta")
      /\ fields[2] = Field("buyer", "address")
      /\ fields[3] = Field("payment", "Payment")
      /\ fields[4] = Field("fee", "Fee")
  BY <1>1
<1>3. encoded = <<HashAtoms("PermitMeta", meta, PermitTypes), HexToAddress(buyer),
                  HashAtoms("Payment", payment, PermitTypes),
                  HashAtoms("Fee", fee, PermitTypes)>>
  BY <1>2, StructNames DEF Field, EncodeValue, EncodeAtom
<1>4. EncodeType("Permit402Details", PermitTypes)
      = Descriptions(<<"Permit402Details", "Fee", "Payment", "PermitMeta">>, PermitTypes)
  BY StructNames, CanonicalTypes DEF TypesAreCanonical
<1> QED BY <1>3, <1>4 DEF HashStruct, Hashed

\* The domain of a token,
LEMMA TokenHash ==
  ASSUME NEW name, NEW version, NEW chain \in Nat, NEW self
  PROVE  HashStruct("EIP712Domain",
           [name |-> name, version |-> version, chainId |-> chain,
            verifyingContract |-> self],
           AuthorizationTypes)
         = Hashed(<<"EIP712Domain">>, AuthorizationTypes,
             <<<<name>>, <<version>>, chain, HexToAddress(self)>>)
<1> DEFINE data == [name |-> name, version |-> version, chainId |-> chain,
                    verifyingContract |-> self]
           fields == AuthorizationTypes["EIP712Domain"]
           encoded == [i \in DOMAIN fields |->
                         EncodeValue(fields[i].type, data[fields[i].name], AuthorizationTypes)]
<1>1. fields = <<Field("name", "string"), Field("version", "string"),
                 Field("chainId", "uint256"), Field("verifyingContract", "address")>>
  BY DEF AuthorizationTypes
<1>2. /\ DOMAIN fields = 1..4
      /\ fields[1] = Field("name", "string")
      /\ fields[2] = Field("version", "string")
      /\ fields[3] = Field("chainId", "uint256")
      /\ fields[4] = Field("verifyingContract", "address")
  BY <1>1
<1>3. encoded = <<<<name>>, <<version>>, chain, HexToAddress(self)>>
  BY <1>2, StructNames, AbsNat DEF Field, EncodeValue, EncodeAtom
<1>4. EncodeType("EIP712Domain", AuthorizationTypes)
      = Descriptions(<<"EIP712Domain">>, AuthorizationTypes)
  BY StructNames, CanonicalTypes DEF TypesAreCanonical
<1> QED BY <1>3, <1>4 DEF HashStruct, Hashed

\* and an authorization.
LEMMA TransferHash ==
  ASSUME NEW buyer, NEW payee
  PROVE  HashStruct("TransferWithAuthorization",
           [from |-> buyer, to |-> payee, value |-> Numbers.payAmount,
            validAfter |-> Numbers.validAfter, validBefore |-> Numbers.validBefore,
            nonce |-> Numbers.nonce],
           AuthorizationTypes)
         = Hashed(<<"TransferWithAuthorization">>, AuthorizationTypes,
             <<HexToAddress(buyer), HexToAddress(payee), Numbers.payAmount,
               Numbers.validAfter, Numbers.validBefore, Numbers.nonce>>)
<1> DEFINE data == [from |-> buyer, to |-> payee, value |-> Numbers.payAmount,
                    validAfter |-> Numbers.validAfter, validBefore |-> Numbers.validBefore,
                    nonce |-> Numbers.nonce]
           fields == AuthorizationTypes["TransferWithAuthorization"]
           encoded == [i \in DOMAIN fields |->
                         EncodeValue(fields[i].type, data[fields[i].name], AuthorizationTypes)]
<1>1. fields = <<Field("from", "address"), Field("to", "address"),
                 Field("value", "uint256"), Field("validAfter", "uint256"),
                 Field("validBefore", "uint256"), Field("nonce", "bytes32")>>
  BY DEF AuthorizationTypes
<1>2. /\ DOMAIN fields = 1..6
      /\ fields[1] = Field("from", "address")
      /\ fields[2] = Field("to", "address")
      /\ fields[3] = Field("value", "uint256")
      /\ fields[4] = Field("validAfter", "uint256")
      /\ fields[5] = Field("validBefore", "uint256")
      /\ fields[6] = Field("nonce", "bytes32")
  BY <1>1
<1>3. encoded = <<HexToAddress(buyer), HexToAddress(payee), Numbers.payAmount,
                  Numbers.validAfter, Numbers.validBefore, Numbers.nonce>>
  BY <1>2, StructNames, NumbersAreNat, AbsNat DEF Field, EncodeValue, EncodeAtom
<1>4. EncodeType("TransferWithAuthorization", AuthorizationTypes)
      = Descriptions(<<"TransferWithAuthorization">>, AuthorizationTypes)
  BY StructNames, CanonicalTypes DEF TypesAreCanonical
<1> QED BY <1>3, <1>4 DEF HashStruct, Hashed

-----------------------------------------------------------------------------
\* The accounts the digest's reader takes the texts for.
Read(p) == [f \in Fields \cup {"paymentId"} |->
              IF f = "paymentId" THEN PaymentIDToBytes(p.paymentId)
              ELSE HexToAddress(Convert(p[f]))]

LEMMA PermitDigestRead ==
  ASSUME NEW p, NEW n \in DOMAIN Contract, NEW c
  PROVE  PermitDigest(p, n, c) = PermitOnChain(HexToAddress(c), ChainID[n], Read(p),
                                               Numbers)
<1>1. ChainID[n] \in Nat
  BY EncodingAssumption
<1> DEFINE id == PaymentIDToBytes(p.paymentId)
           m == PermitMessage(p)
<1>2. /\ Read(p).paymentId = id
      /\ Read(p).buyer = HexToAddress(Convert(p.buyer))
      /\ Read(p).payToken = HexToAddress(Convert(p.payToken))
      /\ Read(p).payTo = HexToAddress(Convert(p.payTo))
      /\ Read(p).feeTo = HexToAddress(Convert(p.feeTo))
  BY DEF Read, Fields
<1>3. HashStruct("EIP712Domain",
        [name |-> "Permit402", chainId |-> ChainID[n], verifyingContract |-> c],
          PermitTypes)
      = Hashed(<<"EIP712Domain">>, PermitTypes, <<<<"Permit402">>, ChainID[n],
                                                  HexToAddress(c)>>)
  BY <1>1, DomainHash
<1>4. HashAtoms("PermitMeta", m.meta, PermitTypes)
      = Hashed(<<"PermitMeta">>, PermitTypes,
          <<Numbers.ptype, id, Numbers.nonce, Numbers.validAfter, Numbers.validBefore>>)
  BY MetaHash DEF PermitMessage
<1>5. HashAtoms("Payment", m.payment, PermitTypes)
      = Hashed(<<"Payment">>, PermitTypes,
          <<HexToAddress(Convert(p.payToken)), Numbers.payAmount,
            HexToAddress(Convert(p.payTo))>>)
  BY PaymentHash DEF PermitMessage
<1>6. HashAtoms("Fee", m.fee, PermitTypes)
      = Hashed(<<"Fee">>, PermitTypes, <<HexToAddress(Convert(p.feeTo)),
                                         Numbers.feeAmount>>)
  BY FeeHash DEF PermitMessage
<1>7. m = [meta |-> m.meta, buyer |-> Convert(p.buyer), payment |-> m.payment,
           fee |-> m.fee]
  BY DEF PermitMessage
<1>8. HashStruct("Permit402Details", m, PermitTypes)
      = Hashed(<<"Permit402Details", "Fee", "Payment", "PermitMeta">>, PermitTypes,
          <<HashAtoms("PermitMeta", m.meta, PermitTypes), HexToAddress(Convert(p.buyer)),
            HashAtoms("Payment", m.payment, PermitTypes), HashAtoms("Fee", m.fee,
                                                                    PermitTypes)>>)
  <2> HIDE DEF m
  <2> QED BY <1>7, DetailsHash
<1>9. PermitDigest(p, n, c)
      = <<HashStruct("EIP712Domain",
            [name |-> "Permit402", chainId |-> ChainID[n], verifyingContract |-> c],
              PermitTypes),
          HashStruct("Permit402Details", m, PermitTypes)>>
  BY DEF PermitDigest, EIP712Hash
<1> HIDE DEF m
<1> QED BY <1>2, <1>3, <1>4, <1>5, <1>6, <1>8, <1>9 DEF PermitOnChain

LEMMA AuthorizationDigestRead ==
  ASSUME NEW p, NEW n \in DOMAIN Contract, NEW a,
         a.buyer = HexToAddress(p.buyer), a.payTo = HexToAddress(p.payTo)
  PROVE  AuthorizationDigest(p, n)
         = AuthorizationOnChain(HexToAddress(req.payToken), ChainID[n], LookedUpDomain(n),
                                a, Numbers)
<1>1. ChainID[n] \in Nat
  BY EncodingAssumption
<1> QED BY <1>1, TokenHash, TransferHash DEF AuthorizationDigest, EIP712Hash,
  AuthorizationOnChain

-----------------------------------------------------------------------------
\* What is the same at every stage, and what each stage has found.
Terms == /\ at \in Deployments
         /\ feeTo \in Texts(Customary(at.network), {Facilitator})
         /\ req \in [payToken : Texts(Customary(at.network), {Token}),
                     payTo    : Texts(Customary(at.network), {Merchant}),
                     feeTo    : {QuotedFeeTo(at, feeTo), NoFee}]

Shape == /\ permit \in [buyer : AnyText, payToken : AnyText, payTo : AnyText,
                        feeTo : AnyText,
                        paymentId : Texts({"0x", "bare"}, {PaymentID})]
         /\ at.mechanism = "auth" => permit = Authorized(permit.buyer, permit.payTo)

SignedByRule == signed \in {Digest(permit, at), OnChain(at, ContractAccount, Spelt(permit))}

EncodingInv ==
  /\ Terms
  /\ stage \notin {"asked", "failed"} => Shape /\ SignedByRule
  /\ stage \in {"verified", "submitted"} => Accepted
  /\ stage = "refused" => ~Accepted
  /\ stage = "submitted" => submitted = [target |-> Target(at), arguments |-> Arguments]

LEMMA Deployed ==
  ASSUME Terms
  PROVE  /\ at.network \in DOMAIN Contract
         /\ at.mechanism \in {"evm", "tron", "auth"}
         /\ at.signer = IF at.network \in TronNetworks THEN "tron" ELSE "evm"
         /\ at.mechanism = "auth" => at.network \notin TronNetworks
         /\ at.mechanism = "tron" => at.network \in TronNetworks
         /\ Contract[at.network] \in IF at.network \in TronNetworks THEN Texts({"base58"},
                                                                               {Permit402})
                                     ELSE Texts({"0x"}, {Permit402}) \cup {Empty}
BY EncodingAssumption DEF Terms

LEMMA TextParts ==
  ASSUME NEW t \in AnyText
  PROVE  /\ t = Text(t.form, t.account)
         /\ t.form \in Forms \cup {"empty"} /\ t.account \in Accounts
         /\ t.form = "empty" <=> t = Empty
         /\ t # Error /\ t # NoFee
<1>1. CASE t = Empty
  BY <1>1, EncodingAssumption DEF AnyText, Empty, Text, Accounts, Forms
<1>2. CASE t \in Texts(Forms, Accounts)
  BY <1>2, EncodingAssumption DEF AnyText, Empty, Text, Texts, Accounts, Forms
<1> QED BY <1>1, <1>2 DEF AnyText

LEMMA TextInAnyText ==
  ASSUME NEW form \in Forms, NEW a \in Accounts
  PROVE  /\ Text(form, a) \in AnyText
         /\ Text(form, a).form = form /\ Text(form, a).account = a
BY DEF AnyText, Texts, Text

LEMMA TermsAreTexts ==
  ASSUME Terms
  PROVE  /\ feeTo \in AnyText /\ feeTo.form \in Customary(at.network) /\ feeTo.account = Facilitator
         /\ req.payTo \in AnyText /\ req.payTo.form \in Customary(at.network)
         /\ req.payTo.account = Merchant
         /\ req.payToken \in AnyText /\ req.payToken.form \in Customary(at.network)
         /\ req.payToken.account = Token
         /\ req.feeTo = NoFee \/ /\ req.feeTo \in AnyText
                                 /\ req.feeTo.form \in Customary(at.network)
<1>1. Customary(at.network) \subseteq Forms /\ "0x" \in Customary(at.network)
  BY DEF Customary, Forms
<1>2. {Facilitator, Merchant, Token} \subseteq Accounts
  BY DEF Accounts
<1>3. \A a \in Accounts : \A t \in Texts(Customary(at.network), {a}) :
        t \in AnyText /\ t.form \in Customary(at.network) /\ t.account = a
  BY <1>1, TextInAnyText DEF Texts
<1>4. ToHex(feeTo) = Error \/ ToHex(feeTo) = Text("0x", feeTo.account)
  BY DEF ToHex
<1>5. QuotedFeeTo(at, feeTo) \in {feeTo, Text("0x", feeTo.account)}
  BY <1>4 DEF QuotedFeeTo
<1>6. /\ feeTo \in AnyText /\ feeTo.form \in Customary(at.network)
      /\ feeTo.account = Facilitator
  BY <1>2, <1>3 DEF Terms
<1>7. Text("0x", feeTo.account) \in AnyText /\ Text("0x", feeTo.account).form = "0x"
  BY <1>2, <1>6, TextInAnyText DEF Forms
<1>8. req.feeTo = NoFee \/ (req.feeTo \in AnyText /\ req.feeTo.form \in Customary(at.network))
  BY <1>1, <1>5, <1>6, <1>7 DEF Terms
<1> QED BY <1>2, <1>3, <1>6, <1>8 DEF Terms

\* No rule of comparison takes one account for another.
LEMMA NormAccount ==
  ASSUME NEW t \in AnyText, NEW d, d.mechanism \in {"evm", "tron", "auth"}
  PROVE  Norm(t, d).account = t.account
<1>1. ToHex(t) \in {Error, Text("0x", t.account)}
  BY DEF ToHex
<1>2. Text("0x", t.account).account = t.account
  BY DEF Text
<1> QED BY <1>1, <1>2 DEF Norm, NormEvm, NormTron

\* Nor does it tell apart what the network's users write.
LEMMA NormCustomary ==
  ASSUME Terms, at.mechanism # "auth",
         NEW t \in AnyText, t.form \in Customary(at.network)
  PROVE  Norm(t, at) = Text("0x", t.account)
<1>1. t # Empty /\ t = Text(t.form, t.account)
  BY TextParts DEF Customary
<1>2. at.network \in TronNetworks => ToHex(t) = Text("0x", t.account)
  BY DEF ToHex, Customary
<1>3. Text("0x", t.account) # Error
  BY TextParts, TextInAnyText DEF Forms
<1>4. CASE at.network \in TronNetworks
  BY <1>1, <1>2, <1>3, <1>4, Deployed DEF Norm, NormEvm, NormTron
<1>5. CASE at.network \notin TronNetworks
  <2>1. at.mechanism = "evm" /\ t.form \in {"0x", "bare"}
    BY <1>5, Deployed DEF Customary
  <2> QED BY <1>1, <1>5, <2>1 DEF Norm, NormEvm
<1> QED BY <1>4, <1>5

LEMMA ConvertHex ==
  ASSUME NEW t \in AnyText
  PROVE  HexToAddress(Convert(t)) = t.account
<1>1. t.form \in {"0x", "bare"} => HexToAddress(Convert(t)) = t.account
  BY DEF Convert, HexToAddress
<1>2. t.form = "base58" => HexToAddress(Convert(t)) = t.account
  BY DEF Convert, HexToAddress, ToHex, Text
<1>3. t.form = "empty" => HexToAddress(Convert(t)) = Zero /\ t.account = Zero
  BY TextParts DEF Convert, HexToAddress, Empty, Text
<1> QED BY <1>1, <1>2, <1>3, TextParts DEF Forms

LEMMA DomainAccount ==
  ASSUME Terms
  PROVE  /\ HexToAddress(DomainContract(at.network)) = Contract[at.network].account
         /\ at.network \notin TronNetworks =>
               HexToAddress(Contract[at.network]) = Contract[at.network].account
         /\ at.network \in TronNetworks =>
               ToApiHex(Contract[at.network]) = Contract[at.network].account
<1>1. CASE at.network \in TronNetworks
  BY <1>1, Deployed DEF Texts, Text, DomainContract, ToHex, ToApiHex, HexToAddress
<1>2. CASE at.network \notin TronNetworks
  BY <1>2, Deployed DEF Texts, Text, Empty, DomainContract, HexToAddress
<1> QED BY <1>1, <1>2

LEMMA ReadIsSpelt ==
  ASSUME Shape, permit.paymentId.form = "0x"
  PROVE  Read(permit) = Spelt(permit)
<1>1. \A f \in Fields : permit[f] \in AnyText
  BY DEF Shape, Fields
<1>2. \A f \in Fields : HexToAddress(Convert(permit[f])) = permit[f].account
  BY <1>1, ConvertHex
<1> QED BY <1>2 DEF Read, Spelt, PaymentIDToBytes

\* An authorization's texts are read as they are.
LEMMA AuthorizedTexts ==
  ASSUME Terms, Shape, at.mechanism = "auth"
  PROVE  /\ permit.payToken = req.payToken /\ permit.feeTo = Text("0x", Zero)
         /\ permit.paymentId = Text("0x", PaymentID)
         /\ HexToAddress(req.payToken) = req.payToken.account
<1>1. req.payToken.form \in {"0x", "bare"}
  BY TermsAreTexts, Deployed DEF Customary
<1>2. HexToAddress(req.payToken) = req.payToken.account
  BY <1>1 DEF HexToAddress
<1> QED BY <1>2 DEF Shape, Authorized

\* The digest of a rightly spelt permit is the contract's, if the token's own name and
\* version, where they are hashed, are found.
LEMMA DigestIsOnChain ==
  ASSUME Terms, Shape, RightlySpelt, at.mechanism = "auth" => TokenFound
  PROVE  Digest(permit, at) = OnChain(at, ContractAccount, Spelt(permit))
<1>1. CASE at.mechanism = "auth"
  <2>1. permit.buyer.form \in {"0x", "bare"} /\ permit.payTo.form \in {"0x", "bare"}
    BY <1>1, Deployed DEF RightlySpelt, Customary, Fields
  <2>2. /\ Spelt(permit).buyer = HexToAddress(permit.buyer)
        /\ Spelt(permit).payTo = HexToAddress(permit.payTo)
    BY <2>1 DEF Spelt, Fields, HexToAddress
  <2>4. LookedUpDomain(at.network) = TokenDomain
    BY <1>1 DEF TokenFound, LookedUpDomain
  <2>3. AuthorizationDigest(permit, at.network)
        = AuthorizationOnChain(HexToAddress(req.payToken), ChainID[at.network], TokenDomain,
                               Spelt(permit), Numbers)
    BY <2>2, <2>4, Deployed, AuthorizationDigestRead
  <2> QED BY <1>1, <2>3, AuthorizedTexts DEF Digest, OnChain, ContractAccount
<1>2. CASE at.mechanism # "auth"
  <2>1. Read(permit) = Spelt(permit)
    BY ReadIsSpelt DEF RightlySpelt
  <2>2. PermitDigest(permit, at.network, DomainContract(at.network))
        = PermitOnChain(Contract[at.network].account, ChainID[at.network], Spelt(permit),
                        Numbers)
    BY <2>1, Deployed, DomainAccount, PermitDigestRead
  <2> QED BY <1>2, <2>2 DEF Digest, OnChain, ContractAccount
<1> QED BY <1>1, <1>2

\* A rightful permit that is rightly spelt, for a token that is found, passes Verify.
LEMMA RightfulAccepted ==
  ASSUME Terms, Shape, SignedByRule, Agreed, RightlySpelt, TokenFound
  PROVE  Accepted
<1>1. \A f \in Fields : permit[f] \in AnyText /\ permit[f].form \in Customary(at.network)
  BY DEF Shape, Fields, RightlySpelt
<1>2. Matches
  <2>1. CASE at.mechanism = "auth"
    <3>1. permit.payTo = Text(permit.payTo.form, Merchant)
      BY <1>1, TextParts DEF Fields, Agreed
    <3>2. req.payTo = Text(req.payTo.form, Merchant)
      BY TermsAreTexts, TextParts
    <3>3. permit.payTo = req.payTo
      BY <2>1, <3>1, <3>2 DEF RightlySpelt
    <3> QED BY <2>1, <3>3 DEF Matches
  <2>2. CASE at.mechanism # "auth"
    <3>1. \A f \in Fields : Norm(permit[f], at) = Text("0x", permit[f].account)
      BY <1>1, <2>2, NormCustomary
    <3>2. /\ Norm(req.payTo, at) = Text("0x", Merchant)
          /\ Norm(req.payToken, at) = Text("0x", Token)
          /\ Norm(feeTo, at) = Text("0x", Facilitator)
      BY <2>2, TermsAreTexts, NormCustomary
    <3>3. Norm(permit.feeTo, at) # Text("0x", Zero)
          => FindByAddress(permit.payToken, at.network)
      BY <2>2, <3>1 DEF TokenFound, Fields
    <3> QED BY <3>1, <3>2, <3>3 DEF Matches, Agreed, Fields
  <2> QED BY <2>1, <2>2
<1>3. PaymentIDToBytes(permit.paymentId) # Error
  BY EncodingAssumption DEF RightlySpelt, Shape, PaymentIDToBytes, Texts, Text
<1>4. Digest(permit, at) = signed
  BY DigestIsOnChain DEF SignedByRule
<1>5. BuyerOf(permit, at) = Buyer
  <2>1. permit.buyer \in AnyText /\ permit.buyer.form \in Customary(at.network)
    BY <1>1 DEF Fields
  <2>2. CASE at.network \in TronNetworks
    <3>1. ToHex(permit.buyer) = Text("0x", Buyer) /\ Text("0x", Buyer) # Error
      BY <2>1, <2>2, TextParts, TextInAnyText DEF ToHex, Customary, Agreed, Forms, Accounts
    <3> QED BY <2>2, <3>1, Deployed DEF BuyerOf, Text
  <2>3. CASE at.network \notin TronNetworks
    BY <2>1, <2>3, Deployed DEF BuyerOf, HexToAddress, Customary, Agreed
  <2> QED BY <2>2, <2>3
<1> QED BY <1>2, <1>3, <1>4, <1>5 DEF Accepted

\* What passes Verify is agreed, however it is spelt.
LEMMA AcceptedAgreed ==
  ASSUME Terms, Shape, Accepted
  PROVE  Agreed
<1>1. /\ permit.buyer \in AnyText /\ permit.payTo \in AnyText
      /\ permit.payToken \in AnyText /\ permit.feeTo \in AnyText
  BY DEF Shape
<1>2. at.mechanism \in {"evm", "tron", "auth"}
  BY Deployed
<1>3. permit.payTo.account = Merchant
  BY <1>1, <1>2, NormAccount, TermsAreTexts DEF Accepted, Matches
<1>4. permit.payToken.account = Token
  BY <1>1, <1>2, NormAccount, TermsAreTexts, AuthorizedTexts DEF Accepted, Matches
<1>5. permit.feeTo.account \in {Zero, Facilitator}
  BY <1>1, <1>2, NormAccount, TermsAreTexts, AuthorizedTexts DEF Accepted, Matches, Text
<1>6. permit.buyer.account = Buyer
  <2>1. Buyer # Zero /\ Buyer # Error
    BY EncodingAssumption DEF Accounts
  <2>2. CASE at.signer = "evm"
    BY <2>1, <2>2 DEF Accepted, BuyerOf, HexToAddress
  <2>3. CASE at.signer # "evm"
    BY <2>1, <2>3 DEF Accepted, BuyerOf, ToHex, Text
  <2> QED BY <2>2, <2>3
<1> QED BY <1>3, <1>4, <1>5, <1>6 DEF Agreed

\* What passes Verify with the network's own mechanism reaches the contract as it was
\* signed.
LEMMA AcceptedSubmitted ==
  ASSUME Terms, Shape, Accepted, OwnMechanism, at.mechanism = "auth" => TokenFound
  PROVE  OnChain(at, Target(at), Arguments) = signed
<1>1. Digest(permit, at) = signed
  BY DEF Accepted
<1>2. \A f \in Fields : permit[f] \in AnyText
  BY DEF Shape, Fields
<1>3. /\ Arguments.buyer = Arg(permit.buyer, at) /\ Arguments.payTo = Arg(permit.payTo, at)
  BY DEF Arguments, Fields
<1>4. CASE at.mechanism = "auth"
  <2>1. Target(at) = HexToAddress(req.payToken)
    BY <1>4, Deployed DEF Target
  <2>2. /\ Arguments.buyer = HexToAddress(permit.buyer)
        /\ Arguments.payTo = HexToAddress(permit.payTo)
    BY <1>3, <1>4 DEF Arg, ArgEvm
  <2>4. LookedUpDomain(at.network) = TokenDomain
    BY <1>4 DEF TokenFound, LookedUpDomain
  <2>3. AuthorizationDigest(permit, at.network)
        = AuthorizationOnChain(HexToAddress(req.payToken), ChainID[at.network], TokenDomain,
                               Arguments, Numbers)
    BY <2>2, <2>4, Deployed, AuthorizationDigestRead
  <2> QED BY <1>1, <1>4, <2>1, <2>3 DEF Digest, OnChain
<1>5. CASE at.mechanism # "auth"
  <2>1. Target(at) = HexToAddress(DomainContract(at.network))
    BY <1>5, Deployed, DomainAccount DEF Target
  <2>2. \A f \in Fields : Arg(permit[f], at) = HexToAddress(Convert(permit[f]))
    <3>1. CASE at.mechanism = "tron"
      <4>1. \A f \in Fields : Arg(permit[f], at) = permit[f].account
        BY <1>2, <3>1, TextParts DEF Arg, ArgTron, Empty, Text
      <4> QED BY <1>2, <4>1, ConvertHex
    <3>2. CASE at.mechanism = "evm"
      <4>1. at.network \notin TronNetworks
        BY <3>2 DEF OwnMechanism
      <4>2. \A t \in AnyText : Norm(t, at).form = "base58" <=> t.form = "base58"
        BY <3>2, <4>1 DEF Norm, NormEvm, Text, Empty
      <4>3. /\ Norm(req.payTo, at).form # "base58" /\ Norm(req.payToken, at).form # "base58"
            /\ Norm(feeTo, at).form # "base58"
        BY <4>1, <4>2, TermsAreTexts DEF Customary
      <4>4. Text("0x", Zero).form # "base58"
        BY DEF Text
      <4>5. /\ permit.payTo.form # "base58" /\ permit.payToken.form # "base58"
            /\ permit.feeTo.form # "base58"
        BY <1>2, <1>5, <4>2, <4>3, <4>4 DEF Fields, Accepted, Matches
      <4>6. permit.buyer.form # "base58"
        BY <4>1, Deployed, EncodingAssumption DEF Accepted, BuyerOf, HexToAddress
      <4>7. \A f \in Fields : permit[f].form # "base58"
        BY <4>5, <4>6 DEF Fields
      <4> QED BY <3>2, <4>7 DEF Arg, ArgEvm, Convert
    <3> QED BY <1>5, <3>1, <3>2, Deployed
  <2>3. Arguments = Read(permit)
    BY <2>2 DEF Arguments, Read
  <2>4. PermitDigest(permit, at.network, DomainContract(at.network))
        = PermitOnChain(Target(at), ChainID[at.network], Arguments, Numbers)
    BY <2>1, <2>3, Deployed, PermitDigestRead
  <2> QED BY <1>1, <1>5, <2>4 DEF Digest, OnChain
<1> QED BY <1>4, <1>5

-----------------------------------------------------------------------------
LEMMA EncodingInit == Init => EncodingInv
BY DEF Init, EncodingInv, Terms

LEMMA AskedTexts ==
  ASSUME Terms
  PROVE  \A f \in Fields : Asked(f) \in AnyText /\ Asked(f).form \in Customary(at.network)
<1>1. /\ Text("0x", Buyer) \in AnyText /\ Text("0x", Buyer).form \in Customary(at.network)
      /\ Text("0x", Zero) \in AnyText /\ Text("0x", Zero).form \in Customary(at.network)
  BY TextInAnyText DEF Forms, Accounts, Customary
<1> QED BY <1>1, TermsAreTexts DEF Asked, Fields

\* A client that signs leaves Shape and SignedByRule behind.
LEMMA SigningStep ==
  ASSUME EncodingInv, SignEvm \/ SignTron \/ SignAuthorization \/ SignElsewhere
  PROVE  EncodingInv'
<1>1. Terms /\ UNCHANGED <<at, feeTo, req>>
  BY DEF EncodingInv, SignEvm, SignTron, SignAuthorization, SignElsewhere
<1>2. Terms'
  BY <1>1 DEF Terms
<1>3. stage' \in {"failed", "signed"}
  BY DEF SignEvm, SignTron, SignAuthorization, SignElsewhere
<1>4. SUFFICES ASSUME stage' = "signed"
               PROVE  Shape' /\ SignedByRule'
  BY <1>2, <1>3 DEF EncodingInv
<1>5. Text("0x", PaymentID) \in Texts({"0x", "bare"}, {PaymentID})
  BY DEF Texts
<1>6. CASE SignEvm
  <2>1. at.mechanism # "auth" /\ at.network \notin TronNetworks
    BY <1>6 DEF SignEvm
  <2>2. permit' = [f \in Fields \cup {"paymentId"} |->
                     IF f = "paymentId" THEN Text("0x", PaymentID) ELSE Asked(f)]
    BY <1>6 DEF SignEvm, Filled, Unread
  <2>3. Shape'
    BY <1>1, <1>5, <2>1, <2>2, AskedTexts DEF Shape, Fields
  <2>4. signed' = PermitDigest(permit', at.network, DomainContract(at.network))
    BY <1>6, <2>1 DEF SignEvm, DomainContract
  <2>5. signed' = Digest(permit, at)'
    BY <1>1, <2>1, <2>4 DEF Digest
  <2> QED BY <2>3, <2>5 DEF SignedByRule
<1>7. CASE SignTron
  <2>1. at.mechanism # "auth" /\ at.network \in TronNetworks
    BY <1>1, <1>7, Deployed DEF SignTron
  <2>2. /\ permit' = Filled(ToHex)
        /\ signed' = PermitDigest(permit', at.network, ToHex(Contract[at.network]))
    BY <1>4, <1>7 DEF SignTron
  <2>3. permit' = [f \in Fields \cup {"paymentId"} |->
                     IF f = "paymentId" THEN Text("0x", PaymentID) ELSE ToHex(Asked(f))]
    BY <2>2 DEF Filled
  <2>4. \A t \in AnyText : t.form \in Customary(at.network) => ToHex(t) \in AnyText
    BY <2>1, TextParts, TextInAnyText DEF Customary, ToHex, Forms
  <2>5. Shape'
    BY <1>1, <1>5, <2>1, <2>3, <2>4, AskedTexts DEF Shape, Fields
  <2>6. signed' = Digest(permit, at)'
    BY <1>1, <2>1, <2>2 DEF Digest, DomainContract
  <2> QED BY <2>5, <2>6 DEF SignedByRule
<1>8. CASE SignAuthorization
  <2>1. /\ at.mechanism = "auth" /\ permit' = Authorized(Text("0x", Buyer), req.payTo)
        /\ signed' = AuthorizationDigest(permit', at.network)
    BY <1>8 DEF SignAuthorization
  <2>2. Text("0x", Buyer) \in AnyText /\ Text("0x", Zero) \in AnyText
    BY TextInAnyText DEF Forms, Accounts
  <2>3. Shape'
    BY <1>1, <1>5, <2>1, <2>2, TermsAreTexts DEF Shape, Authorized
  <2>4. signed' = Digest(permit, at)'
    BY <1>1, <2>1 DEF Digest, AuthorizationDigest, LookedUpDomain, FindByAddress
  <2> QED BY <2>3, <2>4 DEF SignedByRule
<1>9. CASE SignElsewhere
  <2>1. PICK wrong \in Fields \cup {"none"} : permit' \in Writes(wrong)
    BY <1>9 DEF SignElsewhere
  <2>2. \A form \in Forms, a \in Accounts : Text(form, a) \in AnyText
    BY TextInAnyText
  <2>3. {Stranger, Buyer, Token, Merchant, Facilitator, Zero} \subseteq Accounts
    BY DEF Accounts
  <2>4. Shape'
    <3>1. CASE at.mechanism = "auth"
      <4>1. PICK buyer \in AnyText, payee \in AnyText : permit' = Authorized(buyer, payee)
        BY <2>1, <2>2, <2>3, <3>1 DEF Writes, Texts
      <4>2. Text("0x", Zero) \in AnyText
        BY TextInAnyText DEF Forms, Accounts
      <4> QED BY <1>1, <1>5, <4>1, <4>2, TermsAreTexts DEF Shape, Authorized
    <3>2. CASE at.mechanism # "auth"
      <4>1. \A form \in Forms : Text(form, Zero) \in AnyText
        BY <2>2, <2>3
      <4>2. \A a \in Accounts : Texts(Forms, {a}) \subseteq AnyText
        BY <2>2 DEF Texts
      <4>3. \A a \in Accounts : Texts(Forms, {Zero, a}) \cup {Empty} \subseteq AnyText
        BY <2>2, <2>3 DEF Texts, AnyText
      <4> QED BY <1>1, <2>1, <2>3, <3>2, <4>2, <4>3 DEF Shape, Writes
    <3> QED BY <3>1, <3>2
  <2>5. signed' = OnChain(at, ContractAccount, Spelt(permit'))
    BY <1>9 DEF SignElsewhere
  <2>6. signed' = OnChain(at, ContractAccount, Spelt(permit))'
    BY <1>1, <2>5 DEF OnChain, ContractAccount, Spelt
  <2> QED BY <2>4, <2>6 DEF SignedByRule
<1> QED BY <1>6, <1>7, <1>8, <1>9

LEMMA EncodingStep == EncodingInv /\ [Next]_vars => EncodingInv'
<1> SUFFICES ASSUME EncodingInv, [Next]_vars PROVE EncodingInv'
  OBVIOUS
<1>1. CASE SignEvm \/ SignTron \/ SignAuthorization \/ SignElsewhere
  BY <1>1, SigningStep
<1>2. CASE Verify \/ Settle \/ UNCHANGED vars
  <2>1. UNCHANGED <<at, feeTo, req, permit, signed>>
    BY <1>2 DEF Verify, Settle, vars
  <2>2. /\ Terms' = Terms /\ Shape' = Shape /\ SignedByRule' = SignedByRule
        /\ Accepted' = Accepted /\ Target(at)' = Target(at) /\ Arguments' = Arguments
    BY <2>1 DEF Terms, Shape, SignedByRule, Accepted, Target, Arguments, Authorized,
                QuotedFeeTo, Digest, AuthorizationDigest, LookedUpDomain, OnChain,
                ContractAccount, Spelt, Matches, BuyerOf
  <2>3. CASE Verify
    BY <2>2, <2>3 DEF Verify, EncodingInv
  <2>4. CASE Settle
    BY <2>2, <2>4 DEF Settle, EncodingInv
  <2>5. CASE UNCHANGED vars
    BY <2>2, <2>5 DEF vars, EncodingInv
  <2> QED BY <1>2, <2>3, <2>4, <2>5
<1> QED BY <1>1, <1>2 DEF Next

LEMMA EncodingInvariant == Spec => []EncodingInv
BY EncodingInit, EncodingStep, PTL DEF Spec

\* For whatever accounts a rightly spelt permit is signed, code and contract hash the
\* same; for an authorization, if the registry finds the token.
THEOREM CodeHashesAsContract == Spec => []HashedAsOnChain
<1>1. EncodingInv => HashedAsOnChain
  BY DigestIsOnChain DEF EncodingInv, HashedAsOnChain
<1> QED BY <1>1, EncodingInvariant, PTL

\* No rightful permit, of this client or another wallet, is refused for a customary
\* spelling of a token that is found.
THEOREM SpellingFree == Spec => []SpellingIsFree
<1>1. EncodingInv => SpellingIsFree
  BY RightfulAccepted DEF EncodingInv, SpellingIsFree
<1> QED BY <1>1, EncodingInvariant, PTL

\* What Verify accepts pays whom the requirement names, in its token.
THEOREM VerifiedAgreed == Spec => []VerifiedIsAgreed
<1>1. EncodingInv => VerifiedIsAgreed
  BY AcceptedAgreed DEF EncodingInv, VerifiedIsAgreed
<1> QED BY <1>1, EncodingInvariant, PTL

\* With the network's own mechanism the contract is given what was signed; for an
\* authorization, if the registry finds the token.
THEOREM SubmittedAsSigned == Spec => []VerifiedIsSubmitted
<1>1. ASSUME EncodingInv, stage = "submitted", OwnMechanism,
             at.mechanism = "auth" => TokenFound
      PROVE  OnChain(at, submitted.target, submitted.arguments) = signed
  <2>1. Terms /\ Shape /\ Accepted
    BY <1>1 DEF EncodingInv
  <2>2. submitted.target = Target(at) /\ submitted.arguments = Arguments
    BY <1>1 DEF EncodingInv
  <2> QED BY <1>1, <2>1, <2>2, AcceptedSubmitted
<1>2. EncodingInv => VerifiedIsSubmitted
  BY <1>1 DEF VerifiedIsSubmitted
<1> QED BY <1>2, EncodingInvariant, PTL
=============================================================================
