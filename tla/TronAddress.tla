------------------------------ MODULE TronAddress ---------------------------
(***************************************************************************)
(* tron/address.go: HexToBase58 and Base58ToHex, with the code's bases 256 *)
(* and 58.  A text is a sequence of digits 0..57 (the alphabet is left     *)
(* out); addresses and checksums are shorter than the code's 20 and 4      *)
(* bytes, and the checksum is a constant function in place of SHA-256.     *)
(***************************************************************************)
EXTENDS Integers, Sequences

CONSTANTS Bytes,          \* bound: the bytes an address is made of
          AddressLen,     \* 20 in the code
          CheckLen,       \* 4 in the code
          Prefix,         \* 0x41
          Checksum(_),    \* external: the first bytes of SHA-256 taken twice
          Error,          \* the error return
          Unread

VARIABLES address,        \* what is encoded
          text,           \* its base58 text, or a misspelling of it
          intact,         \* the text is the one HexToBase58 gave
          back            \* what Base58ToHex made of the text

vars == <<address, text, intact, back>>

ASSUME AddressAssumption ==
  /\ Bytes \subseteq 0..255 /\ Prefix \in 0..255
  /\ AddressLen \in Nat /\ CheckLen \in Nat

Addresses == [1..AddressLen -> Bytes]

ASSUME ChecksumAssumption ==
  \A a \in Addresses : Checksum(<<Prefix>> \o a) \in [1..CheckLen -> 0..255]

Digits == 0..57
Zeros(n) == [i \in 1..n |-> 0]
LeadingZeros(s) == IF \E i \in DOMAIN s : s[i] # 0
                   THEN (CHOOSE i \in DOMAIN s : s[i] # 0 /\ \A j \in 1..(i - 1) : s[j] = 0) - 1
                   ELSE Len(s)
SkipZeros(s) == SubSeq(s, LeadingZeros(s) + 1, Len(s))

\* What digits stand for: the loop that multiplies by the base and adds a digit.
Number(base, s) ==
  LET n[i \in 0..Len(s)] == IF i = 0 THEN 0 ELSE base * n[i - 1] + s[i]
  IN  n[Len(s)]

\* One round of the encoder: the buffer, a number in base 58, times 256 plus a byte;
\* the carry goes through the digits from the last to the first.
AddByte(buf, v) ==
  LET size == Len(buf)
      carry[j \in 0..size] ==
        IF j = 0 THEN v ELSE (256 * buf[size + 1 - j] + carry[j - 1]) \div 58
  IN  [j \in 1..size |-> (256 * buf[j] + carry[size - j]) % 58]

\* The buffer after all bytes.
Buffer(b) ==
  LET buf[i \in 0..Len(b)] ==
        IF i = 0 THEN Zeros((Len(b) * 138) \div 100 + 1) ELSE AddByte(buf[i - 1], b[i])
  IN  buf[Len(b)]

\* mutant: the unused digits in front of the buffer are written too
EncodeWholeBuffer(b) == Zeros(LeadingZeros(b)) \o Buffer(b)

\* base58Encode: a '1' for each leading zero byte, then the number.
Base58Encode(b) == Zeros(LeadingZeros(b)) \o SkipZeros(Buffer(b))

\* big.Int.Bytes: the bytes of a number without leading zeros.
NumBytes[n \in Nat] == IF n = 0 THEN <<>> ELSE Append(NumBytes[n \div 256], n % 256)

\* mutant: leading '1's are not counted
DecodeNumberOnly(s) == NumBytes[Number(58, s)]

\* base58Decode: a zero byte for each leading '1', then the number.
Base58Decode(s) == Zeros(LeadingZeros(s)) \o NumBytes[Number(58, s)]

HexToBase58(a) == LET payload == <<Prefix>> \o a
                  IN  Base58Encode(payload \o Checksum(payload))

\* The length, the checksum and the prefix are checked, in this order.
Base58ToHex(s) ==
  IF s = <<>> THEN Error
  ELSE LET decoded == Base58Decode(s)
           payload == SubSeq(decoded, 1, AddressLen + 1)
           checksum == SubSeq(decoded, AddressLen + 2, Len(decoded))
       IN  IF Len(decoded) # AddressLen + 1 + CheckLen THEN Error
           ELSE IF checksum # Checksum(payload) \/ payload[1] # Prefix THEN Error
           ELSE Tail(payload)

Init == /\ address \in Addresses
        /\ text = HexToBase58(address)
        /\ intact = TRUE
        /\ back = Unread

\* Somebody gets one character wrong, doubles, adds or loses one in front.
Misspell == /\ back = Unread /\ intact
            /\ intact' = FALSE
            /\ \/ \E i \in DOMAIN text, d \in Digits : text' = [text EXCEPT ![i] = d]
               \/ \E d \in {0, text[1]} : text' = <<d>> \o text
               \/ text' = Tail(text)
            /\ UNCHANGED <<address, back>>

Read == /\ back = Unread
        /\ back' = Base58ToHex(text)
        /\ UNCHANGED <<address, text, intact>>

Next == Misspell \/ Read

Spec == Init /\ [][Next]_vars

-----------------------------------------------------------------------------
\* What HexToBase58 writes, Base58ToHex reads.
RoundTrip == back # Unread /\ intact => back = address

\* An address has one spelling: what Base58ToHex accepts is what HexToBase58 writes,
\* so FindByAddress may compare base58 texts where validatePermit compares bytes.
OneSpelling == back \notin {Unread, Error} => text = HexToBase58(back)
=============================================================================
