----------------------------- MODULE AddressText ----------------------------
(***************************************************************************)
(* The texts in which an address is written, and the readers the whole     *)
(* program shares: go-ethereum's HexToAddress, and tron/address.go.        *)
(***************************************************************************)
CONSTANTS Zero,           \* the zero account
          Error           \* the error return

Fields == {"buyer", "payToken", "payTo", "feeTo"}

\* A text of an account: 0x and 40 digits, the 40 digits alone, base58, or no text
\* at all, which only stands for Zero.  Case is left out: it is folded everywhere.
Text(form, account) == [form |-> form, account |-> account]
Empty == Text("empty", Zero)
Texts(forms, accounts) == {Text(f, a) : f \in forms, a \in accounts}
Forms == {"0x", "bare", "base58"}

\* common.HexToAddress skips a 0x and is silent about what is not hexadecimal.
HexToAddress(t) == IF t.form \in {"0x", "bare"} THEN t.account ELSE Zero

\* tron.ToHex takes base58 and 0x.
ToHex(t) == IF t.form \in {"0x", "base58"} THEN Text("0x", t.account) ELSE Error

\* base58ToApiHex, by which the Tron node's API is called, takes base58 alone.
ToApiHex(t) == IF t.form = "base58" THEN t.account ELSE Error
=============================================================================
