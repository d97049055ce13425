------------------------------- MODULE Octets -------------------------------
(***************************************************************************)
(* The bytes that the cryptography of this program works on.  What a hash  *)
(* or a cipher makes of its input is a free symbol: two of them are equal  *)
(* only if they are made the same way of the same input.                   *)
(***************************************************************************)
EXTENDS Integers, Sequences

Byte(n) == <<"byte", n>>                     \* the number n
Octet(name, i) == <<"octet", name, i>>       \* byte i of something that is given
Unset == <<"unset">>                         \* of memory that has not been written
Xored(b, n) == <<"xor", b, n>>
HashOctet(blocks, i) == <<"hash", blocks, i>>  \* byte i of the hash of some blocks

Given(name, n) == [i \in 1 .. n |-> Octet(name, i)]
Filled(n, b) == [i \in 1 .. n |-> b]
First(s, n) == SubSeq(s, 1, n)
After(s, n) == SubSeq(s, n + 1, Len(s))

\* n in k bytes, the most significant first (n is below 2^31).
BigEndian(n, k) ==
  LET weight == <<1, 256, 65536, 16777216>>
  IN  [i \in 1 .. k |-> Byte(IF k - i > 3 THEN 0 ELSE (n \div weight[k - i + 1]) % 256)]

\* buf with s written to it behind its first n bytes.
Overwritten(buf, n, s) ==
  [i \in 1 .. Len(buf) |-> IF i > n /\ i <= n + Len(s) THEN s[i - n] ELSE buf[i]]

=============================================================================
