----------------------------- MODULE BigNumbers -----------------------------
(***************************************************************************)
(* crypto/bignum: the numbers of RSA, word by word.  RsaSlots and RsaSlow  *)
(* calculate with integers; this is why they may.  A number is a sequence  *)
(* of words, the lowest first, as the code has it; a word has BITS bits    *)
(* here, and there are WORDS of them where the code has 16 or 32.          *)
(***************************************************************************)
EXTENDS Integers, Sequences

CONSTANTS WORDS, BITS,
          BnValues,    \* numbers to multiply, and to divide products by
          BnPowers,    \* <<message, exponent, modulus>> to exponentiate
          BnTexts      \* sequences of hexadecimal digits to parse

\* b to the power of k, of any width.
Raised(b, k) ==
  LET power[j \in Nat] == IF j = 0 THEN 1 ELSE b * power[j - 1] IN power[k]

WordBase == Raised(2, BITS)

\* A word is some hexadecimal digits; the numbers fit, and nothing is divided by 0.
ASSUME BnAssumption ==
  /\ WORDS \in Nat \ {0} /\ BITS \in Nat \ {0} /\ BITS % 4 = 0
  /\ LET Fitting == 0 .. Raised(WordBase, WORDS) - 1
     IN  /\ BnValues \subseteq Fitting
         /\ BnPowers \subseteq Fitting \X Fitting \X (Fitting \ {0})
  /\ BnTexts \subseteq Seq(0 .. 15)

VARIABLES bnDoing, \* the call that has been made, with the integers it is made for
          bn,      \* the number it has made
          bnPower  \* the exponentiation under way

bnVars == <<bnDoing, bn, bnPower>>

\* The n words of f.  (SubSeq has TLC compute them at once.)
Words(n, f) == SubSeq(f, 1, n)

BnZer(n) == Words(n, [i \in 1 .. n |-> 0])
One(n) == Words(n, [i \in 1 .. n |-> IF i = 1 THEN 1 ELSE 0])

-----------------------------------------------------------------------------
(* bn-asm.s: a carry goes from word to word. *)

\* What the addition of word k carries over to the next.
Carries(a, b) ==
  LET carry[k \in 0 .. Len(a)] ==
        IF k = 0 THEN 0 ELSE (a[k] + b[k] + carry[k - 1]) \div WordBase
  IN  carry

BnAdd(a, b) ==
  LET carry == Carries(a, b)
  IN  Words(Len(a), [i \in 1 .. Len(a) |-> (a[i] + b[i] + carry[i - 1]) % WordBase])

BnInc(a) == BnAdd(a, One(Len(a)))

\* 1 if word k takes one from the next.
Borrows(a, b) ==
  LET borrow[k \in 0 .. Len(a)] ==
        IF k = 0 THEN 0 ELSE IF a[k] < b[k] + borrow[k - 1] THEN 1 ELSE 0
  IN  borrow

BnSub(a, b) ==
  LET borrow == Borrows(a, b)
  IN  Words(Len(a), [i \in 1 .. Len(a) |-> (a[i] - b[i] - borrow[i - 1]) % WordBase])

\* Mutant: the bit that is shifted out is lost.
BnShlNarrow(a, bit) ==
  [n |-> Words(Len(a), [i \in 1 .. Len(a) |->
           ((2 * a[i]) % WordBase) + (IF i = 1 THEN bit ELSE (2 * a[i - 1]) \div WordBase)]),
   out |-> 0]

\* A bit is shifted in below and one comes out above, or the other way round.
BnShl(a, bit) ==
  [n |-> Words(Len(a), [i \in 1 .. Len(a) |->
           ((2 * a[i]) % WordBase) + (IF i = 1 THEN bit ELSE (2 * a[i - 1]) \div WordBase)]),
   out |-> (2 * a[Len(a)]) \div WordBase]

BnShr(a, bit) ==
  Words(Len(a), [i \in 1 .. Len(a) |->
    (a[i] \div 2) + (WordBase \div 2) * (IF i = Len(a) THEN bit ELSE a[i + 1] % 2)])

BnIse(a) == \A i \in 1 .. Len(a) : a[i] = 0

\* -1, 0 or 1: the highest word that differs decides.
BnCmp(a, b) ==
  LET differ == {i \in 1 .. Len(a) : a[i] # b[i]}
      highest == CHOOSE i \in differ : \A k \in differ : k <= i
  IN  IF differ = {} THEN 0 ELSE IF a[highest] > b[highest] THEN 1 ELSE -1

-----------------------------------------------------------------------------
(* bn-arithmetic.c *)

\* The product of words i and j, in the two words where it belongs.
Product(a, b, i, j) ==
  LET intermediate == a[i] * b[j]
  IN  Words(2 * Len(a), [k \in 1 .. 2 * Len(a) |->
        IF k = i + j - 1 THEN intermediate % WordBase
        ELSE IF k = i + j THEN intermediate \div WordBase ELSE 0])

\* The inner loop, and the outer one.
Row(a, b, i) ==
  LET row[j \in 0 .. Len(b)] ==
        IF j = 0 THEN BnZer(2 * Len(a))
        ELSE IF b[j] = 0 THEN row[j - 1]
        ELSE BnAdd(row[j - 1], Product(a, b, i, j))
  IN  row[Len(b)]

BnMul(a, b) ==
  LET rows[i \in 0 .. Len(a)] ==
        IF i = 0 THEN BnZer(2 * Len(a))
        ELSE IF a[i] = 0 THEN rows[i - 1]
        ELSE BnAdd(rows[i - 1], Row(a, b, i))
  IN  rows[Len(a)]

\* The remainder so far takes one more bit.
RemainderTaken(r, d, bit) ==
  LET shifted == BnShl(r, bit)
  IN  IF shifted.out = 1 \/ BnCmp(shifted.n, d) # -1 THEN BnSub(shifted.n, d) ELSE shifted.n

\* Bit i of a number.
Bit(num, i) == (num[(i \div BITS) + 1] \div Raised(2, i % BITS)) % 2

\* From the highest bit down.
BnRem(num, d) ==
  LET bits == BITS * Len(num)
      after[k \in 0 .. bits] ==
        IF k = 0 THEN BnZer(Len(d)) ELSE RemainderTaken(after[k - 1], d, Bit(num, bits - k))
  IN  after[bits]

-----------------------------------------------------------------------------
(* bn-modexp.c *)

BnModExpStart(message, exponent, modulus) ==
  [m |-> BnRem(message, modulus), e |-> exponent, n |-> modulus,
   r |-> One(Len(modulus))]

\* Mutant: the message is squared before it is used.
BnModExpIterateSquareFirst(x) ==
  LET m == BnRem(BnMul(x.m, x.m), x.n)
  IN  [m |-> m, e |-> BnShr(x.e, 0), n |-> x.n,
       r |-> IF x.e[1] % 2 = 1 THEN BnRem(BnMul(x.r, m), x.n) ELSE x.r]

BnModExpIterate(x) ==
  [m |-> BnRem(BnMul(x.m, x.m), x.n), e |-> BnShr(x.e, 0), n |-> x.n,
   r |-> IF x.e[1] % 2 = 1 THEN BnRem(BnMul(x.r, x.m), x.n) ELSE x.r]

-----------------------------------------------------------------------------
(* bn-text.c *)

DigitsPerWord == BITS \div 4

\* Digit k of a text, from the last one back; any other character counts as a zero.
DigitOf(text, k) ==
  IF k < Len(text) /\ text[Len(text) - k] \in 0 .. 15 THEN text[Len(text) - k] ELSE 0

\* As many digits as the number has room for.
BnParseHex(text) ==
  LET word(i) ==
        LET parsed[k \in 0 .. DigitsPerWord] ==
              IF k = 0 THEN 0
              ELSE parsed[k - 1]
                     + DigitOf(text, DigitsPerWord * (i - 1) + k - 1) * Raised(16, k - 1)
        IN  parsed[DigitsPerWord]
  IN  Words(WORDS, [i \in 1 .. WORDS |-> word(i)])

\* BnAsHttp: the words from the highest down, each with all its digits.
BnAsHttp(a) ==
  [k \in 1 .. DigitsPerWord * Len(a) |->
     LET place == DigitsPerWord * Len(a) - k
     IN  (a[(place \div DigitsPerWord) + 1] \div Raised(16, place % DigitsPerWord)) % 16]

-----------------------------------------------------------------------------
\* The number of some words.
NumberOf(v, words) ==
  Words(words, [i \in 1 .. words |-> (v \div Raised(WordBase, i - 1)) % WordBase])

BnInit ==
  /\ bnDoing = <<"nothing">> /\ bn = <<>>
  /\ bnPower = [m |-> <<>>, e |-> <<>>, n |-> <<>>, r |-> <<>>]

Multiply(a, b) ==
  /\ bnDoing = <<"nothing">> /\ bnDoing' = <<"multiply", a, b>>
  /\ bn' = BnMul(NumberOf(a, WORDS), NumberOf(b, WORDS))
  /\ UNCHANGED bnPower

\* The product that has been made is divided.
Divide(d) ==
  /\ bnDoing[1] = "multiply" /\ bnDoing' = <<"divide", bnDoing[2] * bnDoing[3], d>>
  /\ bn' = BnRem(bn, NumberOf(d, WORDS))
  /\ UNCHANGED bnPower

Exponentiate(power) ==
  /\ bnDoing = <<"nothing">> /\ bnDoing' = <<"power", power>>
  /\ bnPower' = BnModExpStart(NumberOf(power[1], WORDS), NumberOf(power[2], WORDS),
                              NumberOf(power[3], WORDS))
  /\ UNCHANGED bn

Iterate ==
  /\ bnDoing[1] = "power"
  /\ bnPower' = BnModExpIterate(bnPower)
  /\ bnDoing' = IF BnIse(bnPower'.e) THEN <<"powered", bnDoing[2]>> ELSE bnDoing
  /\ UNCHANGED bn

ParseAndShow(text) ==
  /\ bnDoing = <<"nothing">> /\ bnDoing' = <<"parse", text>>
  /\ bn' = BnAsHttp(BnInc(BnParseHex(text)))
  /\ UNCHANGED bnPower

BnNext ==
  \/ \E a \in BnValues, b \in BnValues : Multiply(a, b)
  \/ \E d \in BnValues \ {0} : Divide(d)
  \/ \E power \in BnPowers : Exponentiate(power)
  \/ Iterate
  \/ \E text \in BnTexts : ParseAndShow(text)

BnSpec == BnInit /\ [][BnNext]_bnVars

-----------------------------------------------------------------------------
(***************************************************************************)
(* Properties                                                              *)
(***************************************************************************)

\* The integer that a number is.
IntegerOf(number) ==
  LET sum[k \in 0 .. Len(number)] ==
        IF k = 0 THEN 0 ELSE sum[k - 1] + number[k] * Raised(WordBase, k - 1)
  IN  sum[Len(number)]

\* The integer that the last digits of a text are, those that fit.
IntegerIn(text) ==
  LET value[k \in 0 .. Len(text)] ==
        IF k = 0 THEN 0 ELSE (16 * value[k - 1] + text[k]) % Raised(WordBase, WORDS)
  IN  value[Len(text)]

\* Products, remainders - for a divisor whose top bit is set too, when a bit comes
\* out of the remainder - and a text read, increased by one and shown again are
\* those of the integers.
BnIsArithmetic ==
  CASE bnDoing[1] = "multiply" -> IntegerOf(bn) = bnDoing[2] * bnDoing[3]
    [] bnDoing[1] = "divide" -> IntegerOf(bn) = bnDoing[2] % bnDoing[3]
    [] bnDoing[1] = "parse" ->
         IntegerIn(bn) = (IntegerIn(bnDoing[2]) + 1) % Raised(WordBase, WORDS)
    [] OTHER -> TRUE

\* m to the power of e modulo n, by halves.
PowerOf(m, e, n) ==
  LET power[k \in Nat] ==
        IF k = 0 THEN 1 % n
        ELSE LET half == power[k \div 2]
                 square == (half * half) % n
             IN  IF k % 2 = 1 THEN (square * m) % n ELSE square
  IN  power[e]

\* All along, the result so far times the message to what is left of the exponent is
\* the power that is wanted, and at the end the result is.
ModExpIsPower ==
  bnDoing[1] \in {"power", "powered"} =>
    LET p == bnDoing[2]
        n == p[3]
    IN  (IntegerOf(bnPower.r) * PowerOf(IntegerOf(bnPower.m), IntegerOf(bnPower.e), n)) % n
          = PowerOf(p[1] % n, p[2], n)

=============================================================================
