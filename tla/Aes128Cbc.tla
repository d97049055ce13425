----------------------------- MODULE Aes128Cbc -----------------------------
(***************************************************************************)
(* crypto/aes-cbc/aes128cbc.c, byte for byte: the cipher of the records of *)
(* a connection.  Of the 16 bytes of a block, byte 4*c + r is the one in   *)
(* column c and row r.                                                     *)
(***************************************************************************)
EXTENDS Integers, Sequences, Bitwise

CONSTANT Vectors   \* published examples: key, iv, and what plain becomes

VARIABLES cbc,     \* the example under way
          cbcBuf,  \* the buffer that is encrypted and decrypted in place
          cbcStep  \* "plain", "encrypted", "decrypted"

cbcVars == <<cbc, cbcBuf, cbcStep>>

NB == 4
NK == 4
NR == 10

\* Exclusive or of bytes, by their halves.
XorOfHalves == [a \in 0 .. 15, b \in 0 .. 15 |-> a ^^ b]
a (+) b == 16 * XorOfHalves[a \div 16, b \div 16] + XorOfHalves[a % 16, b % 16]

sbox ==
 <<99, 124, 119, 123, 242, 107, 111, 197, 48, 1, 103, 43, 254, 215, 171, 118, 202, 130, 201, 125,
   250, 89, 71, 240, 173, 212, 162, 175, 156, 164, 114, 192, 183, 253, 147, 38, 54, 63, 247, 204,
   52, 165, 229, 241, 113, 216, 49, 21, 4, 199, 35, 195, 24, 150, 5, 154, 7, 18, 128, 226, 235,
   39, 178, 117, 9, 131, 44, 26, 27, 110, 90, 160, 82, 59, 214, 179, 41, 227, 47, 132, 83, 209, 0,
   237, 32, 252, 177, 91, 106, 203, 190, 57, 74, 76, 88, 207, 208, 239, 170, 251, 67, 77, 51, 133,
   69, 249, 2, 127, 80, 60, 159, 168, 81, 163, 64, 143, 146, 157, 56, 245, 188, 182, 218, 33, 16,
   255, 243, 210, 205, 12, 19, 236, 95, 151, 68, 23, 196, 167, 126, 61, 100, 93, 25, 115, 96, 129,
   79, 220, 34, 42, 144, 136, 70, 238, 184, 20, 222, 94, 11, 219, 224, 50, 58, 10, 73, 6, 36, 92,
   194, 211, 172, 98, 145, 149, 228, 121, 231, 200, 55, 109, 141, 213, 78, 169, 108, 86, 244, 234,
   101, 122, 174, 8, 186, 120, 37, 46, 28, 166, 180, 198, 232, 221, 116, 31, 75, 189, 139, 138,
   112, 62, 181, 102, 72, 3, 246, 14, 97, 53, 87, 185, 134, 193, 29, 158, 225, 248, 152, 17, 105,
   217, 142, 148, 155, 30, 135, 233, 206, 85, 40, 223, 140, 161, 137, 13, 191, 230, 66, 104, 65,
   153, 45, 15, 176, 84, 187, 22>>

rsbox ==
 <<82, 9, 106, 213, 48, 54, 165, 56, 191, 64, 163, 158, 129, 243, 215, 251, 124, 227, 57, 130,
   155, 47, 255, 135, 52, 142, 67, 68, 196, 222, 233, 203, 84, 123, 148, 50, 166, 194, 35, 61,
   238, 76, 149, 11, 66, 250, 195, 78, 8, 46, 161, 102, 40, 217, 36, 178, 118, 91, 162, 73, 109,
   139, 209, 37, 114, 248, 246, 100, 134, 104, 152, 22, 212, 164, 92, 204, 93, 101, 182, 146, 108,
   112, 72, 80, 253, 237, 185, 218, 94, 21, 70, 87, 167, 141, 157, 132, 144, 216, 171, 0, 140,
   188, 211, 10, 247, 228, 88, 5, 184, 179, 69, 6, 208, 44, 30, 143, 202, 63, 15, 2, 193, 175,
   189, 3, 1, 19, 138, 107, 58, 145, 17, 65, 79, 103, 220, 234, 151, 242, 207, 206, 240, 180, 230,
   115, 150, 172, 116, 34, 231, 173, 53, 133, 226, 249, 55, 232, 28, 117, 223, 110, 71, 241, 26,
   113, 29, 41, 197, 137, 111, 183, 98, 14, 170, 24, 190, 27, 252, 86, 62, 75, 198, 210, 121, 32,
   154, 219, 192, 254, 120, 205, 90, 244, 31, 221, 168, 51, 136, 7, 199, 49, 177, 18, 16, 89, 39,
   128, 236, 95, 96, 81, 127, 169, 25, 181, 74, 13, 45, 229, 122, 159, 147, 201, 156, 239, 160,
   224, 59, 77, 174, 42, 245, 176, 200, 235, 187, 60, 131, 83, 153, 97, 23, 43, 4, 126, 186, 119,
   214, 38, 225, 105, 20, 99, 85, 33, 12, 125>>

Rcon == <<1, 2, 4, 8, 16, 32, 64, 128, 27, 54>>

\* n bytes, byte b of them Of(b), counted from 0 as in the code.  (SubSeq has TLC
\* compute them once and not whenever one is used.)
BlockOf(n, Of(_)) == SubSeq([i \in 1 .. n |-> Of(i - 1)], 1, n)

\* roundKey is a sequence of words: those there are so far.
RECURSIVE keyExpansion(_)
keyExpansion(roundKey) ==
  LET i == Len(roundKey)
      before == roundKey[i]
      rotated(j) == sbox[before[((j + 1) % 4) + 1] + 1] (+) (IF j = 0 THEN Rcon[i \div NK] ELSE 0)
      tempa(j) == IF i % NK = 0 THEN rotated(j) ELSE before[j + 1]
      word(j) == roundKey[i - NK + 1][j + 1] (+) tempa(j)
  IN  IF i = NB * (NR + 1) THEN roundKey
      ELSE keyExpansion(Append(roundKey, BlockOf(4, word)))

RoundKey(key) == keyExpansion([i \in 1 .. NK |-> SubSeq(key, 4 * i - 3, 4 * i)])

addRoundKey(round, state, roundKey) ==
  LET added(b) == state[b + 1] (+) roundKey[round * NB + (b \div 4) + 1][(b % 4) + 1]
  IN  BlockOf(16, added)

subBytes(state) == LET sub(b) == sbox[state[b + 1] + 1] IN BlockOf(16, sub)

invSubBytes(state) == LET sub(b) == rsbox[state[b + 1] + 1] IN BlockOf(16, sub)

\* Row r moves r columns to the left, or back.
shiftRows(state) == LET from(b) == state[((b + 4 * (b % 4)) % 16) + 1] IN BlockOf(16, from)

\* Mutant: the row of one step is shifted as for encryption.
invShiftRowsLeft(state) ==
  LET from(b) == IF b % 4 = 1 THEN state[((b + 4) % 16) + 1]
                 ELSE state[((b - 4 * (b % 4)) % 16) + 1]
  IN  BlockOf(16, from)

invShiftRows(state) == LET from(b) == state[((b - 4 * (b % 4)) % 16) + 1] IN BlockOf(16, from)

xtime(x) == ((2 * x) % 256) (+) (IF x >= 128 THEN 27 ELSE 0)

\* The byte n rows below byte b, round the column.
Below(state, b, n) == state[4 * (b \div 4) + ((b + n) % 4) + 1]

mixColumns(state) ==
  LET tmp(b) == (Below(state, b, 0) (+) Below(state, b, 1))
                  (+) (Below(state, b, 2) (+) Below(state, b, 3))
      mixed(b) == (state[b + 1] (+) xtime(state[b + 1] (+) Below(state, b, 1))) (+) tmp(b)
  IN  BlockOf(16, mixed)

\* y is below 16 in every call, so bit 4 is never set.
multiply(x, y) ==
  LET times(i, power) == IF (y \div 2 ^ i) % 2 = 1 THEN power ELSE 0
  IN  (times(0, x) (+) times(1, xtime(x)))
        (+) (times(2, xtime(xtime(x))) (+) times(3, xtime(xtime(xtime(x)))))

invMixColumns(state) ==
  LET mixed(b) == (multiply(Below(state, b, 0), 14) (+) multiply(Below(state, b, 1), 11))
                    (+) (multiply(Below(state, b, 2), 13) (+) multiply(Below(state, b, 3), 9))
  IN  BlockOf(16, mixed)

\* (The length, always the same, has TLC compute the state round by round.)
RECURSIVE Rounds(_, _, _)
Rounds(state, round, roundKey) ==
  IF Len(state) = 4 * NB /\ round < NR
  THEN Rounds(addRoundKey(round, mixColumns(shiftRows(subBytes(state))), roundKey),
              round + 1, roundKey)
  ELSE addRoundKey(NR, shiftRows(subBytes(state)), roundKey)

cipher(state, roundKey) == Rounds(addRoundKey(0, state, roundKey), 1, roundKey)

RECURSIVE invRounds(_, _, _)
invRounds(state, round, roundKey) ==
  LET added == addRoundKey(round, invSubBytes(invShiftRows(state)), roundKey)
  IN  IF Len(state) = 4 * NB /\ round > 0
      THEN invRounds(invMixColumns(added), round - 1, roundKey) ELSE added

invCipher(state, roundKey) == invRounds(addRoundKey(NR, state, roundKey), NR - 1, roundKey)

-----------------------------------------------------------------------------
XorBlock(a, b) == LET byte(i) == a[i + 1] (+) b[i + 1] IN BlockOf(16, byte)

RECURSIVE Encrypted(_, _, _)
Encrypted(prevIv, buf, roundKey) ==
  IF buf = <<>> THEN <<>>
  ELSE LET block == cipher(XorBlock(Head(buf), prevIv), roundKey)
       IN  <<block>> \o Encrypted(block, Tail(buf), roundKey)

\* buf is a sequence of blocks, each is replaced.
Aes128CbcEncrypt(key, iv, buf) == Encrypted(iv, buf, RoundKey(key))

RECURSIVE Decrypted(_, _, _)
Decrypted(ctxIv, buf, roundKey) ==
  IF buf = <<>> THEN <<>>
  ELSE <<XorBlock(invCipher(Head(buf), roundKey), ctxIv)>>
         \o Decrypted(Head(buf), Tail(buf), roundKey)

Aes128CbcDecrypt(key, iv, buf) == Decrypted(iv, buf, RoundKey(key))

-----------------------------------------------------------------------------
CbcInit == cbc \in Vectors /\ cbcBuf = cbc.plain /\ cbcStep = "plain"

CbcEncrypt ==
  /\ cbcStep = "plain" /\ cbcStep' = "encrypted"
  /\ cbcBuf' = Aes128CbcEncrypt(cbc.key, cbc.iv, cbcBuf)
  /\ UNCHANGED cbc

CbcDecrypt ==
  /\ cbcStep = "encrypted" /\ cbcStep' = "decrypted"
  /\ cbcBuf' = Aes128CbcDecrypt(cbc.key, cbc.iv, cbcBuf)
  /\ UNCHANGED cbc

CbcNext == CbcEncrypt \/ CbcDecrypt

-----------------------------------------------------------------------------
(***************************************************************************)
(* Properties                                                              *)
(***************************************************************************)

\* The blocks encrypted are those of the examples of FIPS 197 and SP 800-38A, and
\* they are decrypted to what they were.
CbcIsAes ==
  /\ cbcStep = "encrypted" => cbcBuf = cbc.crypt
  /\ cbcStep = "decrypted" => cbcBuf = cbc.plain

=============================================================================
