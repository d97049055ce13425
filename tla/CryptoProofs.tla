---------------------------- MODULE CryptoProofs ----------------------------
(***************************************************************************)
(* For messages, pieces and keys of every length: a running hash that is   *)
(* finished is the digest of FIPS 180-4, and a MAC that of RFC 2104.  For  *)
(* words of every width and numbers of every length: what bignum makes of  *)
(* them is what the integers would make, and a power is the power.         *)
(***************************************************************************)
EXTENDS Hashes, BigNumbers, BasicProofs

\* A text of one byte again and again.
LEMMA FilledIs ==
  ASSUME NEW n \in Nat, NEW b, NEW T, b \in T
  PROVE  IsText(Filled(n, b), n, T) /\ \A i \in 1 .. n : Filled(n, b)[i] = b
BY ConstantIs DEF Filled

-----------------------------------------------------------------------------
(* Hashes *)

\* Block b of a text.
Block(M, b) == SubSeq(M, 64 * b - 63, 64 * b)

\* Of a text M, the first 64q + r bytes are held: q blocks of them have been compressed
\* and r are in the buffer.
AreHeld(blocks, buf, M, q, r, T) ==
  /\ q \in Nat /\ r \in 0 .. 64
  /\ IsSequence(blocks) /\ Len(blocks) = q
  /\ \A b \in 1 .. q : blocks[b] = Block(M, b)
  /\ IsTable(buf, 64, T)
  /\ \A i \in 1 .. r : buf[i] = M[64 * q + i]

\* The l bytes of a piece are those of M behind its first n.
IsNext(piece, l, M, n, T) ==
  IsText(piece, l, T) /\ \A i \in 1 .. l : piece[i] = M[n + i]

\* The bytes of new are those of buf, but for the l of a piece behind its first r.
IsWritten(new, buf, r, piece, l, T) ==
  /\ IsTable(new, 64, T)
  /\ \A i \in 1 .. 64 : new[i] = IF i > r /\ i <= r + l THEN piece[i - r] ELSE buf[i]

LEMMA OverwrittenIs ==
  ASSUME NEW T, NEW buf, IsTable(buf, 64, T), NEW r, r \in 0 .. 64, NEW l, NEW piece,
         IsText(piece, l, T)
  PROVE  IsWritten(Overwritten(buf, r, piece), buf, r, piece, l, T)
<1>0. buf \in [1 .. 64 -> T]
  BY DEF IsTable
<1>1. Len(buf) = 64
  <2>1. IsText(buf, 64, T)
    BY IsTextOf
  <2> QED
    BY <2>1 DEF IsText
<1>2. l \in Nat /\ Len(piece) = l /\ \A i \in 1 .. l : piece[i] \in T
  BY TextIs
<1>3. Overwritten(buf, r, piece)
        = [i \in 1 .. 64 |-> IF i > r /\ i <= r + l THEN piece[i - r] ELSE buf[i]]
  BY <1>1, <1>2 DEF Overwritten
<1>4. ASSUME NEW i \in 1 .. 64
      PROVE  (IF i > r /\ i <= r + l THEN piece[i - r] ELSE buf[i]) \in T
  <2>1. CASE i > r /\ i <= r + l
    <3>1. i - r \in 1 .. l
      BY <1>2, <2>1
    <3> QED
      BY <1>2, <2>1, <3>1
  <2>2. CASE ~ (i > r /\ i <= r + l)
    BY <1>0, <2>2
  <2> QED
    BY <2>1, <2>2
<1> QED
  BY <1>3, <1>4 DEF IsTable, IsWritten

\* A piece that the buffer has room for.
LEMMA Filled64 ==
  ASSUME NEW T, NEW blocks, NEW buf, NEW M, NEW q, NEW r, AreHeld(blocks, buf, M, q, r, T),
         NEW l, NEW piece, IsNext(piece, l, M, 64 * q + r, T), r + l <= 64
  PROVE  AreHeld(blocks, Overwritten(buf, r, piece), M, q, r + l, T)
<1> DEFINE new == Overwritten(buf, r, piece)
<1>1. /\ q \in Nat /\ r \in 0 .. 64 /\ IsTable(buf, 64, T)
      /\ \A i \in 1 .. r : buf[i] = M[64 * q + i]
  BY DEF AreHeld
<1>2. IsText(piece, l, T) /\ \A i \in 1 .. l : piece[i] = M[(64 * q + r) + i]
  BY DEF IsNext
<1>3. l \in Nat /\ r + l \in 0 .. 64
  <2>1. l \in Nat
    BY <1>2, TextIs
  <2> QED
    BY <1>1, <2>1
<1>4. /\ IsTable(new, 64, T)
      /\ \A i \in 1 .. 64 : new[i] = IF i > r /\ i <= r + l THEN piece[i - r] ELSE buf[i]
  <2>1. IsWritten(new, buf, r, piece, l, T)
    BY <1>1, <1>2, OverwrittenIs
  <2> QED
    BY <2>1 DEF IsWritten
<1> HIDE DEF new
<1>5. ASSUME NEW i \in 1 .. r + l PROVE new[i] = M[64 * q + i]
  <2>0. i \in 1 .. 64
    BY <1>1, <1>3
  <2>1. CASE i > r
    <3>1. i - r \in 1 .. l /\ (64 * q + r) + (i - r) = 64 * q + i /\ i <= r + l
      BY <1>1, <1>3, <2>1
    <3>2. new[i] = piece[i - r]
      BY <1>4, <2>0, <2>1, <3>1
    <3> QED
      BY <1>2, <3>1, <3>2
  <2>2. CASE ~ (i > r)
    <3>1. i \in 1 .. r
      BY <1>1, <1>3, <2>2
    <3>2. new[i] = buf[i]
      BY <1>4, <2>0, <2>2
    <3> QED
      BY <1>1, <3>1, <3>2
  <2> QED
    BY <2>1, <2>2
<1> QED
  BY <1>1, <1>3, <1>4, <1>5 DEF AreHeld, new

\* A whole block, wherever it was, is compressed; what is left in the buffer is not
\* looked at again.
LEMMA Compressed ==
  ASSUME NEW T, NEW N, NEW M, IsText(M, N, T),
         NEW blocks, NEW buf, NEW q, AreHeld(blocks, buf, M, q, 0, T),
         NEW block, IsNext(block, 64, M, 64 * q, T), 64 * q + 64 <= N,
         NEW left, IsTable(left, 64, T)
  PROVE  AreHeld(Append(blocks, block), left, M, q + 1, 0, T)
<1>1. /\ q \in Nat /\ IsSequence(blocks) /\ Len(blocks) = q
      /\ \A b \in 1 .. q : blocks[b] = Block(M, b)
  BY DEF AreHeld
<1>2. /\ IsSequence(Append(blocks, block)) /\ Len(Append(blocks, block)) = q + 1
      /\ \A b \in 1 .. q : Append(blocks, block)[b] = blocks[b]
      /\ Append(blocks, block)[q + 1] = block
  <2>1. /\ IsSequence(Append(blocks, block)) /\ Len(Append(blocks, block)) = Len(blocks) + 1
        /\ \A b \in 1 .. Len(blocks) : Append(blocks, block)[b] = blocks[b]
        /\ Append(blocks, block)[Len(blocks) + 1] = block
    BY <1>1, AppendedIs
  <2> QED
    BY <1>1, <2>1
<1>3. block = Block(M, q + 1)
  <2> DEFINE from == 64 * (q + 1) - 63
             to == 64 * (q + 1)
  <2>1. N \in Nat
    BY TextIs
  <2>2. from \in 1 .. N + 1 /\ to \in from - 1 .. N /\ to - from + 1 = 64
        /\ \A i \in 1 .. 64 : from + i - 1 = 64 * q + i
    BY <1>1, <2>1
  <2> HIDE DEF from, to
  <2>3. /\ IsText(SubSeq(M, from, to), to - from + 1, T)
        /\ \A i \in 1 .. to - from + 1 : SubSeq(M, from, to)[i] = M[from + i - 1]
    BY <2>2, SubText
  <2> DEFINE part == SubSeq(M, from, to)
  <2> HIDE DEF part
  <2>4. IsText(part, 64, T) /\ \A i \in 1 .. 64 : part[i] = M[64 * q + i]
    BY <2>2, <2>3 DEF part
  <2>5. IsText(block, 64, T) /\ \A i \in 1 .. 64 : block[i] = M[64 * q + i]
    BY DEF IsNext
  <2>6. block = part
    BY <2>4, <2>5, SameText
  <2> QED
    BY <2>6 DEF part, Block, from, to
<1> DEFINE more == Append(blocks, block)
<1> HIDE DEF more
<1>4. ASSUME NEW b \in 1 .. q + 1 PROVE more[b] = Block(M, b)
  <2>1. b \in 1 .. q \/ b = q + 1
    BY <1>1
  <2> QED
    BY <1>1, <1>2, <1>3, <2>1 DEF more
<1>5. q + 1 \in Nat /\ 0 \in 0 .. 64 /\ \A i \in 1 .. 0 : FALSE
  BY <1>1
<1> QED
  BY <1>2, <1>4, <1>5 DEF AreHeld, more

\* A buffer that is full.
LEMMA CompressedFull ==
  ASSUME NEW T, NEW N, NEW M, IsText(M, N, T),
         NEW blocks, NEW buf, NEW q, AreHeld(blocks, buf, M, q, 64, T), 64 * q + 64 <= N,
         NEW left, IsTable(left, 64, T)
  PROVE  AreHeld(Append(blocks, buf), left, M, q + 1, 0, T)
<1>1. /\ IsTable(buf, 64, T) /\ \A i \in 1 .. 64 : buf[i] = M[64 * q + i]
      /\ AreHeld(blocks, buf, M, q, 0, T)
  BY DEF AreHeld
<1>2. IsText(buf, 64, T)
  BY <1>1, IsTextOf
<1>3. IsNext(buf, 64, M, 64 * q, T)
  BY <1>1, <1>2 DEF IsNext
<1> QED
  BY <1>1, <1>3, Compressed

LEMMA NextParts ==
  ASSUME NEW T, NEW M, NEW p \in Nat, NEW l, NEW in, IsNext(in, l, M, p, T), NEW n, n \in 0 .. l
  PROVE  /\ IsNext(First(in, n), n, M, p, T)
         /\ IsNext(After(in, n), l - n, M, p + n, T)
<1>1. IsText(in, l, T) /\ \A i \in 1 .. l : in[i] = M[p + i]
  BY DEF IsNext
<1>2. l \in Nat /\ Len(in) = l
  BY <1>1, TextIs
<1>3. IsNext(First(in, n), n, M, p, T)
  <2>1. 1 \in 1 .. l + 1 /\ n \in 1 - 1 .. l /\ n - 1 + 1 = n /\ \A i \in 1 .. n : i \in 1 .. l /\ 1 + i - 1 = i
    BY <1>2
  <2> DEFINE part == SubSeq(in, 1, n)
  <2>2. IsText(part, n - 1 + 1, T) /\ \A i \in 1 .. n - 1 + 1 : part[i] = in[1 + i - 1]
    BY <1>1, <2>1, SubText
  <2> HIDE DEF part
  <2>3. IsText(part, n, T) /\ \A i \in 1 .. n : part[i] = M[p + i]
    BY <1>1, <2>1, <2>2
  <2> QED
    BY <2>3 DEF part, First, IsNext
<1>4. IsNext(After(in, n), l - n, M, p + n, T)
  <2>1. /\ n + 1 \in 1 .. l + 1 /\ l \in (n + 1) - 1 .. l /\ l - (n + 1) + 1 = l - n
        /\ \A i \in 1 .. l - n : n + i \in 1 .. l /\ (n + 1) + i - 1 = n + i /\ p + (n + i) = (p + n) + i
    BY <1>2
  <2> DEFINE part == SubSeq(in, n + 1, l)
  <2>2. IsText(part, l - (n + 1) + 1, T) /\ \A i \in 1 .. l - (n + 1) + 1 : part[i] = in[(n + 1) + i - 1]
    BY <1>1, <2>1, SubText
  <2>3. After(in, n) = part
    BY <1>2 DEF After
  <2> HIDE DEF part
  <2>4. IsText(part, l - n, T) /\ \A i \in 1 .. l - n : part[i] = M[(p + n) + i]
    BY <1>1, <2>1, <2>2
  <2> QED
    BY <2>3, <2>4 DEF IsNext
<1> QED
  BY <1>3, <1>4

\* What is held has a type, wherever in M it is.
LEMMA HeldTypes ==
  ASSUME NEW T, NEW N, NEW M, IsText(M, N, T), NEW blocks, NEW buf, NEW q, NEW r,
         AreHeld(blocks, buf, M, q, r, T), 64 * q + r <= N
  PROVE  blocks \in Seq(Seq(T)) /\ buf \in [1 .. 64 -> T]
<1>1. /\ q \in Nat /\ r \in 0 .. 64 /\ IsSequence(blocks) /\ Len(blocks) = q
      /\ \A b \in 1 .. q : blocks[b] = Block(M, b)
      /\ IsTable(buf, 64, T)
  BY DEF AreHeld
<1>2. N \in Nat
  BY TextIs
<1>3. ASSUME NEW b \in 1 .. Len(blocks) PROVE blocks[b] \in Seq(T)
  <2> DEFINE from == 64 * b - 63
             to == 64 * b
  <2>1. from \in 1 .. N + 1 /\ to \in from - 1 .. N
    BY <1>1, <1>2
  <2> HIDE DEF from, to
  <2>2. IsText(SubSeq(M, from, to), to - from + 1, T)
    BY <2>1, SubText
  <2> QED
    BY <1>1, <2>2 DEF IsText, Block, from, to
<1>4. IsText(blocks, Len(blocks), Seq(T))
  BY <1>1, <1>3, SequenceIs
<1> QED
  BY <1>1, <1>4 DEF IsText, IsTable

\* A loop has a run, when what it does to a value in X is a value in X.
IsRunOf(f, X, start, step) ==
  f \in [Nat -> X] /\ f = [k \in Nat |-> IF k = 0 THEN start ELSE step[f[k - 1]]]

IsMap(step, X) == step \in [X -> X]

LEMMA Loop ==
  ASSUME NEW X, NEW start, start \in X, NEW step, IsMap(step, X)
  PROVE  \E f : IsRunOf(f, X, start, step)
<1> DEFINE D == Nat
           next == [kx \in D \X X |-> step[kx[2]]]
<1>1. IsStep(next, D, X)
  <2>1. \A kx \in D \X X : step[kx[2]] \in X
    BY DEF IsMap
  <2> QED
    BY <2>1 DEF IsStep
<1>2. IsSegment(D)
  BY DEF IsSegment
<1>3. \A k \in D, x \in X : next[<<k, x>>] = step[x]
  OBVIOUS
<1> HIDE DEF D, next
<1>4. PICK f \in [D -> X] : \A k \in D : f[k] = IF k = 0 THEN start ELSE next[<<k, f[k - 1]>>]
  BY <1>1, <1>2, Recursion
<1>5. ASSUME NEW k \in D PROVE f[k] = IF k = 0 THEN start ELSE step[f[k - 1]]
  <2>1. CASE k = 0
    BY <1>4, <2>1
  <2>2. CASE k # 0
    <3>1. k - 1 \in D
      BY <2>2 DEF D
    <3>2. f[k - 1] \in X
      BY <3>1
    <3> QED
      BY <1>3, <1>4, <2>2, <3>2
  <2> QED
    BY <2>1, <2>2
<1>6. f = [k \in D |-> IF k = 0 THEN start ELSE step[f[k - 1]]]
  BY <1>5
<1> QED
  BY <1>6 DEF D, IsRunOf

-----------------------------------------------------------------------------
(* SHA-256 *)

\* The state of a hash: the blocks compressed, and c bytes in the buffer.
Held256(s, c, length, buf) == [state |-> s, curlen |-> c, length |-> length, buf |-> buf]
WithState(md, s) == [md EXCEPT !.state = s]
WithCurlen(md, c) == [md EXCEPT !.curlen = c]
WithLength(md, length) == [md EXCEPT !.length = length]
WithBuffer(md, buf, c) == [md EXCEPT !.buf = buf, !.curlen = c]

LEMMA Held256Fields ==
  ASSUME NEW s, NEW c, NEW length, NEW buf
  PROVE  /\ Held256(s, c, length, buf).state = s /\ Held256(s, c, length, buf).curlen = c
         /\ Held256(s, c, length, buf).length = length /\ Held256(s, c, length, buf).buf = buf
BY DEF Held256

LEMMA Held256State ==
  ASSUME NEW s, NEW c, NEW length, NEW buf, NEW t
  PROVE  WithState(Held256(s, c, length, buf), t) = Held256(t, c, length, buf)
BY DEF Held256, WithState

LEMMA Held256Curlen ==
  ASSUME NEW s, NEW c, NEW length, NEW buf, NEW d
  PROVE  WithCurlen(Held256(s, c, length, buf), d) = Held256(s, d, length, buf)
BY DEF Held256, WithCurlen

LEMMA Held256Length ==
  ASSUME NEW s, NEW c, NEW length, NEW buf, NEW d
  PROVE  WithLength(Held256(s, c, length, buf), d) = Held256(s, c, d, buf)
BY DEF Held256, WithLength

LEMMA Held256Buffer ==
  ASSUME NEW s, NEW c, NEW length, NEW buf, NEW new, NEW d
  PROVE  WithBuffer(Held256(s, c, length, buf), new, d) = Held256(s, d, length, new)
<1> DEFINE md == Held256(s, c, length, buf)
<1>1. [md EXCEPT !.buf = new] = Held256(s, c, length, new)
  BY DEF Held256
<1>2. [Held256(s, c, length, new) EXCEPT !.curlen = d] = Held256(s, d, length, new)
  BY DEF Held256
<1> HIDE DEF md
<1>3. [md EXCEPT !.buf = new, !.curlen = d] = [[md EXCEPT !.buf = new] EXCEPT !.curlen = d]
  OBVIOUS
<1> QED
  BY <1>1, <1>2, <1>3 DEF WithBuffer, md

\* md holds the first 64q + r bytes of M.
IsSha256(md, M, q, r, T) ==
  /\ r < 64
  /\ \E blocks, buf :
       /\ AreHeld(blocks, buf, M, q, r, T)
       /\ md = Held256(blocks, r, 512 * q, buf)

LEMMA Sha256BufferedIs ==
  ASSUME NEW T, NEW N, NEW M, IsText(M, N, T), NEW md, NEW q, NEW r, IsSha256(md, M, q, r, T),
         NEW l, NEW piece, IsNext(piece, l, M, 64 * q + r, T), r + l <= 64, 64 * q + r + l <= N
  PROVE  IF r + l = 64 THEN IsSha256(Sha256Buffered(md, piece), M, q + 1, 0, T)
         ELSE IsSha256(Sha256Buffered(md, piece), M, q, r + l, T)
<1>1. PICK blocks, buf :
        /\ AreHeld(blocks, buf, M, q, r, T)
        /\ md = Held256(blocks, r, 512 * q, buf)
  BY DEF IsSha256
<1> DEFINE new == Overwritten(buf, r, piece)
<1>2. AreHeld(blocks, new, M, q, r + l, T)
  BY <1>1, Filled64
<1>3. q \in Nat /\ r \in 0 .. 64 /\ IsTable(new, 64, T)
  BY <1>1, <1>2 DEF AreHeld
<1>4. l \in Nat /\ Len(piece) = l
  <2>1. IsText(piece, l, T)
    BY DEF IsNext
  <2> QED
    BY <2>1, TextIs
<1>5. md.buf = buf /\ md.curlen = r /\ md.state = blocks /\ md.length = 512 * q
  BY <1>1, Held256Fields
<1>6. CASE r + l = 64
  <2>1. Sha256Buffered(md, piece)
          = Sha256Compress(WithLength(WithBuffer(md, new, 0), 512 * q + 8 * 64), new)
    BY <1>4, <1>5, <1>6 DEF Sha256Buffered, SHA256_BLOCK_SIZE, WithLength, WithBuffer
  <2>2. 512 * q + 8 * 64 = 512 * (q + 1) /\ 64 * q + 64 <= N
    BY <1>3, <1>4, <1>6
  <2> HIDE DEF new
  <2>3. Sha256Buffered(md, piece) = Held256(Append(blocks, new), 0, 512 * (q + 1), new)
    <3>1. WithLength(WithBuffer(md, new, 0), 512 * q + 8 * 64) = Held256(blocks, 0, 512 * (q + 1), new)
      BY <1>1, <2>2, Held256Buffer, Held256Length
    <3>2. \A a : Sha256Compress(a, new) = WithState(a, Append(a.state, new))
      BY DEF Sha256Compress, WithState
    <3> QED
      BY <2>1, <3>1, <3>2, Held256Fields, Held256State
  <2>4. AreHeld(Append(blocks, new), new, M, q + 1, 0, T)
    BY <1>2, <1>3, <1>6, <2>2, CompressedFull
  <2> QED
    BY <1>6, <2>3, <2>4 DEF IsSha256
<1>7. CASE r + l # 64
  <2>1. Sha256Buffered(md, piece) = WithBuffer(md, new, r + l)
    BY <1>4, <1>5, <1>7 DEF Sha256Buffered, SHA256_BLOCK_SIZE, WithBuffer
  <2> HIDE DEF new
  <2>2. Sha256Buffered(md, piece) = Held256(blocks, r + l, 512 * q, new)
    BY <1>1, <2>1, Held256Buffer
  <2>3. r + l < 64
    BY <1>3, <1>4, <1>7
  <2> QED
    BY <1>2, <1>7, <2>2, <2>3 DEF IsSha256
<1> QED
  BY <1>6, <1>7


\* What is left of a piece is l bytes, those that M has next.
AtLoop256(a, M, q, r, l, T) ==
  IsSha256(a.md, M, q, r, T) /\ IsNext(a.in, l, M, 64 * q + r, T)

LEMMA Sha256TakenIs ==
  ASSUME NEW T, NEW N, NEW M, IsText(M, N, T), NEW md, NEW q, NEW r, IsSha256(md, M, q, r, T),
         NEW l, NEW in, IsNext(in, l, M, 64 * q + r, T), 64 * q + r + l <= N
  PROVE  /\ r + l < 64 => AtLoop256(Sha256Taken(md, in), M, q, r + l, 0, T)
         /\ ~ (r + l < 64) => AtLoop256(Sha256Taken(md, in), M, q + 1, 0, r + l - 64, T)
<1> DEFINE a == Sha256Taken(md, in)
           n == IF l < 64 - r THEN l ELSE 64 - r
           part == First(in, n)
           rest == After(in, n)
<1>1. PICK blocks, buf :
        /\ AreHeld(blocks, buf, M, q, r, T)
        /\ md = Held256(blocks, r, 512 * q, buf)
  BY DEF IsSha256
<1>2. /\ q \in Nat /\ r \in 0 .. 63 /\ IsTable(buf, 64, T)
      /\ md.state = blocks /\ md.curlen = r /\ md.length = 512 * q /\ md.buf = buf
  <2>1. r < 64
    BY DEF IsSha256
  <2> QED
    BY <1>1, <2>1, Held256Fields DEF AreHeld
<1>3. IsText(in, l, T)
  BY DEF IsNext
<1>4. l \in Nat /\ Len(in) = l
  BY <1>3, TextIs
<1>5. n \in 0 .. l /\ n <= 64 - r /\ 64 * q + r \in Nat
  BY <1>2, <1>4
<1>6. a = [md |-> IF r = 0 /\ l >= 64
                  THEN WithLength(Sha256Compress(md, part), Sha256Compress(md, part).length + 8 * 64)
                  ELSE Sha256Buffered(md, part),
           in |-> rest]
  BY <1>2, <1>4 DEF Sha256Taken, SHA256_BLOCK_SIZE, WithLength
<1>7. IsNext(part, n, M, 64 * q + r, T) /\ IsNext(rest, l - n, M, (64 * q + r) + n, T)
  <2> HIDE DEF n
  <2> QED
    BY <1>5, NextParts
<1> HIDE DEF part, rest, a
<1>8. a.in = rest
  BY <1>6
<1>9. CASE r + l < 64
  <2>1. n = l /\ ~ (r = 0 /\ l >= 64) /\ l - n = 0 /\ (64 * q + r) + n = 64 * q + (r + l)
        /\ r + l # 64 /\ r + l <= 64
    BY <1>2, <1>4, <1>9
  <2>2. a.md = Sha256Buffered(md, part)
    BY <1>6, <2>1
  <2> HIDE DEF n
  <2>3. IsNext(part, l, M, 64 * q + r, T)
    BY <1>7, <2>1
  <2>4. IsSha256(Sha256Buffered(md, part), M, q, r + l, T)
    BY <2>1, <2>3, Sha256BufferedIs
  <2>5. IsNext(rest, 0, M, 64 * q + (r + l), T)
    BY <1>7, <2>1
  <2> QED
    BY <1>8, <1>9, <2>2, <2>4, <2>5 DEF AtLoop256, a
<1>10. CASE ~ (r + l < 64)
  <2>1. n = 64 - r /\ l - n = r + l - 64 /\ (64 * q + r) + n = 64 * (q + 1) + 0 /\ r + n = 64
        /\ r + n <= 64 /\ 64 * q + r + n <= N
    <3>1. N \in Nat
      BY TextIs
    <3> QED
      BY <1>2, <1>4, <1>10, <3>1
  <2> HIDE DEF n
  <2>2. IsSha256(a.md, M, q + 1, 0, T)
    <3>1. CASE r = 0 /\ l >= 64
      <4>1. a.md = WithLength(Sha256Compress(md, part), Sha256Compress(md, part).length + 8 * 64)
        BY <1>6, <3>1
      <4>2. Sha256Compress(md, part) = Held256(Append(blocks, part), r, 512 * q, buf)
        <5>1. Sha256Compress(md, part) = WithState(md, Append(blocks, part))
          BY <1>2 DEF Sha256Compress, WithState
        <5> QED
          BY <1>1, <5>1, Held256State
      <4>3. 512 * q + 8 * 64 = 512 * (q + 1) /\ n = 64 /\ 64 * q + r = 64 * q /\ 64 * q + 64 <= N
        BY <1>2, <2>1, <3>1
      <4>4. a.md = Held256(Append(blocks, part), 0, 512 * (q + 1), buf)
        BY <3>1, <4>1, <4>2, <4>3, Held256Fields, Held256Length, Held256Curlen
      <4>5. IsNext(part, 64, M, 64 * q, T)
        BY <1>7, <4>3
      <4>6. AreHeld(blocks, buf, M, q, 0, T)
        BY <1>1, <3>1
      <4>7. AreHeld(Append(blocks, part), buf, M, q + 1, 0, T)
        BY <1>2, <4>3, <4>5, <4>6, Compressed
      <4> QED
        BY <4>4, <4>7 DEF IsSha256
    <3>2. CASE ~ (r = 0 /\ l >= 64)
      <4>1. a.md = Sha256Buffered(md, part)
        BY <1>6, <3>2
      <4>2. IsNext(part, n, M, 64 * q + r, T)
        BY <1>7
      <4>3. IsSha256(Sha256Buffered(md, part), M, q + 1, 0, T)
        BY <2>1, <4>2, Sha256BufferedIs
      <4> QED
        BY <4>1, <4>3
    <3> QED
      BY <3>1, <3>2
  <2>3. IsNext(rest, r + l - 64, M, 64 * (q + 1) + 0, T)
    BY <1>7, <2>1
  <2> QED
    BY <1>8, <1>10, <2>2, <2>3 DEF AtLoop256, a
<1> QED
  BY <1>9, <1>10

\* md holds the first n bytes of M.
IsSha256At(md, M, n, T) ==
  \E q \in Nat, r \in 0 .. 63 : n = 64 * q + r /\ IsSha256(md, M, q, r, T)

Loops256(T) ==
  [md : [state : Seq(Seq(T)), curlen : Nat, length : Nat, buf : [1 .. 64 -> T]], in : Seq(T)]

LEMMA AtLoop256Types ==
  ASSUME NEW T, NEW N, NEW M, IsText(M, N, T), NEW md, NEW in,
         NEW q, NEW r, NEW l, AtLoop256([md |-> md, in |-> in], M, q, r, l, T), 64 * q + r <= N
  PROVE  [md |-> md, in |-> in] \in Loops256(T)
<1>1. IsSha256(md, M, q, r, T) /\ IsNext(in, l, M, 64 * q + r, T)
  BY DEF AtLoop256
<1>2. PICK blocks, buf :
        /\ AreHeld(blocks, buf, M, q, r, T)
        /\ md = Held256(blocks, r, 512 * q, buf)
  BY <1>1 DEF IsSha256
<1>3. blocks \in Seq(Seq(T)) /\ buf \in [1 .. 64 -> T]
  BY <1>2, HeldTypes
<1>4. r \in Nat /\ 512 * q \in Nat
  BY <1>2 DEF AreHeld
<1>5. in \in Seq(T)
  BY <1>1 DEF IsNext, IsText
<1> QED
  BY <1>2, <1>3, <1>4, <1>5 DEF Held256, Loops256

\* However a text is cut into pieces, Sha256Add goes on where the last one ended.
LEMMA Sha256AddIs ==
  ASSUME NEW T, NEW N, NEW M, IsText(M, N, T), NEW md, NEW n, IsSha256At(md, M, n, T),
         NEW l, NEW in, IsNext(in, l, M, n, T), n + l <= N
  PROVE  IsSha256At(Sha256Add(md, in), M, n + l, T)
<1>1. PICK q0 \in Nat, r0 \in 0 .. 63 : n = 64 * q0 + r0 /\ IsSha256(md, M, q0, r0, T)
  BY DEF IsSha256At
<1>2. l \in Nat /\ Len(in) = l /\ n \in Nat /\ N \in Nat
  <2>1. IsText(in, l, T)
    BY DEF IsNext
  <2>2. l \in Nat /\ Len(in) = l /\ N \in Nat
    BY <2>1, TextIs
  <2> QED
    BY <1>1, <2>2
<1> DEFINE e == n + l
           IsAt(a, q, r) == /\ 64 * q + r <= e
                            /\ AtLoop256(a, M, q, r, e - (64 * q + r), T)
           X == {a \in Loops256(T) : \E q \in Nat, r \in 0 .. 63 : IsAt(a, q, r)}
           start == [md |-> md, in |-> in]
           next(a) == IF Len(a.in) > 0 THEN Sha256Taken(a.md, a.in) ELSE a
           step == [a \in X |-> next(a)]
<1>3. start \in X /\ IsAt(start, q0, r0)
  <2>1. start.md = md /\ start.in = in
    OBVIOUS
  <2>2. n <= e /\ e - n = l /\ n <= N
    BY <1>2
  <2> HIDE DEF start
  <2>3. IsAt(start, q0, r0)
    BY <1>1, <2>1, <2>2 DEF AtLoop256
  <2>4. start \in Loops256(T)
    <3>1. AtLoop256([md |-> md, in |-> in], M, q0, r0, e - n, T) /\ 64 * q0 + r0 <= N
      BY <1>1, <2>2, <2>3 DEF start
    <3> QED
      BY <3>1, AtLoop256Types DEF start
  <2> QED
    BY <1>1, <2>3, <2>4
<1>4. ASSUME NEW a \in X, NEW q \in Nat, NEW r \in 0 .. 63, IsAt(a, q, r)
      PROVE  /\ 64 * q + r = e => next(a) = a
             /\ 64 * q + r # e =>
                  /\ next(a) \in X
                  /\ \E r2 \in 0 .. 63 : \/ IsAt(next(a), q, r2) /\ 64 * q + r2 = e
                                         \/ IsAt(next(a), q + 1, r2)
  <2> DEFINE left == e - (64 * q + r)
             b == Sha256Taken(a.md, a.in)
  <2>1. IsSha256(a.md, M, q, r, T) /\ IsNext(a.in, left, M, 64 * q + r, T)
    BY <1>4 DEF AtLoop256
  <2>2. Len(a.in) = left
    BY <2>1 DEF IsNext, IsText
  <2>3. left \in Nat /\ e \in Nat /\ e <= N /\ 64 * q + r + left = e
    BY <1>2, <1>4
  <2>4. CASE 64 * q + r = e
    <3>1. ~ (Len(a.in) > 0)
      BY <2>2, <2>3, <2>4
    <3> QED
      BY <2>4, <3>1
  <2>5. CASE 64 * q + r # e
    <3>1. next(a) = b
      BY <2>2, <2>3, <2>5
    <3> HIDE DEF left, e
    <3>2. /\ r + left < 64 => AtLoop256(b, M, q, r + left, 0, T)
          /\ ~ (r + left < 64) => AtLoop256(b, M, q + 1, 0, r + left - 64, T)
      BY <2>1, <2>3, Sha256TakenIs
    <3>3. b = [md |-> b.md, in |-> b.in]
      BY DEF Sha256Taken
    <3> HIDE DEF b
    <3>4. CASE r + left < 64
      <4>1. r + left \in 0 .. 63 /\ 64 * q + (r + left) = e /\ e - (64 * q + (r + left)) = 0
            /\ 64 * q + (r + left) <= N
        BY <2>3, <3>4
      <4>2. IsAt(b, q, r + left)
        BY <2>3, <3>2, <3>4, <4>1
      <4>3. b \in Loops256(T)
        BY <3>2, <3>3, <3>4, <4>1, AtLoop256Types
      <4> HIDE DEF IsAt
      <4> QED
        BY <2>5, <3>1, <4>1, <4>2, <4>3
    <3>5. CASE ~ (r + left < 64)
      <4>1. q + 1 \in Nat /\ e - (64 * (q + 1) + 0) = r + left - 64 /\ 64 * (q + 1) + 0 <= e
            /\ 64 * (q + 1) + 0 <= N /\ 0 \in 0 .. 63
        BY <1>2, <2>3, <3>5
      <4>2. IsAt(b, q + 1, 0)
        BY <3>2, <3>5, <4>1
      <4>3. b \in Loops256(T)
        BY <3>2, <3>3, <3>5, <4>1, AtLoop256Types
      <4> HIDE DEF IsAt
      <4> QED
        BY <2>5, <3>1, <4>1, <4>2, <4>3
    <3> QED
      BY <3>4, <3>5
  <2> QED
    BY <2>4, <2>5
<1>5. step \in [X -> X] /\ \A a \in X : step[a] = next(a)
  <2>1. ASSUME NEW a \in X PROVE next(a) \in X
    <3>1. PICK q \in Nat, r \in 0 .. 63 : IsAt(a, q, r)
      OBVIOUS
    <3> HIDE DEF IsAt, X, next
    <3> QED
      BY <1>4, <3>1
  <2> HIDE DEF X, next
  <2> QED
    BY <2>1
<1> DEFINE IsRun(f) == f = [k \in Nat |-> IF k = 0 THEN start ELSE next(f[k - 1])]
           after == CHOOSE f : IsRun(f)
<1>6. Sha256Add(md, in) = after[(l \div 64) + 2].md
  BY <1>2 DEF Sha256Add, SHA256_BLOCK_SIZE
<1> HIDE DEF X, step, start
<1>7. \E f \in [Nat -> X] : f = [k \in Nat |-> IF k = 0 THEN start ELSE step[f[k - 1]]]
  <2>1. IsMap(step, X)
    BY <1>5 DEF IsMap
  <2>2. PICK f : IsRunOf(f, X, start, step)
    BY <1>3, <2>1, Loop
  <2> QED
    BY <2>2 DEF IsRunOf
<1> HIDE DEF next
<1>8. \E f : IsRun(f)
  <2>1. PICK f \in [Nat -> X] : f = [k \in Nat |-> IF k = 0 THEN start ELSE step[f[k - 1]]]
    BY <1>7
  <2>2. ASSUME NEW k \in Nat PROVE f[k] = IF k = 0 THEN start ELSE next(f[k - 1])
    <3>1. CASE k = 0
      BY <2>1, <3>1
    <3>2. CASE k # 0
      <4>1. k - 1 \in Nat
        BY <3>2
      <4>2. f[k - 1] \in X
        BY <4>1
      <4>3. f[k] = step[f[k - 1]]
        BY <2>1, <3>2
      <4> QED
        BY <1>5, <3>2, <4>2, <4>3
    <3> QED
      BY <3>1, <3>2
  <2>3. IsRun(f)
    BY <2>1, <2>2
  <2> QED
    BY <2>3
<1>9. IsRun(after)
  BY <1>8
<1> HIDE DEF after
<1>10. after[0] = start /\ \A k \in Nat : after[k + 1] = next(after[k])
  <2>1. \A k \in Nat : after[k] = IF k = 0 THEN start ELSE next(after[k - 1])
    BY <1>9
  <2>2. \A k \in Nat : k + 1 \in Nat /\ k + 1 # 0 /\ (k + 1) - 1 = k
    OBVIOUS
  <2> QED
    BY <2>1, <2>2
<1> DEFINE Good == {k \in Nat : /\ after[k] \in X
                               /\ \E q \in Nat, r \in 0 .. 63 :
                                    IsAt(after[k], q, r) /\ (64 * q + r = e \/ q = q0 + k)}
<1> HIDE DEF IsAt, e
<1>11. 0 \in Good
  <2>1. after[0] \in X /\ IsAt(after[0], q0, r0)
    BY <1>3, <1>10
  <2>2. q0 = q0 + 0
    OBVIOUS
  <2> QED
    BY <2>1, <2>2
<1>12. ASSUME NEW k \in Nat, k \in Good PROVE k + 1 \in Good
  <2>0. k + 1 \in Nat
    OBVIOUS
  <2>1. after[k + 1] = next(after[k])
    BY <1>10
  <2>2. PICK q \in Nat, r \in 0 .. 63 :
          /\ after[k] \in X
          /\ IsAt(after[k], q, r) /\ (64 * q + r = e \/ q = q0 + k)
    BY <1>12
  <2>3. CASE 64 * q + r = e
    <3>1. after[k + 1] = after[k]
      BY <1>4, <2>1, <2>2, <2>3
    <3> QED
      BY <2>0, <2>2, <2>3, <3>1
  <2>4. CASE 64 * q + r # e
    <3>1. /\ next(after[k]) \in X
          /\ \E r2 \in 0 .. 63 : \/ IsAt(next(after[k]), q, r2) /\ 64 * q + r2 = e
                                 \/ IsAt(next(after[k]), q + 1, r2)
      BY <1>4, <2>2, <2>4
    <3>2. q + 1 \in Nat /\ q + 1 = q0 + (k + 1)
      BY <2>2, <2>4
    <3> QED
      BY <2>0, <2>1, <3>1, <3>2
  <2> QED
    BY <2>3, <2>4
<1>13. Nat \subseteq Good
  <2> HIDE DEF Good
  <2> QED
    BY <1>11, <1>12, Induction
<1> DEFINE last == (l \div 64) + 2
<1>14. last \in Nat /\ 64 * (q0 + last) > e
  <2>1. l \div 64 \in Int /\ l % 64 \in 0 .. 63 /\ l = 64 * (l \div 64) + (l % 64)
    BY <1>2, Division
  <2> QED
    BY <1>1, <1>2, <2>1 DEF e
<1>15. PICK q \in Nat, r \in 0 .. 63 :
         IsAt(after[last], q, r) /\ (64 * q + r = e \/ q = q0 + last)
  BY <1>13, <1>14
<1>16. 64 * q + r <= e /\ IsSha256(after[last].md, M, q, r, T)
  BY <1>15 DEF IsAt, AtLoop256
<1>17. 64 * q + r = e
  <2> HIDE DEF last
  <2>1. e \in Nat
    BY <1>2 DEF e
  <2> QED
    BY <1>14, <1>15, <1>16, <2>1
<1> QED
  BY <1>6, <1>16, <1>17 DEF IsSha256At, e


-----------------------------------------------------------------------------
(* Padding *)

HasBytes(T) == Unset \in T /\ \A k \in Nat : Byte(k) \in T

\* M is m, a 1 bit, z bytes of zeros and the length of m in bits.
IsPadded(M, m, n, z, T) ==
  /\ n \in Nat /\ z \in 0 .. 63 /\ (n + z + 9) % 64 = 0
  /\ IsText(M, n + z + 9, T)
  /\ \A i \in 1 .. n : M[i] = m[i]
  /\ M[n + 1] = Byte(128)
  /\ \A i \in 1 .. z : M[(n + 1) + i] = Byte(0)
  /\ \A i \in 1 .. 8 : M[(n + 1 + z) + i] = BigEndian(8 * n, 8)[i]

LEMMA LengthIs ==
  ASSUME NEW x, x \in Nat, NEW T, HasBytes(T)
  PROVE  IsText(BigEndian(x, 8), 8, T)
<1> DEFINE weight == <<1, 256, 65536, 16777216>>
           digit(i) == IF 8 - i > 3 THEN 0 ELSE (x \div weight[8 - i + 1]) % 256
<1>1. BigEndian(x, 8) = [i \in 1 .. 8 |-> Byte(digit(i))]
  BY DEF BigEndian
<1>2. ASSUME NEW i \in 1 .. 8 PROVE digit(i) \in Nat
  <2>1. CASE 8 - i > 3
    BY <2>1
  <2>2. CASE ~ (8 - i > 3)
    <3>1. 8 - i + 1 \in {1, 2, 3, 4}
      BY <2>2
    <3>2. weight[8 - i + 1] \in Nat \ {0}
      BY <3>1
    <3> DEFINE w == weight[8 - i + 1]
               d == x \div w
    <3>3. x \in Int /\ w \in Nat \ {0}
      BY <3>2
    <3> HIDE DEF w
    <3>4. d \in Int
      BY <3>3, Division
    <3> HIDE DEF d
    <3>5. d % 256 \in Nat
      BY <3>4
    <3> QED
      BY <2>2, <3>5 DEF d, w
  <2> QED
    BY <2>1, <2>2
<1> HIDE DEF digit
<1>3. IsTable(BigEndian(x, 8), 8, T) /\ 8 \in Nat
  BY <1>1, <1>2 DEF HasBytes, IsTable
<1> QED
  BY <1>3, IsTextOf

LEMMA PaddedMessageIs ==
  ASSUME NEW T, HasBytes(T), NEW n, NEW m, IsText(m, n, T)
  PROVE  IsPadded(PaddedMessage(m), m, n, (55 - n) % 64, T)
<1> DEFINE z == (55 - n) % 64
           one == <<Byte(128)>>
           zeros == Filled(z, Byte(0))
           length == BigEndian(8 * n, 8)
           A == m \o one
           B == A \o zeros
           M == B \o length
<1>1. n \in Nat /\ Len(m) = n
  BY TextIs
<1>2. z \in 0 .. 63 /\ (n + z + 9) % 64 = 0
  <2> DEFINE k == (55 - n) \div 64
  <2>1. k \in Int /\ z \in 0 .. 63 /\ 55 - n = 64 * k + z
    BY <1>1, Division
  <2> HIDE DEF k, z
  <2>2. n + z + 9 = 64 * (1 - k) + 0 /\ 1 - k \in Int /\ n + z + 9 \in Int /\ 0 \in 0 .. 64 - 1
        /\ 64 \in Nat \ {0}
    BY <1>1, <2>1
  <2>3. (n + z + 9) % 64 = 0
    BY <2>2, RemainderIs
  <2> QED
    BY <2>1, <2>3
<1>3. PaddedMessage(m) = M
  BY <1>1 DEF PaddedMessage
<1>4. IsText(one, 1, T)
  BY DEF HasBytes, IsText
<1>5. IsText(zeros, z, T) /\ \A i \in 1 .. z : zeros[i] = Byte(0)
  <2>1. z \in Nat /\ Byte(0) \in T
    BY <1>2 DEF HasBytes
  <2> HIDE DEF z
  <2> QED
    BY <2>1, FilledIs
<1>6. IsText(length, 8, T)
  <2>1. 8 * n \in Nat
    BY <1>1
  <2> QED
    BY <2>1, LengthIs
<1>7. one[1] = Byte(128)
  OBVIOUS
<1> HIDE DEF z, zeros, length, one
<1>8. IsConcat(m, n, one, 1, A, T)
  BY <1>4, ConcatIs
<1> HIDE DEF A
<1>9. IsText(A, n + 1, T)
  BY <1>8 DEF IsConcat
<1>10. IsConcat(A, n + 1, zeros, z, B, T)
  BY <1>5, <1>9, ConcatIs
<1> HIDE DEF B
<1>11. IsText(B, n + 1 + z, T)
  BY <1>10 DEF IsConcat
<1>12. IsConcat(B, n + 1 + z, length, 8, M, T)
  BY <1>6, <1>11, ConcatIs
<1> HIDE DEF M
<1>13. IsText(M, n + z + 9, T)
  <2>1. (n + 1 + z) + 8 = n + z + 9
    BY <1>1, <1>2
  <2> QED
    BY <1>12, <2>1 DEF IsConcat
<1>14. ASSUME NEW i \in 1 .. n PROVE M[i] = m[i]
  <2>1. i \in 1 .. n + 1 /\ i \in 1 .. n + 1 + z
    BY <1>1, <1>2
  <2> QED
    BY <1>8, <1>10, <1>12, <2>1 DEF IsConcat
<1>15. M[n + 1] = Byte(128)
  <2>1. n + 1 \in 1 .. n + 1 /\ n + 1 \in 1 .. n + 1 + z /\ 1 \in 1 .. 1
    BY <1>1, <1>2
  <2> QED
    BY <1>7, <1>8, <1>10, <1>12, <2>1 DEF IsConcat
<1>16. ASSUME NEW i \in 1 .. z PROVE M[(n + 1) + i] = Byte(0)
  <2>1. (n + 1) + i \in 1 .. n + 1 + z
    BY <1>1, <1>2
  <2> QED
    BY <1>5, <1>10, <1>12, <2>1 DEF IsConcat
<1>17. \A i \in 1 .. 8 : M[(n + 1 + z) + i] = length[i]
  BY <1>12 DEF IsConcat
<1> QED
  BY <1>1, <1>2, <1>3, <1>13, <1>14, <1>15, <1>16, <1>17 DEF IsPadded, length, z

\* What is held of m is held of a text that begins with m.
LEMMA HeldInLonger ==
  ASSUME NEW T, NEW n, NEW m, IsText(m, n, T), NEW N, NEW M, IsText(M, N, T), n <= N,
         \A i \in 1 .. n : M[i] = m[i],
         NEW blocks, NEW buf, NEW q, NEW r, AreHeld(blocks, buf, m, q, r, T), 64 * q + r = n
  PROVE  AreHeld(blocks, buf, M, q, r, T)
<1>1. /\ q \in Nat /\ r \in 0 .. 64
      /\ \A b \in 1 .. q : blocks[b] = Block(m, b)
      /\ \A i \in 1 .. r : buf[i] = m[64 * q + i]
  BY DEF AreHeld
<1>2. N \in Nat /\ n \in Nat
  BY TextIs
<1>3. ASSUME NEW b \in 1 .. q PROVE Block(m, b) = Block(M, b)
  <2> DEFINE from == 64 * b - 63
             to == 64 * b
             s == SubSeq(m, from, to)
             S == SubSeq(M, from, to)
  <2>1. /\ from \in 1 .. n + 1 /\ to \in from - 1 .. n /\ from \in 1 .. N + 1 /\ to \in from - 1 .. N
        /\ to - from + 1 = 64 /\ \A i \in 1 .. 64 : from + i - 1 \in 1 .. n
    BY <1>1, <1>2
  <2> HIDE DEF from, to
  <2>2. /\ IsText(s, to - from + 1, T) /\ \A i \in 1 .. to - from + 1 : s[i] = m[from + i - 1]
    BY <2>1, SubText
  <2>3. /\ IsText(S, to - from + 1, T) /\ \A i \in 1 .. to - from + 1 : S[i] = M[from + i - 1]
    BY <2>1, SubText
  <2> HIDE DEF s, S
  <2>4. IsText(s, 64, T) /\ IsText(S, 64, T) /\ \A i \in 1 .. 64 : s[i] = S[i]
    BY <2>1, <2>2, <2>3
  <2>5. s = S
    BY <2>4, SameText
  <2> QED
    BY <2>5 DEF Block, s, S, from, to
<1>4. \A i \in 1 .. r : 64 * q + i \in 1 .. n
  BY <1>1, <1>2
<1>5. /\ \A b \in 1 .. q : blocks[b] = Block(M, b)
      /\ \A i \in 1 .. r : buf[i] = M[64 * q + i]
  BY <1>1, <1>3, <1>4
<1> QED
  BY <1>5 DEF AreHeld

\* When all of a text is held its blocks have been compressed.
LEMMA AllHeld ==
  ASSUME NEW T, NEW N, NEW M, IsText(M, N, T), NEW blocks, NEW buf, NEW q,
         AreHeld(blocks, buf, M, q, 0, T), 64 * q = N
  PROVE  blocks = Blocks(M)
<1>1. /\ q \in Nat /\ Len(blocks) = q /\ blocks = [b \in 1 .. Len(blocks) |-> blocks[b]]
      /\ \A b \in 1 .. q : blocks[b] = Block(M, b)
  BY DEF AreHeld, IsSequence
<1>2. Len(M) \div 64 = q
  BY <1>1 DEF IsText
<1>3. Blocks(M) = [b \in 1 .. q |-> Block(M, b)]
  BY <1>2 DEF Blocks, Block
<1> QED
  BY <1>1, <1>3


-----------------------------------------------------------------------------
(* The end of a message *)

\* The zeros that fill the buffer.
LEMMA ZerosFill ==
  ASSUME NEW T, HasBytes(T), NEW blocks, NEW buf, NEW M, NEW q, NEW r,
         AreHeld(blocks, buf, M, q, r, T), \A i \in r + 1 .. 64 : M[64 * q + i] = Byte(0)
  PROVE  AreHeld(blocks, Overwritten(buf, r, Filled(64, Byte(0))), M, q, 64, T)
<1> DEFINE zeros == Filled(64, Byte(0))
           new == Overwritten(buf, r, zeros)
<1>1. /\ q \in Nat /\ r \in 0 .. 64 /\ IsTable(buf, 64, T)
      /\ \A i \in 1 .. r : buf[i] = M[64 * q + i]
  BY DEF AreHeld
<1>2. IsText(zeros, 64, T) /\ \A i \in 1 .. 64 : zeros[i] = Byte(0)
  <2>1. 64 \in Nat /\ Byte(0) \in T
    BY DEF HasBytes
  <2> QED
    BY <2>1, FilledIs
<1> HIDE DEF zeros
<1>3. IsTable(new, 64, T) /\ \A i \in 1 .. 64 : new[i] = IF i > r /\ i <= r + 64 THEN zeros[i - r] ELSE buf[i]
  <2>1. IsWritten(new, buf, r, zeros, 64, T)
    BY <1>1, <1>2, OverwrittenIs
  <2> QED
    BY <2>1 DEF IsWritten
<1> HIDE DEF new
<1>4. ASSUME NEW i \in 1 .. 64 PROVE new[i] = M[64 * q + i]
  <2>1. CASE i > r
    <3>1. i - r \in 1 .. 64 /\ i <= r + 64 /\ i \in r + 1 .. 64
      BY <1>1, <2>1
    <3>2. new[i] = zeros[i - r]
      BY <1>3, <2>1, <3>1
    <3> QED
      BY <1>2, <3>1, <3>2
  <2>2. CASE ~ (i > r)
    <3>1. i \in 1 .. r
      BY <1>1, <2>2
    <3> QED
      BY <1>1, <1>3, <2>2, <3>1
  <2> QED
    BY <2>1, <2>2
<1>5. 64 \in 0 .. 64
  OBVIOUS
<1> QED
  BY <1>3, <1>4, <1>5 DEF AreHeld, new, zeros

\* The last block: what is in the buffer, zeros and the length.
LEMMA LastBlockIs ==
  ASSUME NEW T, HasBytes(T), NEW blocks, NEW buf, NEW M, NEW q, NEW c,
         AreHeld(blocks, buf, M, q, c, T), c <= 56,
         \A i \in c + 1 .. 56 : M[64 * q + i] = Byte(0),
         NEW length, IsText(length, 8, T), \A i \in 1 .. 8 : M[64 * q + 56 + i] = length[i]
  PROVE  IsNext(First(Overwritten(buf, c, Filled(64, Byte(0))), 56) \o length, 64, M, 64 * q, T)
<1> DEFINE zeros == Filled(64, Byte(0))
           new == Overwritten(buf, c, zeros)
           head == First(new, 56)
           last == head \o length
<1>1. /\ q \in Nat /\ c \in 0 .. 64 /\ IsTable(buf, 64, T)
      /\ \A i \in 1 .. c : buf[i] = M[64 * q + i]
  BY DEF AreHeld
<1>2. IsText(zeros, 64, T) /\ \A i \in 1 .. 64 : zeros[i] = Byte(0)
  <2>1. 64 \in Nat /\ Byte(0) \in T
    BY DEF HasBytes
  <2> QED
    BY <2>1, FilledIs
<1> HIDE DEF zeros
<1>3. IsTable(new, 64, T) /\ \A i \in 1 .. 64 : new[i] = IF i > c /\ i <= c + 64 THEN zeros[i - c] ELSE buf[i]
  <2>1. IsWritten(new, buf, c, zeros, 64, T)
    BY <1>1, <1>2, OverwrittenIs
  <2> QED
    BY <2>1 DEF IsWritten
<1> HIDE DEF new
<1>4. ASSUME NEW i \in 1 .. 56 PROVE new[i] = M[64 * q + i]
  <2>0. i \in 1 .. 64
    OBVIOUS
  <2>1. CASE i > c
    <3>1. i - c \in 1 .. 64 /\ i <= c + 64 /\ i \in c + 1 .. 56
      BY <1>1, <2>1
    <3>2. new[i] = zeros[i - c]
      BY <1>3, <2>0, <2>1, <3>1
    <3> QED
      BY <1>2, <3>1, <3>2
  <2>2. CASE ~ (i > c)
    <3>1. i \in 1 .. c
      BY <1>1, <2>2
    <3> QED
      BY <1>1, <1>3, <2>0, <2>2, <3>1
  <2> QED
    BY <2>1, <2>2
<1>5. IsText(head, 56, T) /\ \A i \in 1 .. 56 : head[i] = new[i]
  <2>1. IsText(new, 64, T)
    BY <1>3, IsTextOf
  <2>2. 1 \in 1 .. 64 + 1 /\ 56 \in 1 - 1 .. 64 /\ 56 - 1 + 1 = 56 /\ \A i \in 1 .. 56 : 1 + i - 1 = i
    OBVIOUS
  <2> DEFINE part == SubSeq(new, 1, 56)
  <2>3. IsText(part, 56 - 1 + 1, T) /\ \A i \in 1 .. 56 - 1 + 1 : part[i] = new[1 + i - 1]
    BY <2>1, <2>2, SubText
  <2> HIDE DEF part
  <2>4. IsText(part, 56, T) /\ \A i \in 1 .. 56 : part[i] = new[i]
    BY <2>2, <2>3
  <2> QED
    BY <2>4 DEF part, First
<1> HIDE DEF head
<1>6. IsConcat(head, 56, length, 8, last, T)
  BY <1>5, ConcatIs
<1> HIDE DEF last
<1>7. /\ IsText(last, 64, T) /\ \A i \in 1 .. 56 : last[i] = head[i]
      /\ \A i \in 1 .. 8 : last[56 + i] = length[i]
  BY <1>6 DEF IsConcat
<1>8. ASSUME NEW i \in 1 .. 64 PROVE last[i] = M[64 * q + i]
  <2>1. CASE i <= 56
    <3>1. i \in 1 .. 56
      BY <2>1
    <3> QED
      BY <1>4, <1>5, <1>7, <3>1
  <2>2. CASE ~ (i <= 56)
    <3>1. i - 56 \in 1 .. 8 /\ 56 + (i - 56) = i /\ 64 * q + 56 + (i - 56) = 64 * q + i
      BY <1>1, <2>2
    <3>2. last[56 + (i - 56)] = length[i - 56] /\ M[64 * q + 56 + (i - 56)] = length[i - 56]
      BY <1>7, <3>1
    <3> QED
      BY <3>1, <3>2
  <2> QED
    BY <2>1, <2>2
<1> QED
  BY <1>7, <1>8 DEF IsNext, last, head, new, zeros

LEMMA Sha256FinishIs ==
  ASSUME NEW T, HasBytes(T), NEW n, NEW m, IsText(m, n, T), NEW md, IsSha256At(md, m, n, T)
  PROVE  Sha256Finish(md) = Digest(m, SHA256_HASH_SIZE)
<1> DEFINE z == (55 - n) % 64
           M == PaddedMessage(m)
           N == n + z + 9
<1>1. PICK q \in Nat, r \in 0 .. 63 : n = 64 * q + r /\ IsSha256(md, m, q, r, T)
  BY DEF IsSha256At
<1>2. PICK blocks, buf :
        /\ AreHeld(blocks, buf, m, q, r, T)
        /\ md = Held256(blocks, r, 512 * q, buf)
  BY <1>1 DEF IsSha256
<1>3. n \in Nat
  BY <1>1
<1>4. IsPadded(M, m, n, z, T)
  BY PaddedMessageIs
<1>5. \/ r + 1 <= 56 /\ z = 55 - r
      \/ r + 1 > 56 /\ z = 119 - r
  <2> DEFINE k == (55 - n) \div 64
  <2>1. k \in Int /\ z \in 0 .. 63 /\ 55 - n = 64 * k + z
    BY <1>3, Division
  <2> HIDE DEF k, z
  <2>2. 55 - r = 64 * (k + q) + z
    BY <1>1, <2>1
  <2> QED
    BY <2>1, <2>2
<1> HIDE DEF M, z
<1>6. /\ z \in 0 .. 63 /\ IsText(M, N, T)
      /\ \A i \in 1 .. n : M[i] = m[i]
      /\ M[n + 1] = Byte(128)
      /\ \A i \in 1 .. z : M[(n + 1) + i] = Byte(0)
      /\ \A i \in 1 .. 8 : M[(n + 1 + z) + i] = BigEndian(8 * n, 8)[i]
  BY <1>4 DEF IsPadded
<1>7. AreHeld(blocks, buf, M, q, r, T)
  <2>1. n <= N
    BY <1>3, <1>6
  <2> HIDE DEF N
  <2> QED
    BY <1>1, <1>2, <1>6, <2>1, HeldInLonger
<1> DEFINE zeros == Filled(64, Byte(0))
           one == <<Byte(128)>>
           marked == Overwritten(buf, r, one)
           length == BigEndian(8 * n, 8)
           ended == Held256(blocks, r + 1, 512 * q, marked)
           full == Overwritten(marked, r + 1, zeros)
           cleared == IF r + 1 > 56 THEN Held256(Append(blocks, full), 0, 512 * q, marked) ELSE ended
           last(c) == First(Overwritten(c.buf, c.curlen, zeros), 56) \o length
<1>8. Sha256Finish(md)
        = [i \in 1 .. SHA256_HASH_SIZE |-> HashOctet(Append(cleared.state, last(cleared)), i)]
  <2> DEFINE e == [md EXCEPT !.buf = Overwritten(@, md.curlen, <<Byte(128)>>), !.curlen = @ + 1]
             bits == md.length + md.curlen * 8
             c0 == IF e.curlen > 56
                   THEN [Sha256Compress(e, Overwritten(e.buf, e.curlen, zeros)) EXCEPT !.curlen = 0]
                   ELSE e
             l0 == First(Overwritten(c0.buf, c0.curlen, zeros), 56) \o BigEndian(bits, 8)
  <2>1. Sha256Finish(md)
          = [i \in 1 .. SHA256_HASH_SIZE |-> HashOctet(Sha256Compress(c0, l0).state, i)]
    BY DEF Sha256Finish, SHA256_BLOCK_SIZE
  <2> HIDE DEF c0, zeros
  <2>2. md.state = blocks /\ md.curlen = r /\ md.length = 512 * q /\ md.buf = buf
    BY <1>2, Held256Fields
  <2>3. bits = 8 * n
    BY <1>1, <2>2
  <2>4. e = ended
    <3>1. e = WithBuffer(md, marked, r + 1)
      BY <2>2 DEF WithBuffer
    <3> QED
      BY <1>2, <3>1, Held256Buffer
  <2> HIDE DEF e, marked
  <2>5. ended.curlen = r + 1 /\ ended.buf = marked /\ ended.state = blocks
    BY Held256Fields
  <2>6. WithCurlen(Sha256Compress(ended, full), 0) = Held256(Append(blocks, full), 0, 512 * q, marked)
    <3>1. Sha256Compress(ended, full) = WithState(ended, Append(blocks, full))
      BY <2>5 DEF Sha256Compress, WithState
    <3> QED
      BY <3>1, Held256State, Held256Curlen
  <2>7. c0 = cleared
    <3>1. c0 = IF e.curlen > 56
               THEN WithCurlen(Sha256Compress(e, Overwritten(e.buf, e.curlen, zeros)), 0) ELSE e
      BY DEF c0, WithCurlen
    <3> HIDE DEF ended
    <3> QED
      BY <2>4, <2>5, <2>6, <3>1
  <2>8. l0 = last(cleared)
    BY <2>3, <2>7
  <2> HIDE DEF l0
  <2>9. Sha256Compress(c0, l0).state = Append(cleared.state, l0)
    <3> HIDE DEF full
    <3>1. PICK b, c : cleared = Held256(b, c, 512 * q, marked)
      OBVIOUS
    <3> HIDE DEF cleared
    <3> DEFINE t == Append(cleared.state, l0)
    <3>2. Sha256Compress(cleared, l0) = WithState(cleared, t)
      BY DEF Sha256Compress, WithState
    <3> HIDE DEF t
    <3>3. WithState(cleared, t) = Held256(t, c, 512 * q, marked)
      BY <3>1, Held256State
    <3>4. WithState(cleared, t).state = t
      BY <3>3, Held256Fields
    <3> QED
      BY <2>7, <3>2, <3>4 DEF t
  <2> HIDE DEF cleared
  <2>10. Sha256Compress(c0, l0).state = Append(cleared.state, last(cleared))
    BY <2>8, <2>9
  <2> QED
    BY <2>1, <2>10
<1>9. IsText(one, 1, T) /\ one[1] = Byte(128) /\ IsText(length, 8, T)
  <2>1. IsText(one, 1, T) /\ one[1] = Byte(128)
    BY DEF HasBytes, IsText
  <2>2. 8 * n \in Nat
    BY <1>3
  <2>3. IsText(length, 8, T)
    BY <2>2, LengthIs
  <2> QED
    BY <2>1, <2>3
<1>10. AreHeld(blocks, marked, M, q, r + 1, T)
  <2>1. IsNext(one, 1, M, 64 * q + r, T) /\ r + 1 <= 64
    BY <1>1, <1>6, <1>9 DEF IsNext
  <2> HIDE DEF one
  <2> QED
    BY <1>7, <2>1, Filled64
<1> DEFINE IsCleared(b, p, c) ==
             /\ cleared = Held256(b, c, 512 * q, marked)
             /\ AreHeld(b, marked, M, p, c, T) /\ c <= 56 /\ 64 * p + 64 = N
             /\ \A i \in c + 1 .. 56 : M[64 * p + i] = Byte(0)
<1>11. \E b, p, c : IsCleared(b, p, c)
  <2>1. CASE r + 1 <= 56
    <3>1. z = 55 - r /\ ~ (r + 1 > 56) /\ 64 * q + 64 = N
      BY <1>1, <1>5, <2>1
    <3>2. ASSUME NEW i \in (r + 1) + 1 .. 56 PROVE M[64 * q + i] = Byte(0)
      <4>1. i - (r + 1) \in 1 .. z /\ (n + 1) + (i - (r + 1)) = 64 * q + i
        BY <1>1, <3>1
      <4> QED
        BY <1>6, <4>1
    <3>3. cleared = Held256(blocks, r + 1, 512 * q, marked)
      BY <3>1
    <3>4. IsCleared(blocks, q, r + 1)
      BY <1>10, <2>1, <3>1, <3>2, <3>3
    <3> HIDE DEF IsCleared
    <3> QED
      BY <3>4
  <2>2. CASE r + 1 > 56
    <3>1. z = 119 - r /\ 64 * q + 128 = N /\ N \in Nat
      BY <1>1, <1>5, <2>2
    <3>2. ASSUME NEW i \in (r + 1) + 1 .. 64 PROVE M[64 * q + i] = Byte(0)
      <4>1. i - (r + 1) \in 1 .. z /\ (n + 1) + (i - (r + 1)) = 64 * q + i
        BY <1>1, <2>2, <3>1
      <4> QED
        BY <1>6, <4>1
    <3>3. AreHeld(blocks, full, M, q, 64, T)
      BY <1>10, <3>2, ZerosFill
    <3>4. 64 * q + 64 <= N /\ IsTable(marked, 64, T)
      BY <1>1, <1>10, <3>1 DEF AreHeld
    <3> HIDE DEF N, full, marked
    <3>5. AreHeld(Append(blocks, full), marked, M, q + 1, 0, T)
      BY <1>6, <3>3, <3>4, CompressedFull
    <3>6. ASSUME NEW i \in 0 + 1 .. 56 PROVE M[64 * (q + 1) + i] = Byte(0)
      <4>1. 64 + i - (r + 1) \in 1 .. z /\ (n + 1) + (64 + i - (r + 1)) = 64 * (q + 1) + i
        BY <1>1, <2>2, <3>1
      <4> QED
        BY <1>6, <4>1
    <3>7. cleared = Held256(Append(blocks, full), 0, 512 * q, marked) /\ 64 * (q + 1) + 64 = N
      BY <1>1, <2>2, <3>1
    <3>8. IsCleared(Append(blocks, full), q + 1, 0)
      BY <3>5, <3>6, <3>7
    <3> HIDE DEF IsCleared
    <3> QED
      BY <3>8
  <2> QED
    BY <1>1, <2>1, <2>2
<1> HIDE DEF cleared, marked, length
<1>12. PICK b, p, c : /\ cleared = Held256(b, c, 512 * q, marked)
                      /\ AreHeld(b, marked, M, p, c, T) /\ c <= 56 /\ 64 * p + 64 = N
                      /\ \A i \in c + 1 .. 56 : M[64 * p + i] = Byte(0)
  BY <1>11
<1>13. cleared.state = b /\ cleared.buf = marked /\ cleared.curlen = c
  BY <1>12, Held256Fields
<1>14. IsNext(last(cleared), 64, M, 64 * p, T)
  <2>1. p \in Nat
    BY <1>12 DEF AreHeld
  <2>2. 64 * p + 56 = n + 1 + z
    BY <1>1, <1>6, <1>12, <2>1
  <2>3. \A i \in 1 .. 8 : M[64 * p + 56 + i] = length[i]
    BY <1>6, <2>2 DEF length
  <2>4. IsNext(First(Overwritten(marked, c, Filled(64, Byte(0))), 56) \o length, 64, M, 64 * p, T)
    BY <1>9, <1>12, <2>3, LastBlockIs
  <2> QED
    BY <1>13, <2>4
<1> HIDE DEF last, N
<1>15. AreHeld(Append(b, last(cleared)), marked, M, p + 1, 0, T) /\ 64 * (p + 1) = N
  <2>1. p \in Nat /\ IsTable(marked, 64, T) /\ AreHeld(b, marked, M, p, 0, T) /\ 64 * p + 64 <= N
    <3>1. p \in Nat /\ IsTable(marked, 64, T) /\ AreHeld(b, marked, M, p, 0, T)
      BY <1>12 DEF AreHeld
    <3> QED
      BY <1>12, <3>1
  <2>2. 64 * (p + 1) = N
    BY <1>12, <2>1
  <2>3. IsText(M, N, T)
    BY <1>6
  <2>4. AreHeld(Append(b, last(cleared)), marked, M, p + 1, 0, T)
    BY <1>14, <2>1, <2>3, Compressed
  <2> QED
    BY <2>2, <2>4
<1>16. Append(b, last(cleared)) = Blocks(M)
  BY <1>6, <1>15, AllHeld
<1> QED
  BY <1>8, <1>13, <1>16 DEF Digest, M

LEMMA Sha256StartIs ==
  ASSUME NEW T, HasBytes(T), NEW M
  PROVE  IsSha256At(Sha256Start, M, 0, T)
<1> DEFINE buf == Filled(64, Unset)
<1>1. IsTable(buf, 64, T)
  BY DEF HasBytes, IsTable, Filled
<1>2. Sha256Start = Held256(<<>>, 0, 512 * 0, buf)
  BY DEF Sha256Start, SHA256_BLOCK_SIZE, Held256
<1> HIDE DEF buf
<1>3. IsSequence(<<>>) /\ Len(<<>>) = 0
  BY EmptySeq DEF IsSequence
<1>4. AreHeld(<<>>, buf, M, 0, 0, T)
  BY <1>1, <1>3 DEF AreHeld
<1>5. IsSha256(Sha256Start, M, 0, 0, T)
  BY <1>2, <1>4 DEF IsSha256
<1>6. 0 \in Nat /\ 0 \in 0 .. 63 /\ 0 = 64 * 0 + 0
  OBVIOUS
<1> QED
  BY <1>5, <1>6 DEF IsSha256At


LEMMA Sha256Is ==
  ASSUME NEW T, HasBytes(T), NEW n, NEW m, IsText(m, n, T)
  PROVE  Sha256(m) = Digest(m, SHA256_HASH_SIZE)
<1>1. n \in Nat
  BY TextIs
<1> DEFINE none == 0
           md == Sha256Add(Sha256Start, m)
<1>2. IsSha256At(Sha256Start, m, none, T)
  BY Sha256StartIs
<1>3. none + n = n /\ n <= n /\ IsNext(m, n, m, none, T)
  BY <1>1 DEF IsNext
<1> HIDE DEF none
<1>4. IsSha256At(md, m, n, T)
  BY <1>2, <1>3, Sha256AddIs
<1> HIDE DEF md
<1>5. Sha256Finish(md) = Digest(m, SHA256_HASH_SIZE)
  BY <1>4, Sha256FinishIs
<1> QED
  BY <1>5 DEF Sha256, md

-----------------------------------------------------------------------------
(* SHA-1 *)

Held1(s, count, buf) == [state |-> s, count |-> count, buf |-> buf]
WithCount(ctx, buf, count) == [ctx EXCEPT !.buf = buf, !.count = count]

LEMMA Held1Fields ==
  ASSUME NEW s, NEW count, NEW buf
  PROVE  /\ Held1(s, count, buf).state = s /\ Held1(s, count, buf).count = count
         /\ Held1(s, count, buf).buf = buf
BY DEF Held1

LEMMA Held1State ==
  ASSUME NEW s, NEW count, NEW buf, NEW t
  PROVE  WithState(Held1(s, count, buf), t) = Held1(t, count, buf)
BY DEF Held1, WithState

LEMMA Held1Buffer ==
  ASSUME NEW s, NEW count, NEW buf, NEW new, NEW more
  PROVE  WithCount(Held1(s, count, buf), new, more) = Held1(s, more, new)
<1> DEFINE ctx == Held1(s, count, buf)
<1>1. [ctx EXCEPT !.buf = new] = Held1(s, count, new)
  BY DEF Held1
<1>2. [Held1(s, count, new) EXCEPT !.count = more] = Held1(s, more, new)
  BY DEF Held1
<1> HIDE DEF ctx
<1>3. [ctx EXCEPT !.buf = new, !.count = more] = [[ctx EXCEPT !.buf = new] EXCEPT !.count = more]
  OBVIOUS
<1> QED
  BY <1>1, <1>2, <1>3 DEF WithCount, ctx

\* ctx holds the first 64q + r bytes of M.
IsSha1(ctx, M, q, r, T) ==
  /\ r < 64
  /\ \E blocks, buf :
       /\ AreHeld(blocks, buf, M, q, r, T)
       /\ ctx = Held1(blocks, 64 * q + r, buf)

\* ctx holds the first n bytes of M.
IsSha1At(ctx, M, n, T) ==
  \E q \in Nat, r \in 0 .. 63 : n = 64 * q + r /\ IsSha1(ctx, M, q, r, T)

LEMMA Sha1Count ==
  ASSUME NEW ctx, NEW M, NEW q, NEW r, NEW T, IsSha1(ctx, M, q, r, T)
  PROVE  /\ q \in Nat /\ r \in 0 .. 63 /\ ctx.count = 64 * q + r
         /\ ctx.count % SHA1_BLOCK_SIZE = r
<1>1. PICK blocks, buf :
        /\ AreHeld(blocks, buf, M, q, r, T)
        /\ ctx = Held1(blocks, 64 * q + r, buf)
  BY DEF IsSha1
<1>2. q \in Nat /\ r \in 0 .. 63
  <2>1. r < 64
    BY DEF IsSha1
  <2> QED
    BY <1>1, <2>1 DEF AreHeld
<1>3. ctx.count = 64 * q + r
  BY <1>1, Held1Fields
<1> DEFINE a == 64 * q + r
<1>4. a \in Int /\ a = 64 * q + r /\ r \in 0 .. 64 - 1 /\ 64 \in Nat \ {0} /\ q \in Int
  BY <1>2
<1> HIDE DEF a
<1>5. a % 64 = r
  BY <1>4, RemainderIs
<1> QED
  BY <1>2, <1>3, <1>5 DEF a, SHA1_BLOCK_SIZE

LEMMA Sha1BufferedIs ==
  ASSUME NEW T, NEW N, NEW M, IsText(M, N, T), NEW ctx, NEW q, NEW r, IsSha1(ctx, M, q, r, T),
         NEW l, NEW piece, IsNext(piece, l, M, 64 * q + r, T), r + l <= 64, 64 * q + r + l <= N
  PROVE  IF r + l = 64 THEN IsSha1(Sha1Buffered(ctx, r, piece), M, q + 1, 0, T)
         ELSE IsSha1(Sha1Buffered(ctx, r, piece), M, q, r + l, T)
<1>1. PICK blocks, buf :
        /\ AreHeld(blocks, buf, M, q, r, T)
        /\ ctx = Held1(blocks, 64 * q + r, buf)
  BY DEF IsSha1
<1> DEFINE new == Overwritten(buf, r, piece)
           count == 64 * q + r + l
           filled == WithCount(ctx, new, count)
<1>2. AreHeld(blocks, new, M, q, r + l, T)
  BY <1>1, Filled64
<1>3. q \in Nat /\ r \in 0 .. 64 /\ IsTable(new, 64, T)
  BY <1>1, <1>2 DEF AreHeld
<1>4. l \in Nat /\ Len(piece) = l
  <2>1. IsText(piece, l, T)
    BY DEF IsNext
  <2> QED
    BY <2>1, TextIs
<1>5. ctx.buf = buf /\ ctx.count = 64 * q + r /\ ctx.state = blocks
  BY <1>1, Held1Fields
<1>6. Sha1Buffered(ctx, r, piece) = IF r + l = 64 THEN Sha1Transform(filled) ELSE filled
  BY <1>4, <1>5 DEF Sha1Buffered, SHA1_BLOCK_SIZE, WithCount
<1> HIDE DEF new, count
<1>7. filled = Held1(blocks, count, new)
  BY <1>1, Held1Buffer
<1> HIDE DEF filled
<1>8. CASE r + l = 64
  <2>1. Sha1Transform(filled) = WithState(filled, Append(blocks, new))
    BY <1>7, Held1Fields DEF Sha1Transform, WithState
  <2>2. count = 64 * (q + 1) + 0 /\ 64 * q + 64 <= N
    BY <1>3, <1>4, <1>8 DEF count
  <2>3. Sha1Buffered(ctx, r, piece) = Held1(Append(blocks, new), 64 * (q + 1) + 0, new)
    BY <1>6, <1>7, <1>8, <2>1, <2>2, Held1State
  <2>4. AreHeld(Append(blocks, new), new, M, q + 1, 0, T)
    BY <1>2, <1>3, <1>8, <2>2, CompressedFull
  <2> QED
    BY <1>8, <2>3, <2>4 DEF IsSha1
<1>9. CASE r + l # 64
  <2>1. count = 64 * q + (r + l) /\ r + l < 64
    BY <1>3, <1>4, <1>9 DEF count
  <2>2. Sha1Buffered(ctx, r, piece) = Held1(blocks, 64 * q + (r + l), new)
    BY <1>6, <1>7, <1>9, <2>1
  <2> QED
    BY <1>2, <1>9, <2>1, <2>2 DEF IsSha1
<1> QED
  BY <1>8, <1>9

Contexts1(T) == [state : Seq(Seq(T)), count : Nat, buf : [1 .. 64 -> T]]

LEMMA Sha1Types ==
  ASSUME NEW T, NEW N, NEW M, IsText(M, N, T), NEW ctx, NEW q, NEW r, IsSha1(ctx, M, q, r, T),
         64 * q + r <= N
  PROVE  ctx \in Contexts1(T)
<1>1. PICK blocks, buf :
        /\ AreHeld(blocks, buf, M, q, r, T)
        /\ ctx = Held1(blocks, 64 * q + r, buf)
  BY DEF IsSha1
<1>2. blocks \in Seq(Seq(T)) /\ buf \in [1 .. 64 -> T]
  BY <1>1, HeldTypes
<1>3. 64 * q + r \in Nat
  BY <1>1 DEF AreHeld
<1> QED
  BY <1>1, <1>2, <1>3 DEF Held1, Contexts1


AtLoop1(a, M, q, r, l, T) ==
  IsSha1(a.ctx, M, q, r, T) /\ IsNext(a.in, l, M, 64 * q + r, T)

Loops1(T) == [ctx : Contexts1(T), in : Seq(T)]

LEMMA AtLoop1Types ==
  ASSUME NEW T, NEW N, NEW M, IsText(M, N, T), NEW ctx, NEW in,
         NEW q, NEW r, NEW l, AtLoop1([ctx |-> ctx, in |-> in], M, q, r, l, T), 64 * q + r <= N
  PROVE  [ctx |-> ctx, in |-> in] \in Loops1(T)
<1>1. IsSha1(ctx, M, q, r, T) /\ IsNext(in, l, M, 64 * q + r, T)
  BY DEF AtLoop1
<1>2. ctx \in Contexts1(T)
  BY <1>1, Sha1Types
<1>3. in \in Seq(T)
  BY <1>1 DEF IsNext, IsText
<1> QED
  BY <1>2, <1>3 DEF Loops1

\* However a text is cut into pieces, Sha1Add goes on where the last one ended.
LEMMA Sha1AddIs ==
  ASSUME NEW T, NEW N, NEW M, IsText(M, N, T), NEW ctx, NEW n, IsSha1At(ctx, M, n, T),
         NEW l, NEW in, IsNext(in, l, M, n, T), n + l <= N
  PROVE  IsSha1At(Sha1Add(ctx, in), M, n + l, T)
<1>1. PICK q0 \in Nat, r0 \in 0 .. 63 : n = 64 * q0 + r0 /\ IsSha1(ctx, M, q0, r0, T)
  BY DEF IsSha1At
<1>2. l \in Nat /\ Len(in) = l /\ n \in Nat /\ N \in Nat
  <2>1. IsText(in, l, T)
    BY DEF IsNext
  <2>2. l \in Nat /\ Len(in) = l /\ N \in Nat
    BY <2>1, TextIs
  <2> QED
    BY <1>1, <2>2
<1> DEFINE e == n + l
           IsAt(a, q, r) == /\ 64 * q + r <= e
                            /\ AtLoop1(a, M, q, r, e - (64 * q + r), T)
           X == {a \in Loops1(T) : \E q \in Nat, r \in 0 .. 63 : IsAt(a, q, r)}
           start == [ctx |-> ctx, in |-> in]
           Fill(c) == c.count % SHA1_BLOCK_SIZE
           Room(c) == SHA1_BLOCK_SIZE - Fill(c)
           more(a) == [ctx |-> Sha1Buffered(a.ctx, Fill(a.ctx), First(a.in, Room(a.ctx))),
                       in |-> After(a.in, Room(a.ctx))]
           next(a) == IF Len(a.in) > Room(a.ctx) THEN more(a) ELSE a
           step == [a \in X |-> next(a)]
<1>3. start \in X /\ IsAt(start, q0, r0)
  <2>1. start.ctx = ctx /\ start.in = in
    OBVIOUS
  <2>2. n <= e /\ e - n = l /\ n <= N
    BY <1>2
  <2> HIDE DEF start
  <2>3. IsAt(start, q0, r0)
    BY <1>1, <2>1, <2>2 DEF AtLoop1
  <2>4. start \in Loops1(T)
    <3>1. AtLoop1([ctx |-> ctx, in |-> in], M, q0, r0, e - n, T) /\ 64 * q0 + r0 <= N
      BY <1>1, <2>2, <2>3 DEF start
    <3> QED
      BY <3>1, AtLoop1Types DEF start
  <2> QED
    BY <1>1, <2>3, <2>4
<1>4. ASSUME NEW a \in X, NEW q \in Nat, NEW r \in 0 .. 63, IsAt(a, q, r)
      PROVE  /\ e <= 64 * (q + 1) => next(a) = a
             /\ ~ (e <= 64 * (q + 1)) => next(a) \in X /\ IsAt(next(a), q + 1, 0)
  <2> DEFINE left == e - (64 * q + r)
             room == 64 - r
             b == more(a)
  <2>1. IsSha1(a.ctx, M, q, r, T) /\ IsNext(a.in, left, M, 64 * q + r, T)
    BY <1>4 DEF AtLoop1
  <2>2. Len(a.in) = left
    BY <2>1 DEF IsNext, IsText
  <2>3. left \in Nat /\ e \in Nat /\ e <= N /\ 64 * q + r + left = e
    BY <1>2, <1>4
  <2>4. Fill(a.ctx) = r /\ Room(a.ctx) = room
    <3>1. a.ctx.count % SHA1_BLOCK_SIZE = r
      BY <2>1, Sha1Count
    <3> QED
      BY <3>1 DEF SHA1_BLOCK_SIZE
  <2>5. CASE e <= 64 * (q + 1)
    <3>1. ~ (left > room)
      BY <2>3, <2>5
    <3> HIDE DEF Room, Fill, more
    <3> QED
      BY <2>2, <2>4, <2>5, <3>1
  <2>6. CASE ~ (e <= 64 * (q + 1))
    <3>1. left > room /\ room \in 0 .. left /\ r + room = 64 /\ r + room <= 64
          /\ 64 * q + r + room <= N /\ 64 * q + r \in Nat
          /\ left - room = e - (64 * (q + 1) + 0) /\ (64 * q + r) + room = 64 * (q + 1) + 0
          /\ 64 * (q + 1) + 0 <= e /\ 64 * (q + 1) + 0 <= N /\ q + 1 \in Nat /\ 0 \in 0 .. 63
      BY <1>2, <2>3, <2>6
    <3>2. b = [ctx |-> Sha1Buffered(a.ctx, r, First(a.in, room)), in |-> After(a.in, room)]
      BY <2>4
    <3> HIDE DEF Room, more
    <3>3. next(a) = b
      BY <2>2, <2>4, <3>1
    <3> HIDE DEF left, e, room
    <3>4. /\ IsNext(First(a.in, room), room, M, 64 * q + r, T)
          /\ IsNext(After(a.in, room), left - room, M, (64 * q + r) + room, T)
      BY <2>1, <3>1, NextParts
    <3> DEFINE part == First(a.in, room)
               rest == After(a.in, room)
               full == Sha1Buffered(a.ctx, r, part)
    <3> HIDE DEF part
    <3>5. IsSha1(full, M, q + 1, 0, T)
      BY <2>1, <3>1, <3>4, Sha1BufferedIs DEF part
    <3> HIDE DEF full, rest
    <3>6. b = [ctx |-> full, in |-> rest]
      BY <3>2 DEF full, part, rest
    <3>7. IsNext(rest, e - (64 * (q + 1) + 0), M, 64 * (q + 1) + 0, T)
      BY <3>1, <3>4 DEF rest
    <3> HIDE DEF b
    <3>8. AtLoop1(b, M, q + 1, 0, e - (64 * (q + 1) + 0), T)
      BY <3>5, <3>6, <3>7 DEF AtLoop1
    <3>9. b \in Loops1(T)
      BY <3>1, <3>6, <3>8, AtLoop1Types
    <3>10. IsAt(b, q + 1, 0)
      BY <3>1, <3>8
    <3> HIDE DEF IsAt, next
    <3> QED
      BY <2>6, <3>1, <3>3, <3>9, <3>10
  <2> QED
    BY <2>5, <2>6
<1>5. step \in [X -> X] /\ \A a \in X : step[a] = next(a)
  <2>1. ASSUME NEW a \in X PROVE next(a) \in X
    <3>1. PICK q \in Nat, r \in 0 .. 63 : IsAt(a, q, r)
      OBVIOUS
    <3> HIDE DEF IsAt, X, next
    <3> QED
      BY <1>4, <3>1
  <2> HIDE DEF X, next
  <2> QED
    BY <2>1
<1> DEFINE IsRun(f) == f = [k \in Nat |-> IF k = 0 THEN start ELSE next(f[k - 1])]
           after == CHOOSE f : IsRun(f)
           last == after[(l \div 64) + 1]
<1>6. Sha1Add(ctx, in) = Sha1Buffered(last.ctx, Fill(last.ctx), last.in)
  BY <1>2 DEF Sha1Add, SHA1_BLOCK_SIZE
<1> HIDE DEF X, step, start, last, more
<1>7. \E f \in [Nat -> X] : f = [k \in Nat |-> IF k = 0 THEN start ELSE step[f[k - 1]]]
  <2>1. IsMap(step, X)
    BY <1>5 DEF IsMap
  <2>2. PICK f : IsRunOf(f, X, start, step)
    BY <1>3, <2>1, Loop
  <2> QED
    BY <2>2 DEF IsRunOf
<1> HIDE DEF next
<1>8. \E f : IsRun(f)
  <2>1. PICK f \in [Nat -> X] : f = [k \in Nat |-> IF k = 0 THEN start ELSE step[f[k - 1]]]
    BY <1>7
  <2>2. ASSUME NEW k \in Nat PROVE f[k] = IF k = 0 THEN start ELSE next(f[k - 1])
    <3>1. CASE k = 0
      BY <2>1, <3>1
    <3>2. CASE k # 0
      <4>1. k - 1 \in Nat
        BY <3>2
      <4>2. f[k - 1] \in X
        BY <4>1
      <4>3. f[k] = step[f[k - 1]]
        BY <2>1, <3>2
      <4> QED
        BY <1>5, <3>2, <4>2, <4>3
    <3> QED
      BY <3>1, <3>2
  <2>3. IsRun(f)
    BY <2>1, <2>2
  <2> QED
    BY <2>3
<1>9. IsRun(after)
  BY <1>8
<1> HIDE DEF after
<1>10. after[0] = start /\ \A k \in Nat : after[k + 1] = next(after[k])
  <2>1. \A k \in Nat : after[k] = IF k = 0 THEN start ELSE next(after[k - 1])
    BY <1>9
  <2>2. \A k \in Nat : k + 1 \in Nat /\ k + 1 # 0 /\ (k + 1) - 1 = k
    OBVIOUS
  <2> QED
    BY <2>1, <2>2
<1> DEFINE Good == {k \in Nat : /\ after[k] \in X
                               /\ \E q \in Nat, r \in 0 .. 63 :
                                    IsAt(after[k], q, r) /\ (e <= 64 * (q + 1) \/ q = q0 + k)}
<1> HIDE DEF IsAt, e
<1>11. 0 \in Good
  <2>1. after[0] \in X /\ IsAt(after[0], q0, r0)
    BY <1>3, <1>10
  <2>2. q0 = q0 + 0
    OBVIOUS
  <2> QED
    BY <2>1, <2>2
<1>12. ASSUME NEW k \in Nat, k \in Good PROVE k + 1 \in Good
  <2>0. k + 1 \in Nat
    OBVIOUS
  <2>1. after[k + 1] = next(after[k])
    BY <1>10
  <2>2. PICK q \in Nat, r \in 0 .. 63 :
          /\ after[k] \in X
          /\ IsAt(after[k], q, r) /\ (e <= 64 * (q + 1) \/ q = q0 + k)
    BY <1>12
  <2>3. CASE e <= 64 * (q + 1)
    <3>1. after[k + 1] = after[k]
      BY <1>4, <2>1, <2>2, <2>3
    <3> QED
      BY <2>0, <2>2, <2>3, <3>1
  <2>4. CASE ~ (e <= 64 * (q + 1))
    <3>1. next(after[k]) \in X /\ IsAt(next(after[k]), q + 1, 0)
      BY <1>4, <2>2, <2>4
    <3>2. q + 1 \in Nat /\ q + 1 = q0 + (k + 1) /\ 0 \in 0 .. 63
      BY <2>2, <2>4
    <3> QED
      BY <2>0, <2>1, <3>1, <3>2
  <2> QED
    BY <2>3, <2>4
<1>13. Nat \subseteq Good
  <2> HIDE DEF Good
  <2> QED
    BY <1>11, <1>12, Induction
<1> DEFINE times == (l \div 64) + 1
<1>14. times \in Nat /\ e <= 64 * (q0 + times + 1) /\ e \in Nat
  <2>1. l \div 64 \in Int /\ l % 64 \in 0 .. 63 /\ l = 64 * (l \div 64) + (l % 64)
    BY <1>2, Division
  <2> QED
    BY <1>1, <1>2, <2>1 DEF e
<1>15. last = after[times]
  BY DEF last
<1> HIDE DEF times
<1>16. PICK q \in Nat, r \in 0 .. 63 :
         IsAt(after[times], q, r) /\ (e <= 64 * (q + 1) \/ q = q0 + times)
  BY <1>13, <1>14
<1>17. e <= 64 * (q + 1)
  BY <1>14, <1>16
<1> DEFINE left == e - (64 * q + r)
<1>18. 64 * q + r <= e /\ IsSha1(last.ctx, M, q, r, T) /\ IsNext(last.in, left, M, 64 * q + r, T)
  BY <1>15, <1>16 DEF IsAt, AtLoop1
<1>19. Fill(last.ctx) = r
  BY <1>18, Sha1Count
<1>20. left \in Nat /\ r + left <= 64 /\ 64 * q + r + left = e /\ e <= N
  <2>1. e <= N
    BY DEF e
  <2> QED
    BY <1>14, <1>17, <1>18, <2>1
<1> HIDE DEF left
<1>21. IF r + left = 64 THEN IsSha1(Sha1Add(ctx, in), M, q + 1, 0, T)
       ELSE IsSha1(Sha1Add(ctx, in), M, q, r + left, T)
  <2>1. IF r + left = 64 THEN IsSha1(Sha1Buffered(last.ctx, r, last.in), M, q + 1, 0, T)
        ELSE IsSha1(Sha1Buffered(last.ctx, r, last.in), M, q, r + left, T)
    BY <1>18, <1>20, Sha1BufferedIs
  <2> QED
    BY <1>6, <1>19, <2>1
<1>22. CASE r + left = 64
  <2>1. e = 64 * (q + 1) + 0 /\ q + 1 \in Nat /\ 0 \in 0 .. 63
    BY <1>20, <1>22
  <2> QED
    BY <1>21, <1>22, <2>1 DEF IsSha1At, e
<1>23. CASE r + left # 64
  <2>1. e = 64 * q + (r + left) /\ r + left \in 0 .. 63
    BY <1>20, <1>23
  <2> QED
    BY <1>21, <1>23, <2>1 DEF IsSha1At, e
<1> QED
  BY <1>22, <1>23


\* After as many zeros as the message needs Sha1Padded adds no more.
LEMMA Sha1PaddedIs ==
  ASSUME NEW T, HasBytes(T), NEW n, NEW z, NEW m, NEW M, IsPadded(M, m, n, z, T),
         NEW ctx, IsSha1At(ctx, M, n + 1, T)
  PROVE  IsSha1At(Sha1Padded(ctx), M, n + 1 + z, T)
<1> DEFINE N == n + z + 9
           at(j) == n + 1 + j
           IsAt(c, j) == IsSha1At(c, M, at(j), T)
           X == {c \in Contexts1(T) : \E j \in 0 .. z : IsAt(c, j)}
           zero == <<Byte(0)>>
           next(c) == IF c.count % 64 = 56 THEN c ELSE Sha1Add(c, zero)
           step == [c \in X |-> next(c)]
<1>1. /\ n \in Nat /\ z \in 0 .. 63 /\ N % 64 = 0 /\ IsText(M, N, T)
      /\ \A i \in 1 .. z : M[(n + 1) + i] = Byte(0)
  BY DEF IsPadded
<1>2. ASSUME NEW j \in 0 .. z PROVE at(j) % 64 = 56 <=> j = z
  <2> DEFINE w == N \div 64
             d == z - j
             a == at(j)
  <2>1. w \in Int /\ N = 64 * w
    BY <1>1, Division
  <2>2. d \in 0 .. 63 /\ a \in Int /\ a = N - 8 - d /\ 64 \in Nat \ {0}
    BY <1>1
  <2> HIDE DEF w, d, a, N
  <2>3. CASE d <= 56
    <3>1. a = 64 * (w - 1) + (56 - d) /\ w - 1 \in Int /\ 56 - d \in 0 .. 64 - 1
      BY <2>1, <2>2, <2>3
    <3>2. a % 64 = 56 - d
      BY <2>2, <3>1, RemainderIs
    <3>3. 56 - d = 56 <=> d = 0
      BY <2>2
    <3>4. d = 0 <=> j = z
      BY <1>1 DEF d
    <3> QED
      BY <3>2, <3>3, <3>4 DEF a
  <2>4. CASE ~ (d <= 56)
    <3>1. a = 64 * (w - 2) + (120 - d) /\ w - 2 \in Int /\ 120 - d \in 0 .. 64 - 1
      BY <2>1, <2>2, <2>4
    <3>2. a % 64 = 120 - d
      BY <2>2, <3>1, RemainderIs
    <3>3. 120 - d # 56 /\ d # 0
      BY <2>2, <2>4
    <3>4. d = 0 <=> j = z
      BY <1>1 DEF d
    <3> QED
      BY <3>2, <3>3, <3>4 DEF a
  <2> QED
    BY <2>3, <2>4
<1>3. ASSUME NEW c, NEW j \in 0 .. z, IsAt(c, j)
      PROVE  c \in Contexts1(T) /\ (c.count % 64 = 56 <=> j = z)
  <2>1. PICK q \in Nat, r \in 0 .. 63 : at(j) = 64 * q + r /\ IsSha1(c, M, q, r, T)
    BY <1>3 DEF IsSha1At
  <2>2. c.count = at(j)
    BY <2>1, Sha1Count
  <2>3. 64 * q + r <= N
    <3>1. at(j) <= N
      BY <1>1
    <3> QED
      BY <2>1, <3>1
  <2> HIDE DEF N
  <2>4. c \in Contexts1(T)
    BY <1>1, <2>1, <2>3, Sha1Types
  <2> QED
    BY <1>2, <2>2, <2>4
<1>4. ASSUME NEW c, NEW j \in 0 .. z, IsAt(c, j), j # z
      PROVE  IsAt(Sha1Add(c, zero), j + 1) /\ j + 1 \in 0 .. z
  <2>1. j + 1 \in 0 .. z /\ j + 1 \in 1 .. z /\ at(j) + 1 = at(j + 1) /\ at(j) + 1 <= N
        /\ at(j) + 1 = (n + 1) + (j + 1)
    BY <1>1, <1>4
  <2>2. IsText(zero, 1, T) /\ zero[1] = Byte(0)
    BY DEF HasBytes, IsText
  <2>3. M[at(j) + 1] = Byte(0)
    BY <1>1, <2>1
  <2> HIDE DEF zero, at, N
  <2>4. IsNext(zero, 1, M, at(j), T)
    BY <2>2, <2>3 DEF IsNext
  <2>5. IsSha1At(Sha1Add(c, zero), M, at(j) + 1, T)
    BY <1>1, <1>4, <2>1, <2>4, Sha1AddIs
  <2> QED
    BY <2>1, <2>5
<1>5. ctx \in X /\ IsAt(ctx, 0) /\ 0 \in 0 .. z
  <2>1. at(0) = n + 1 /\ 0 \in 0 .. z
    BY <1>1
  <2>2. IsAt(ctx, 0)
    BY <2>1
  <2> HIDE DEF IsAt
  <2> QED
    BY <1>3, <2>1, <2>2
<1> HIDE DEF IsAt
<1>6. ASSUME NEW c, NEW j \in 0 .. z, IsAt(c, j)
      PROVE  /\ j = z => next(c) = c
             /\ j # z => IsAt(next(c), j + 1) /\ j + 1 \in 0 .. z
  BY <1>3, <1>4, <1>6
<1>7. step \in [X -> X] /\ \A c \in X : step[c] = next(c)
  <2>1. ASSUME NEW c \in X PROVE next(c) \in X
    <3>1. PICK j \in 0 .. z : IsAt(c, j)
      OBVIOUS
    <3> HIDE DEF next
    <3>2. \E i \in 0 .. z : IsAt(next(c), i)
      <4>1. CASE j = z
        BY <1>6, <3>1, <4>1
      <4>2. CASE j # z
        BY <1>6, <3>1, <4>2
      <4> QED
        BY <4>1, <4>2
    <3> QED
      BY <1>3, <3>2
  <2> HIDE DEF X, next
  <2> QED
    BY <2>1
<1> DEFINE IsRun(f) == f = [k \in Nat |-> IF k = 0 THEN ctx ELSE next(f[k - 1])]
           after == CHOOSE f : IsRun(f)
<1>8. Sha1Padded(ctx) = after[63]
  <2>1. Sha1Padded(ctx) = after[64 - 1]
    BY DEF Sha1Padded, SHA1_BLOCK_SIZE
  <2>2. 64 - 1 = 63
    OBVIOUS
  <2> QED
    BY <2>1, <2>2
<1> HIDE DEF X, step
<1>9. \E f \in [Nat -> X] : f = [k \in Nat |-> IF k = 0 THEN ctx ELSE step[f[k - 1]]]
  <2>1. IsMap(step, X)
    BY <1>7 DEF IsMap
  <2>2. PICK f : IsRunOf(f, X, ctx, step)
    BY <1>5, <2>1, Loop
  <2> QED
    BY <2>2 DEF IsRunOf
<1> HIDE DEF next
<1>10. \E f : IsRun(f)
  <2>1. PICK f \in [Nat -> X] : f = [k \in Nat |-> IF k = 0 THEN ctx ELSE step[f[k - 1]]]
    BY <1>9
  <2>2. ASSUME NEW k \in Nat PROVE f[k] = IF k = 0 THEN ctx ELSE next(f[k - 1])
    <3>1. CASE k = 0
      BY <2>1, <3>1
    <3>2. CASE k # 0
      <4>1. k - 1 \in Nat
        BY <3>2
      <4>2. f[k - 1] \in X
        BY <4>1
      <4>3. f[k] = step[f[k - 1]]
        BY <2>1, <3>2
      <4> QED
        BY <1>7, <3>2, <4>2, <4>3
    <3> QED
      BY <3>1, <3>2
  <2>3. IsRun(f)
    BY <2>1, <2>2
  <2> QED
    BY <2>3
<1>11. IsRun(after)
  BY <1>10
<1> HIDE DEF after
<1>12. after[0] = ctx /\ \A k \in Nat : after[k + 1] = next(after[k])
  <2>1. \A k \in Nat : after[k] = IF k = 0 THEN ctx ELSE next(after[k - 1])
    BY <1>11
  <2>2. \A k \in Nat : k + 1 \in Nat /\ k + 1 # 0 /\ (k + 1) - 1 = k
    OBVIOUS
  <2> QED
    BY <2>1, <2>2
<1> DEFINE Good == {k \in Nat : \E j \in 0 .. z : IsAt(after[k], j) /\ (j = z \/ j = k)}
<1>13. 0 \in Good
  BY <1>5, <1>12
<1>14. ASSUME NEW k \in Nat, k \in Good PROVE k + 1 \in Good
  <2>0. k + 1 \in Nat /\ after[k + 1] = next(after[k])
    BY <1>12
  <2>1. PICK j \in 0 .. z : IsAt(after[k], j) /\ (j = z \/ j = k)
    BY <1>14
  <2>2. CASE j = z
    BY <1>6, <2>0, <2>1, <2>2
  <2>3. CASE j # z
    <3>1. IsAt(next(after[k]), j + 1) /\ j + 1 \in 0 .. z /\ j + 1 = k + 1
      BY <1>6, <2>1, <2>3
    <3> QED
      BY <2>0, <3>1
  <2> QED
    BY <2>2, <2>3
<1>15. Nat \subseteq Good
  <2> HIDE DEF Good
  <2> QED
    BY <1>13, <1>14, Induction
<1>16. PICK j \in 0 .. z : IsAt(after[63], j) /\ (j = z \/ j = 63)
  BY <1>15
<1>17. j = z
  BY <1>1, <1>16
<1> QED
  BY <1>8, <1>16, <1>17 DEF IsAt

LEMMA Sha1FinishIs ==
  ASSUME NEW T, HasBytes(T), NEW n, NEW m, IsText(m, n, T), NEW ctx, IsSha1At(ctx, m, n, T)
  PROVE  Sha1Finish(ctx) = Digest(m, SHA1_HASH_SIZE)
<1> DEFINE z == (55 - n) % 64
           M == PaddedMessage(m)
           N == n + z + 9
           one == <<Byte(128)>>
           length == BigEndian(8 * n, 8)
           ended == Sha1Add(ctx, one)
           cleared == Sha1Padded(ended)
           last == Sha1Add(cleared, length)
<1>1. IsPadded(M, m, n, z, T)
  BY PaddedMessageIs
<1> HIDE DEF M, z
<1>2. /\ n \in Nat /\ z \in 0 .. 63 /\ N % 64 = 0 /\ IsText(M, N, T)
      /\ \A i \in 1 .. n : M[i] = m[i]
      /\ M[n + 1] = Byte(128)
      /\ \A i \in 1 .. 8 : M[(n + 1 + z) + i] = length[i]
  BY <1>1 DEF IsPadded
<1>3. n <= N /\ n + 1 <= N /\ (n + 1 + z) + 8 = N /\ (n + 1 + z) + 8 <= N
  BY <1>2
<1>4. PICK q \in Nat, r \in 0 .. 63 : n = 64 * q + r /\ IsSha1(ctx, m, q, r, T)
  BY DEF IsSha1At
<1>5. ctx.count * 8 = 8 * n
  <2>1. ctx.count = n
    BY <1>4, Sha1Count
  <2> QED
    BY <1>2, <2>1
<1>6. Sha1Finish(ctx) = [i \in 1 .. SHA1_HASH_SIZE |-> HashOctet(last.state, i)]
  BY <1>5 DEF Sha1Finish
<1> HIDE DEF N
<1>7. IsSha1At(ctx, M, n, T)
  <2>1. PICK blocks, buf :
          /\ AreHeld(blocks, buf, m, q, r, T)
          /\ ctx = Held1(blocks, 64 * q + r, buf)
    BY <1>4 DEF IsSha1
  <2>2. AreHeld(blocks, buf, M, q, r, T)
    BY <1>2, <1>3, <1>4, <2>1, HeldInLonger
  <2>3. IsSha1(ctx, M, q, r, T)
    BY <2>1, <2>2 DEF IsSha1
  <2> QED
    BY <1>4, <2>3 DEF IsSha1At
<1>8. IsSha1At(ended, M, n + 1, T)
  <2>1. IsText(one, 1, T) /\ one[1] = Byte(128)
    BY DEF HasBytes, IsText
  <2> HIDE DEF one
  <2>2. IsNext(one, 1, M, n, T)
    BY <1>2, <2>1 DEF IsNext
  <2> QED
    BY <1>2, <1>3, <1>7, <2>2, Sha1AddIs
<1> HIDE DEF ended
<1>9. IsSha1At(cleared, M, n + 1 + z, T)
  BY <1>1, <1>8, Sha1PaddedIs
<1> HIDE DEF cleared
<1>10. IsSha1At(last, M, N, T)
  <2>1. 8 * n \in Nat
    BY <1>2
  <2>2. IsText(length, 8, T)
    BY <2>1, LengthIs
  <2> HIDE DEF length
  <2> DEFINE at == n + 1 + z
  <2>3. IsNext(length, 8, M, at, T)
    BY <1>2, <2>2 DEF IsNext
  <2>4. at + 8 <= N /\ at + 8 = N /\ IsSha1At(cleared, M, at, T)
    BY <1>3, <1>9
  <2> HIDE DEF at
  <2>5. IsSha1At(last, M, at + 8, T)
    BY <1>2, <2>3, <2>4, Sha1AddIs
  <2> QED
    BY <2>4, <2>5
<1> HIDE DEF last
<1>11. PICK p \in Nat, s \in 0 .. 63 : N = 64 * p + s /\ IsSha1(last, M, p, s, T)
  BY <1>10 DEF IsSha1At
<1>12. s = 0
  <2>1. N \in Int /\ s \in 0 .. 64 - 1 /\ 64 \in Nat \ {0} /\ p \in Int
    BY <1>11
  <2>2. N % 64 = s
    BY <1>11, <2>1, RemainderIs
  <2> QED
    BY <1>2, <2>2
<1>13. PICK blocks, buf :
         /\ AreHeld(blocks, buf, M, p, 0, T)
         /\ last = Held1(blocks, 64 * p + s, buf)
  BY <1>11, <1>12 DEF IsSha1
<1>14. last.state = blocks
  BY <1>13, Held1Fields
<1>15. 64 * p = N
  BY <1>11, <1>12
<1>16. blocks = Blocks(M)
  BY <1>2, <1>13, <1>15, AllHeld
<1> QED
  BY <1>6, <1>14, <1>16 DEF Digest, M

LEMMA Sha1StartIs ==
  ASSUME NEW T, HasBytes(T), NEW M
  PROVE  IsSha1At(Sha1Start, M, 0, T)
<1> DEFINE buf == Filled(64, Unset)
<1>1. IsTable(buf, 64, T)
  BY DEF HasBytes, IsTable, Filled
<1>2. Sha1Start = Held1(<<>>, 64 * 0 + 0, buf)
  BY DEF Sha1Start, SHA1_BLOCK_SIZE, Held1
<1> HIDE DEF buf
<1>3. IsSequence(<<>>) /\ Len(<<>>) = 0
  BY EmptySeq DEF IsSequence
<1>4. AreHeld(<<>>, buf, M, 0, 0, T)
  BY <1>1, <1>3 DEF AreHeld
<1>5. IsSha1(Sha1Start, M, 0, 0, T)
  BY <1>2, <1>4 DEF IsSha1
<1>6. 0 \in Nat /\ 0 \in 0 .. 63 /\ 0 = 64 * 0 + 0
  OBVIOUS
<1> QED
  BY <1>5, <1>6 DEF IsSha1At

LEMMA Sha1Is ==
  ASSUME NEW T, HasBytes(T), NEW n, NEW m, IsText(m, n, T)
  PROVE  Sha1(m) = Digest(m, SHA1_HASH_SIZE)
<1>1. n \in Nat
  BY TextIs
<1> DEFINE none == 0
           ctx == Sha1Add(Sha1Start, m)
<1>2. IsSha1At(Sha1Start, m, none, T)
  BY Sha1StartIs
<1>3. none + n = n /\ n <= n /\ IsNext(m, n, m, none, T)
  BY <1>1 DEF IsNext
<1> HIDE DEF none
<1>4. IsSha1At(ctx, m, n, T)
  BY <1>2, <1>3, Sha1AddIs
<1> HIDE DEF ctx
<1>5. Sha1Finish(ctx) = Digest(m, SHA1_HASH_SIZE)
  BY <1>4, Sha1FinishIs
<1> QED
  BY <1>5 DEF Sha1, ctx


Numbers == {Byte(n) : n \in Nat}
OctetsOf(name) == {Octet(name, i) : i \in Nat}

-----------------------------------------------------------------------------
(* Messages and MACs *)

\* A running hash takes a piece more of its message.
LEMMA Sha256Goes ==
  ASSUME NEW T, NEW n, NEW m, IsText(m, n, T), NEW md, IsSha256At(md, m, n, T),
         NEW l, NEW piece, IsText(piece, l, T), NEW M, IsConcat(m, n, piece, l, M, T)
  PROVE  IsSha256At(Sha256Add(md, piece), M, n + l, T)
<1>1. /\ IsText(M, n + l, T)
      /\ \A i \in 1 .. n : M[i] = m[i]
      /\ \A i \in 1 .. l : M[n + i] = piece[i]
  BY DEF IsConcat
<1>2. n \in Nat /\ l \in Nat
  BY TextIs
<1> DEFINE N == n + l
<1>3. n <= N /\ n + l <= N
  BY <1>2
<1>4. IsNext(piece, l, M, n, T)
  BY <1>1 DEF IsNext
<1>5. IsText(M, N, T)
  BY <1>1
<1> HIDE DEF N
<1>6. IsSha256At(md, M, n, T)
  <2>1. PICK q \in Nat, r \in 0 .. 63 : n = 64 * q + r /\ IsSha256(md, m, q, r, T)
    BY DEF IsSha256At
  <2>2. PICK blocks, buf :
          /\ AreHeld(blocks, buf, m, q, r, T)
          /\ md = Held256(blocks, r, 512 * q, buf)
    BY <2>1 DEF IsSha256
  <2>3. AreHeld(blocks, buf, M, q, r, T)
    BY <1>1, <1>3, <1>5, <2>1, <2>2, HeldInLonger
  <2>4. IsSha256(md, M, q, r, T)
    BY <2>1, <2>2, <2>3 DEF IsSha256
  <2> QED
    BY <2>1, <2>4 DEF IsSha256At
<1> QED
  BY <1>3, <1>4, <1>5, <1>6, Sha256AddIs

LEMMA Sha1Goes ==
  ASSUME NEW T, NEW n, NEW m, IsText(m, n, T), NEW ctx, IsSha1At(ctx, m, n, T),
         NEW l, NEW piece, IsText(piece, l, T), NEW M, IsConcat(m, n, piece, l, M, T)
  PROVE  IsSha1At(Sha1Add(ctx, piece), M, n + l, T)
<1>1. /\ IsText(M, n + l, T)
      /\ \A i \in 1 .. n : M[i] = m[i]
      /\ \A i \in 1 .. l : M[n + i] = piece[i]
  BY DEF IsConcat
<1>2. n \in Nat /\ l \in Nat
  BY TextIs
<1> DEFINE N == n + l
<1>3. n <= N /\ n + l <= N
  BY <1>2
<1>4. IsNext(piece, l, M, n, T)
  BY <1>1 DEF IsNext
<1>5. IsText(M, N, T)
  BY <1>1
<1> HIDE DEF N
<1>6. IsSha1At(ctx, M, n, T)
  <2>1. PICK q \in Nat, r \in 0 .. 63 : n = 64 * q + r /\ IsSha1(ctx, m, q, r, T)
    BY DEF IsSha1At
  <2>2. PICK blocks, buf :
          /\ AreHeld(blocks, buf, m, q, r, T)
          /\ ctx = Held1(blocks, 64 * q + r, buf)
    BY <2>1 DEF IsSha1
  <2>3. AreHeld(blocks, buf, M, q, r, T)
    BY <1>1, <1>3, <1>5, <2>1, <2>2, HeldInLonger
  <2>4. IsSha1(ctx, M, q, r, T)
    BY <2>1, <2>2, <2>3 DEF IsSha1
  <2> QED
    BY <2>1, <2>4 DEF IsSha1At
<1> QED
  BY <1>3, <1>4, <1>5, <1>6, Sha1AddIs

\* The first piece.
LEMMA Sha256Begins ==
  ASSUME NEW T, HasBytes(T), NEW n, NEW m, IsText(m, n, T)
  PROVE  IsSha256At(Sha256Add(Sha256Start, m), m, n, T)
<1>1. n \in Nat
  BY TextIs
<1> DEFINE none == 0
<1>2. IsSha256At(Sha256Start, m, none, T)
  BY Sha256StartIs
<1>3. none + n = n /\ n <= n /\ IsNext(m, n, m, none, T)
  BY <1>1 DEF IsNext
<1> HIDE DEF none
<1> QED
  BY <1>2, <1>3, Sha256AddIs

LEMMA Sha1Begins ==
  ASSUME NEW T, HasBytes(T), NEW n, NEW m, IsText(m, n, T)
  PROVE  IsSha1At(Sha1Add(Sha1Start, m), m, n, T)
<1>1. n \in Nat
  BY TextIs
<1> DEFINE none == 0
<1>2. IsSha1At(Sha1Start, m, none, T)
  BY Sha1StartIs
<1>3. none + n = n /\ n <= n /\ IsNext(m, n, m, none, T)
  BY <1>1 DEF IsNext
<1> HIDE DEF none
<1> QED
  BY <1>2, <1>3, Sha1AddIs

\* The key of an HMAC: k, with zeros behind it, as a block; and under a pad.
KeyBlockOf(k) == k \o Filled(64 - Len(k), Byte(0))
PadOf(k, x) == [i \in 1 .. 64 |-> Xored(IF i <= Len(k) THEN k[i] ELSE Byte(0), x)]
XorsOf(T, x) == {Xored(b, x) : b \in T}

LEMMA KeyBlockIs ==
  ASSUME NEW T, HasBytes(T), NEW l, NEW k, IsText(k, l, T), l <= 64
  PROVE  \A i \in 1 .. 64 : KeyBlockOf(k)[i] = IF i <= Len(k) THEN k[i] ELSE Byte(0)
<1> DEFINE rest == 64 - l
           zeros == Filled(rest, Byte(0))
           block == k \o zeros
<1>1. l \in Nat /\ Len(k) = l /\ rest \in Nat
  <2>1. l \in Nat /\ Len(k) = l
    BY TextIs
  <2> QED
    BY <2>1
<1>2. IsText(zeros, rest, T) /\ \A i \in 1 .. rest : zeros[i] = Byte(0)
  <2>1. Byte(0) \in T
    BY DEF HasBytes
  <2> HIDE DEF rest
  <2> QED
    BY <1>1, <2>1, FilledIs
<1>3. KeyBlockOf(k) = block
  BY <1>1 DEF KeyBlockOf
<1> HIDE DEF zeros
<1>4. IsConcat(k, l, zeros, rest, block, T)
  BY <1>2, ConcatIs
<1> HIDE DEF block
<1>5. (\A i \in 1 .. l : block[i] = k[i]) /\ \A i \in 1 .. rest : block[l + i] = zeros[i]
  BY <1>4 DEF IsConcat
<1>6. ASSUME NEW i \in 1 .. 64 PROVE block[i] = IF i <= l THEN k[i] ELSE Byte(0)
  <2>1. CASE i <= l
    <3>1. i \in 1 .. l
      BY <1>1, <2>1
    <3> QED
      BY <1>5, <2>1, <3>1
  <2>2. CASE ~ (i <= l)
    <3>1. i - l \in 1 .. rest /\ l + (i - l) = i
      BY <1>1, <2>2
    <3>2. block[l + (i - l)] = zeros[i - l]
      BY <1>5, <3>1
    <3> QED
      BY <1>2, <2>2, <3>1, <3>2
  <2> QED
    BY <2>1, <2>2
<1> QED
  BY <1>1, <1>3, <1>6

LEMMA PadIs ==
  ASSUME NEW T, HasBytes(T), NEW l, NEW k, IsText(k, l, T), NEW x, NEW U, XorsOf(T, x) \subseteq U
  PROVE  IsText(PadOf(k, x), 64, U)
<1>1. l \in Nat /\ Len(k) = l /\ \A i \in 1 .. l : k[i] \in T
  BY TextIs
<1>2. ASSUME NEW i \in 1 .. 64 PROVE Xored(IF i <= Len(k) THEN k[i] ELSE Byte(0), x) \in U
  <2>1. (IF i <= Len(k) THEN k[i] ELSE Byte(0)) \in T
    BY <1>1 DEF HasBytes
  <2> QED
    BY <2>1 DEF XorsOf
<1>3. IsTable(PadOf(k, x), 64, U) /\ 64 \in Nat
  BY <1>2 DEF PadOf, IsTable
<1> QED
  BY <1>3, IsTextOf

LEMMA HmacPads ==
  ASSUME NEW T, HasBytes(T), NEW l, NEW k, IsText(k, l, T), l <= 64, NEW x
  PROVE  /\ HmacSha256!Padded(KeyBlockOf(k), x) = PadOf(k, x)
         /\ HmacSha1!Padded(KeyBlockOf(k), x) = PadOf(k, x)
<1>1. \A i \in 1 .. 64 : KeyBlockOf(k)[i] = IF i <= Len(k) THEN k[i] ELSE Byte(0)
  BY KeyBlockIs
<1> DEFINE padded == [i \in 1 .. 64 |-> Xored(KeyBlockOf(k)[i], x)]
<1>2. padded = PadOf(k, x)
  BY <1>1 DEF PadOf
<1>3. HmacSha256!Padded(KeyBlockOf(k), x) = padded
  BY DEF HmacSha256!Padded, HmacSha256!BLOCK_SIZE, HmacSha256!Xored, Xored
<1>4. HmacSha1!Padded(KeyBlockOf(k), x) = padded
  BY DEF HmacSha1!Padded, HmacSha1!BLOCK_SIZE, HmacSha1!Xored, Xored
<1> QED
  BY <1>2, <1>3, <1>4

\* What an HMAC with hashes of `size' bytes makes of its key first.
ShortKey(key, size) == IF Len(key) > 64 THEN Digest(key, size) ELSE key
DigestBytes(m, size) == {Digest(m, size)[i] : i \in 1 .. size}

LEMMA DigestIs ==
  ASSUME NEW m, NEW size, size \in Nat, NEW T, DigestBytes(m, size) \subseteq T
  PROVE  IsText(Digest(m, size), size, T)
<1>1. \A i \in 1 .. size : Digest(m, size)[i] \in T
  BY DEF DigestBytes
<1>2. Digest(m, size) = [i \in 1 .. size |-> Digest(m, size)[i]]
  BY DEF Digest
<1>3. IsTable(Digest(m, size), size, T)
  BY <1>1, <1>2 DEF IsTable
<1> QED
  BY <1>3, IsTextOf

LEMMA ShortKeyIs ==
  ASSUME NEW n, NEW key, NEW T, IsText(key, n, T), NEW size, size \in 0 .. 64,
         DigestBytes(key, size) \subseteq T
  PROVE  \E l : IsText(ShortKey(key, size), l, T) /\ l <= 64
<1>1. n \in Nat /\ Len(key) = n
  BY TextIs
<1>2. CASE n > 64
  <2>1. size \in Nat /\ size <= 64
    OBVIOUS
  <2>2. IsText(Digest(key, size), size, T)
    BY <2>1, DigestIs
  <2> QED
    BY <1>1, <1>2, <2>1, <2>2 DEF ShortKey
<1>3. CASE ~ (n > 64)
  <2>1. n <= 64 /\ ShortKey(key, size) = key
    BY <1>1, <1>3 DEF ShortKey
  <2> QED
    BY <2>1
<1> QED
  BY <1>2, <1>3

LEMMA HmacKeysAre ==
  ASSUME NEW T, HasBytes(T), NEW n, NEW key, IsText(key, n, T)
  PROVE  /\ HmacSha256!HmacKey(key) = KeyBlockOf(ShortKey(key, SHA256_HASH_SIZE))
         /\ HmacSha1!HmacKey(key) = KeyBlockOf(ShortKey(key, SHA1_HASH_SIZE))
<1>1. Sha256(key) = Digest(key, SHA256_HASH_SIZE) /\ Sha1(key) = Digest(key, SHA1_HASH_SIZE)
  BY Sha256Is, Sha1Is
<1>2. HmacSha256!HmacKey(key) = KeyBlockOf(IF Len(key) > 64 THEN Sha256(key) ELSE key)
  BY DEF HmacSha256!HmacKey, HmacSha256!BLOCK_SIZE, HmacSha256!Filled, HmacSha256!Byte,
         KeyBlockOf, Filled, Byte
<1>3. HmacSha1!HmacKey(key) = KeyBlockOf(IF Len(key) > 64 THEN Sha1(key) ELSE key)
  BY DEF HmacSha1!HmacKey, HmacSha1!BLOCK_SIZE, HmacSha1!Filled, HmacSha1!Byte,
         KeyBlockOf, Filled, Byte
<1> QED
  BY <1>1, <1>2, <1>3 DEF ShortKey


-----------------------------------------------------------------------------
(* The running hashes and MACs *)

\* What is in a key and a message, and in the digest that a long key becomes.
KeyBytes(key) ==
  UNION {Numbers, {Unset}, OctetsOf("key"), OctetsOf("message"),
         DigestBytes(key, SHA256_HASH_SIZE), DigestBytes(key, SHA1_HASH_SIZE)}

\* And what is in the blocks that an HMAC makes of the key.
HashBytes(key) == UNION {KeyBytes(key), XorsOf(KeyBytes(key), 54), XorsOf(KeyBytes(key), 92)}

LEMMA HashBytesHave ==
  ASSUME NEW key
  PROVE  /\ HasBytes(KeyBytes(key)) /\ HasBytes(HashBytes(key))
         /\ KeyBytes(key) \subseteq HashBytes(key)
         /\ OctetsOf("key") \subseteq KeyBytes(key)
         /\ OctetsOf("message") \subseteq KeyBytes(key)
         /\ DigestBytes(key, SHA256_HASH_SIZE) \subseteq KeyBytes(key)
         /\ DigestBytes(key, SHA1_HASH_SIZE) \subseteq KeyBytes(key)
         /\ XorsOf(KeyBytes(key), 54) \subseteq HashBytes(key)
         /\ XorsOf(KeyBytes(key), 92) \subseteq HashBytes(key)
<1>1. HasBytes(KeyBytes(key))
  BY DEF KeyBytes, HasBytes, Numbers
<1>2. KeyBytes(key) \subseteq HashBytes(key)
  BY DEF HashBytes
<1>3. HasBytes(HashBytes(key))
  BY <1>1, <1>2 DEF HasBytes
<1>4. /\ XorsOf(KeyBytes(key), 54) \subseteq HashBytes(key)
      /\ XorsOf(KeyBytes(key), 92) \subseteq HashBytes(key)
  BY DEF HashBytes
<1> QED
  BY <1>1, <1>2, <1>3, <1>4 DEF KeyBytes

\* The running hash of an HMAC has the padded key and the first n bytes of the message.
InnerText(key, size, m) == PadOf(ShortKey(key, size), 54) \o m

IsHmac256(md, key, m, n) ==
  \E sha : /\ IsSha256At(sha, InnerText(key, SHA256_HASH_SIZE, m), 64 + n, HashBytes(key))
           /\ md = [hmacKey |-> KeyBlockOf(ShortKey(key, SHA256_HASH_SIZE)), shaStruct |-> sha]

IsHmac1(md, key, m, n) ==
  \E sha : /\ IsSha1At(sha, InnerText(key, SHA1_HASH_SIZE, m), 64 + n, HashBytes(key))
           /\ md = [hmacKey |-> KeyBlockOf(ShortKey(key, SHA1_HASH_SIZE)), shaStruct |-> sha]

LEMMA KeyPadIs ==
  ASSUME NEW n, NEW key, IsText(key, n, OctetsOf("key")),
         NEW size, size \in {SHA256_HASH_SIZE, SHA1_HASH_SIZE}
  PROVE  /\ \E l : IsText(ShortKey(key, size), l, KeyBytes(key)) /\ l <= 64
         /\ IsText(PadOf(ShortKey(key, size), 54), 64, HashBytes(key))
         /\ IsText(PadOf(ShortKey(key, size), 92), 64, HashBytes(key))
<1> DEFINE T == KeyBytes(key)
           U == HashBytes(key)
<1>1. /\ HasBytes(T) /\ OctetsOf("key") \subseteq T /\ DigestBytes(key, size) \subseteq T
      /\ XorsOf(T, 54) \subseteq U /\ XorsOf(T, 92) \subseteq U
  BY HashBytesHave
<1>2. size \in 0 .. 64
  BY DEF SHA256_HASH_SIZE, SHA1_HASH_SIZE
<1> HIDE DEF T, U
<1>3. IsText(key, n, T)
  BY <1>1, TextIn
<1>4. PICK l : IsText(ShortKey(key, size), l, T) /\ l <= 64
  BY <1>1, <1>2, <1>3, ShortKeyIs
<1>5. /\ IsText(PadOf(ShortKey(key, size), 54), 64, U)
      /\ IsText(PadOf(ShortKey(key, size), 92), 64, U)
  BY <1>1, <1>4, PadIs
<1> QED
  BY <1>4, <1>5 DEF T, U

LEMMA InnerTextIs ==
  ASSUME NEW n, NEW key, IsText(key, n, OctetsOf("key")),
         NEW size, size \in {SHA256_HASH_SIZE, SHA1_HASH_SIZE},
         NEW l, NEW m, IsText(m, l, OctetsOf("message"))
  PROVE  IsText(InnerText(key, size, m), 64 + l, HashBytes(key))
<1> DEFINE U == HashBytes(key)
           pad == PadOf(ShortKey(key, size), 54)
<1>1. OctetsOf("message") \subseteq U
  BY HashBytesHave
<1>2. IsText(pad, 64, U)
  BY KeyPadIs
<1> HIDE DEF U, pad
<1>3. IsText(m, l, U)
  BY <1>1, TextIn
<1>4. IsText(pad \o m, 64 + l, U)
  BY <1>2, <1>3, ConcatIsText
<1> QED
  BY <1>4 DEF InnerText, U, pad

\* A piece more of the message is a piece more of that text.
LEMMA InnerTextGoes ==
  ASSUME NEW n, NEW key, IsText(key, n, OctetsOf("key")),
         NEW size, size \in {SHA256_HASH_SIZE, SHA1_HASH_SIZE},
         NEW l, NEW m, IsText(m, l, OctetsOf("message")),
         NEW lp, NEW piece, IsText(piece, lp, OctetsOf("message"))
  PROVE  IsConcat(InnerText(key, size, m), 64 + l, piece, lp, InnerText(key, size, m \o piece),
                  HashBytes(key))
<1> DEFINE U == HashBytes(key)
           pad == PadOf(ShortKey(key, size), 54)
           a == pad \o m
<1>1. OctetsOf("message") \subseteq U
  BY HashBytesHave
<1>2. IsText(pad, 64, U)
  BY KeyPadIs
<1> HIDE DEF U, pad
<1>3. IsText(m, l, U) /\ IsText(piece, lp, U)
  BY <1>1, TextIn
<1>4. IsText(a, 64 + l, U)
  BY <1>2, <1>3, ConcatIsText
<1> HIDE DEF a
<1>5. IsConcat(a, 64 + l, piece, lp, a \o piece, U)
  BY <1>3, <1>4, ConcatIs
<1>6. a \o piece = pad \o (m \o piece)
  <2>1. pad \in Seq(U) /\ m \in Seq(U) /\ piece \in Seq(U)
    BY <1>2, <1>3 DEF IsText
  <2> QED
    BY <2>1, ConcatAssociative DEF a
<1> QED
  BY <1>5, <1>6 DEF InnerText, U, pad, a


LEMMA HmacsStart ==
  ASSUME NEW n, NEW key, IsText(key, n, OctetsOf("key"))
  PROVE  /\ IsHmac256(HmacSha256!Start(key), key, <<>>, 0)
         /\ IsHmac1(HmacSha1!Start(key), key, <<>>, 0)
<1> DEFINE T == KeyBytes(key)
           U == HashBytes(key)
           k256 == ShortKey(key, SHA256_HASH_SIZE)
           k1 == ShortKey(key, SHA1_HASH_SIZE)
           pad256 == PadOf(k256, 54)
           pad1 == PadOf(k1, 54)
           sha256Pad == Sha256Add(Sha256Start, pad256)
           sha1Pad == Sha1Add(Sha1Start, pad1)
<1>1. HasBytes(T) /\ HasBytes(U) /\ OctetsOf("key") \subseteq T
  BY HashBytesHave
<1>2. IsText(key, n, T)
  BY <1>1, TextIn
<1>3. /\ \E l : IsText(k256, l, T) /\ l <= 64
      /\ \E l : IsText(k1, l, T) /\ l <= 64
      /\ IsText(pad256, 64, U) /\ IsText(pad1, 64, U)
  BY KeyPadIs
<1> HIDE DEF T, U, k256, k1
<1>4. HmacSha256!HmacKey(key) = KeyBlockOf(k256) /\ HmacSha1!HmacKey(key) = KeyBlockOf(k1)
  BY <1>1, <1>2, HmacKeysAre DEF k256, k1
<1>5. HmacSha256!Padded(KeyBlockOf(k256), 54) = pad256
  BY <1>1, <1>3, HmacPads
<1>6. HmacSha1!Padded(KeyBlockOf(k1), 54) = pad1
  BY <1>1, <1>3, HmacPads
<1>7. IsSha256At(sha256Pad, pad256, 64, U)
  <2> HIDE DEF pad256
  <2> QED
    BY <1>1, <1>3, Sha256Begins
<1>8. IsSha1At(sha1Pad, pad1, 64, U)
  <2> HIDE DEF pad1
  <2> QED
    BY <1>1, <1>3, Sha1Begins
<1>9. HmacSha256!Start(key) = [hmacKey |-> KeyBlockOf(k256), shaStruct |-> sha256Pad]
  BY <1>4, <1>5 DEF HmacSha256!Start
<1>10. HmacSha1!Start(key) = [hmacKey |-> KeyBlockOf(k1), shaStruct |-> sha1Pad]
  BY <1>4, <1>6 DEF HmacSha1!Start
<1> HIDE DEF sha256Pad, sha1Pad, pad256, pad1
<1>11. pad256 \o <<>> = pad256 /\ pad1 \o <<>> = pad1 /\ 64 + 0 = 64
  BY <1>3, ConcatEmptySeq DEF IsText, pad256, pad1
<1>12. IsHmac256(HmacSha256!Start(key), key, <<>>, 0)
  BY <1>7, <1>9, <1>11 DEF IsHmac256, InnerText, U, k256, pad256
<1>13. IsHmac1(HmacSha1!Start(key), key, <<>>, 0)
  BY <1>8, <1>10, <1>11 DEF IsHmac1, InnerText, U, k1, pad1
<1> QED
  BY <1>12, <1>13

LEMMA HmacsGo ==
  ASSUME NEW n, NEW key, IsText(key, n, OctetsOf("key")),
         NEW l, NEW m, IsText(m, l, OctetsOf("message")),
         NEW lp, NEW piece, IsText(piece, lp, OctetsOf("message")),
         NEW md, NEW ctx
  PROVE  /\ IsHmac256(md, key, m, l)
              => IsHmac256(HmacSha256!Add(md, piece), key, m \o piece, l + lp)
         /\ IsHmac1(ctx, key, m, l)
              => IsHmac1(HmacSha1!Add(ctx, piece), key, m \o piece, l + lp)
<1> DEFINE U == HashBytes(key)
           M(size) == InnerText(key, size, m)
           P(size) == InnerText(key, size, m \o piece)
           to == 64 + l
<1>1. OctetsOf("message") \subseteq U
  BY HashBytesHave
<1>2. \A size \in {SHA256_HASH_SIZE, SHA1_HASH_SIZE} :
        IsText(M(size), to, U) /\ IsConcat(M(size), to, piece, lp, P(size), U)
  BY InnerTextIs, InnerTextGoes
<1>3. l \in Nat /\ lp \in Nat /\ to + lp = 64 + (l + lp)
  <2>1. l \in Nat /\ lp \in Nat
    BY TextIs
  <2> QED
    BY <2>1
<1> HIDE DEF U, M, P, to
<1>4. IsText(piece, lp, U)
  BY <1>1, TextIn
<1>5. ASSUME IsHmac256(md, key, m, l)
      PROVE  IsHmac256(HmacSha256!Add(md, piece), key, m \o piece, l + lp)
  <2> DEFINE text == M(SHA256_HASH_SIZE)
             longer == P(SHA256_HASH_SIZE)
             block == KeyBlockOf(ShortKey(key, SHA256_HASH_SIZE))
  <2>1. PICK sha : /\ IsSha256At(sha, text, to, U)
                   /\ md = [hmacKey |-> block, shaStruct |-> sha]
    BY <1>5 DEF IsHmac256, M, U, to
  <2>2. IsText(text, to, U) /\ IsConcat(text, to, piece, lp, longer, U)
    BY <1>2
  <2> HIDE DEF text, longer, block
  <2>3. IsSha256At(Sha256Add(sha, piece), longer, to + lp, U)
    BY <1>4, <2>1, <2>2, Sha256Goes
  <2>4. HmacSha256!Add(md, piece) = [hmacKey |-> block, shaStruct |-> Sha256Add(sha, piece)]
    BY <2>1 DEF HmacSha256!Add
  <2> QED
    BY <1>3, <2>3, <2>4 DEF IsHmac256, longer, block, P, U
<1>6. ASSUME IsHmac1(ctx, key, m, l)
      PROVE  IsHmac1(HmacSha1!Add(ctx, piece), key, m \o piece, l + lp)
  <2> DEFINE text == M(SHA1_HASH_SIZE)
             longer == P(SHA1_HASH_SIZE)
             block == KeyBlockOf(ShortKey(key, SHA1_HASH_SIZE))
  <2>1. PICK sha : /\ IsSha1At(sha, text, to, U)
                   /\ ctx = [hmacKey |-> block, shaStruct |-> sha]
    BY <1>6 DEF IsHmac1, M, U, to
  <2>2. IsText(text, to, U) /\ IsConcat(text, to, piece, lp, longer, U)
    BY <1>2
  <2> HIDE DEF text, longer, block
  <2>3. IsSha1At(Sha1Add(sha, piece), longer, to + lp, U)
    BY <1>4, <2>1, <2>2, Sha1Goes
  <2>4. HmacSha1!Add(ctx, piece) = [hmacKey |-> block, shaStruct |-> Sha1Add(sha, piece)]
    BY <2>1 DEF HmacSha1!Add
  <2> QED
    BY <1>3, <2>3, <2>4 DEF IsHmac1, longer, block, P, U
<1> QED
  BY <1>5, <1>6


\* The HMAC with hashes of `size' bytes: the digest of a second text, the key under
\* the other pad and the digest of the first.
OuterText(key, size, m) ==
  PadOf(ShortKey(key, size), 92) \o Digest(InnerText(key, size, m), size)

LEMMA MacOfIs ==
  ASSUME NEW key, NEW m, NEW size
  PROVE  MacOf(key, m, size) = Digest(OuterText(key, size, m), size)
BY DEF MacOf, OuterText, InnerText, PadOf, ShortKey

OuterBytes(key, size, m) ==
  HashBytes(key) \cup DigestBytes(InnerText(key, size, m), size)

LEMMA OuterTextIs ==
  ASSUME NEW n, NEW key, IsText(key, n, OctetsOf("key")),
         NEW size, size \in {SHA256_HASH_SIZE, SHA1_HASH_SIZE}, NEW m,
         NEW pad, pad = PadOf(ShortKey(key, size), 92),
         NEW inner, inner = Digest(InnerText(key, size, m), size),
         NEW V, V = OuterBytes(key, size, m)
  PROVE  /\ HasBytes(V) /\ IsText(pad, 64, V) /\ IsText(inner, size, V)
         /\ IsConcat(pad, 64, inner, size, OuterText(key, size, m), V)
         /\ IsText(OuterText(key, size, m), 64 + size, V)
<1> DEFINE U == HashBytes(key)
           text == InnerText(key, size, m)
<1>1. U \subseteq V /\ DigestBytes(text, size) \subseteq V
  BY DEF OuterBytes
<1>2. HasBytes(V)
  BY <1>1, HashBytesHave DEF HasBytes
<1>3. IsText(pad, 64, U)
  BY KeyPadIs
<1> HIDE DEF U, text
<1>4. IsText(pad, 64, V)
  BY <1>1, <1>3, TextIn
<1>5. size \in Nat
  BY DEF SHA256_HASH_SIZE, SHA1_HASH_SIZE
<1>6. IsText(Digest(text, size), size, V)
  BY <1>1, <1>5, DigestIs
<1>7. IsText(inner, size, V)
  BY <1>6 DEF text
<1>8. IsConcat(pad, 64, inner, size, pad \o inner, V)
  BY <1>4, <1>7, ConcatIs
<1>9. pad \o inner = OuterText(key, size, m)
  BY DEF OuterText
<1> QED
  BY <1>2, <1>4, <1>7, <1>8, <1>9 DEF IsConcat

LEMMA Mac256Is ==
  ASSUME NEW n, NEW key, IsText(key, n, OctetsOf("key")),
         NEW l, NEW m, IsText(m, l, OctetsOf("message")),
         NEW md, IsHmac256(md, key, m, l)
  PROVE  HmacSha256!Finish(md) = MacOf(key, m, SHA256_HASH_SIZE)
<1> DEFINE U == HashBytes(key)
           size == SHA256_HASH_SIZE
           text == InnerText(key, size, m)
           block == KeyBlockOf(ShortKey(key, size))
           pad == PadOf(ShortKey(key, size), 92)
           inner == Digest(text, size)
           V == OuterBytes(key, size, m)
           begun == Sha256Add(Sha256Start, pad)
           to == 64 + l
           whole == 64 + size
<1>1. PICK sha : IsSha256At(sha, text, to, U) /\ md = [hmacKey |-> block, shaStruct |-> sha]
  BY DEF IsHmac256
<1>2. IsText(text, to, U) /\ HasBytes(U)
  BY InnerTextIs, HashBytesHave
<1>3. Sha256Finish(sha) = inner
  <2> HIDE DEF text, to, U
  <2> QED
    BY <1>1, <1>2, Sha256FinishIs
<1>4. HmacSha256!Padded(block, 92) = pad
  <2>1. PICK k : IsText(ShortKey(key, size), k, KeyBytes(key)) /\ k <= 64
    BY KeyPadIs
  <2>2. HasBytes(KeyBytes(key))
    BY HashBytesHave
  <2> QED
    BY <2>1, <2>2, HmacPads
<1>5. HmacSha256!Finish(md) = Sha256Finish(Sha256Add(begun, inner))
  BY <1>1, <1>3, <1>4 DEF HmacSha256!Finish
<1>6. /\ HasBytes(V) /\ IsText(pad, 64, V) /\ IsText(inner, size, V)
      /\ IsConcat(pad, 64, inner, size, OuterText(key, size, m), V)
      /\ IsText(OuterText(key, size, m), whole, V)
  BY OuterTextIs
<1> DEFINE outer == OuterText(key, size, m)
<1> HIDE DEF text, pad, inner, V, begun, outer, size, whole
<1>7. IsSha256At(begun, pad, 64, V)
  BY <1>6, Sha256Begins DEF begun
<1>8. IsConcat(pad, 64, inner, size, outer, V) /\ IsText(outer, whole, V)
  BY <1>6 DEF outer
<1>9. IsSha256At(Sha256Add(begun, inner), outer, 64 + size, V)
  BY <1>6, <1>7, <1>8, Sha256Goes
<1>10. IsSha256At(Sha256Add(begun, inner), outer, whole, V)
  BY <1>9 DEF whole
<1>11. Sha256Finish(Sha256Add(begun, inner)) = Digest(outer, SHA256_HASH_SIZE)
  BY <1>6, <1>8, <1>10, Sha256FinishIs
<1> QED
  BY <1>5, <1>11, MacOfIs DEF outer, size

LEMMA Mac1Is ==
  ASSUME NEW n, NEW key, IsText(key, n, OctetsOf("key")),
         NEW l, NEW m, IsText(m, l, OctetsOf("message")),
         NEW md, IsHmac1(md, key, m, l)
  PROVE  HmacSha1!Finish(md) = MacOf(key, m, SHA1_HASH_SIZE)
<1> DEFINE U == HashBytes(key)
           size == SHA1_HASH_SIZE
           text == InnerText(key, size, m)
           block == KeyBlockOf(ShortKey(key, size))
           pad == PadOf(ShortKey(key, size), 92)
           inner == Digest(text, size)
           V == OuterBytes(key, size, m)
           begun == Sha1Add(Sha1Start, pad)
           to == 64 + l
           whole == 64 + size
<1>1. PICK sha : IsSha1At(sha, text, to, U) /\ md = [hmacKey |-> block, shaStruct |-> sha]
  BY DEF IsHmac1
<1>2. IsText(text, to, U) /\ HasBytes(U)
  BY InnerTextIs, HashBytesHave
<1>3. Sha1Finish(sha) = inner
  <2> HIDE DEF text, to, U
  <2> QED
    BY <1>1, <1>2, Sha1FinishIs
<1>4. HmacSha1!Padded(block, 92) = pad
  <2>1. PICK k : IsText(ShortKey(key, size), k, KeyBytes(key)) /\ k <= 64
    BY KeyPadIs
  <2>2. HasBytes(KeyBytes(key))
    BY HashBytesHave
  <2> QED
    BY <2>1, <2>2, HmacPads
<1>5. HmacSha1!Finish(md) = Sha1Finish(Sha1Add(begun, inner))
  BY <1>1, <1>3, <1>4 DEF HmacSha1!Finish
<1>6. /\ HasBytes(V) /\ IsText(pad, 64, V) /\ IsText(inner, size, V)
      /\ IsConcat(pad, 64, inner, size, OuterText(key, size, m), V)
      /\ IsText(OuterText(key, size, m), whole, V)
  BY OuterTextIs
<1> DEFINE outer == OuterText(key, size, m)
<1> HIDE DEF text, pad, inner, V, begun, outer, size, whole
<1>7. IsSha1At(begun, pad, 64, V)
  BY <1>6, Sha1Begins DEF begun
<1>8. IsConcat(pad, 64, inner, size, outer, V) /\ IsText(outer, whole, V)
  BY <1>6 DEF outer
<1>9. IsSha1At(Sha1Add(begun, inner), outer, 64 + size, V)
  BY <1>6, <1>7, <1>8, Sha1Goes
<1>10. IsSha1At(Sha1Add(begun, inner), outer, whole, V)
  BY <1>9 DEF whole
<1>11. Sha1Finish(Sha1Add(begun, inner)) = Digest(outer, SHA1_HASH_SIZE)
  BY <1>6, <1>8, <1>10, Sha1FinishIs
<1> QED
  BY <1>5, <1>11, MacOfIs DEF outer, size

-----------------------------------------------------------------------------
(* The properties *)

\* The running hashes and MACs have the message as it has been given so far.
HashInv ==
  /\ IsText(hashKey, Len(hashKey), OctetsOf("key"))
  /\ IsText(hashMessage, Len(hashMessage), OctetsOf("message"))
  /\ IsSha256At(sha256, hashMessage, Len(hashMessage), HashBytes(hashKey))
  /\ IsSha1At(sha1, hashMessage, Len(hashMessage), HashBytes(hashKey))
  /\ IsHmac256(hmac256, hashKey, hashMessage, Len(hashMessage))
  /\ IsHmac1(hmac1, hashKey, hashMessage, Len(hashMessage))

LEMMA PieceIs ==
  ASSUME NEW n \in Nat, NEW l \in Nat, NEW name
  PROVE  IsText([i \in 1 .. n |-> Octet(name, l + i)], n, OctetsOf(name))
<1> DEFINE piece == [i \in 1 .. n |-> Octet(name, l + i)]
<1>1. ASSUME NEW i \in 1 .. n PROVE Octet(name, l + i) \in OctetsOf(name)
  <2>1. l + i \in Nat
    OBVIOUS
  <2> QED
    BY <2>1 DEF OctetsOf
<1>2. IsTable(piece, n, OctetsOf(name))
  BY <1>1 DEF IsTable
<1> HIDE DEF piece
<1>3. IsText(piece, n, OctetsOf(name))
  BY <1>2, IsTextOf
<1> QED
  BY <1>3 DEF piece

LEMMA HashesStart == HashInit => HashInv
<1> SUFFICES ASSUME HashInit PROVE HashInv
  OBVIOUS
<1> DEFINE none == 0
           T == OctetsOf("key")
           U == HashBytes(hashKey)
<1>1. PICK n \in KeyLengths : hashKey = Given("key", n)
  BY DEF HashInit
<1>2. n \in Nat
  BY HashesAssumption
<1>3. IsText(hashKey, Len(hashKey), T)
  <2>1. IsTable(hashKey, n, T)
    <3>1. \A i \in 1 .. n : i \in Nat
      BY <1>2
    <3> QED
      BY <1>1, <3>1 DEF Given, IsTable, OctetsOf
  <2> HIDE DEF T
  <2>2. IsText(hashKey, n, T)
    BY <1>2, <2>1, IsTextOf
  <2> QED
    BY <2>2 DEF IsText
<1>4. hashMessage = <<>> /\ Len(hashMessage) = none
  BY DEF HashInit
<1>5. IsText(hashMessage, Len(hashMessage), OctetsOf("message"))
  BY <1>4 DEF IsText
<1>6. HasBytes(U)
  BY HashBytesHave
<1>7. IsSha256At(sha256, hashMessage, none, U) /\ IsSha1At(sha1, hashMessage, none, U)
  <2> HIDE DEF U
  <2>1. sha256 = Sha256Start /\ sha1 = Sha1Start
    BY DEF HashInit
  <2> QED
    BY <1>6, <2>1, Sha256StartIs, Sha1StartIs
<1>8. IsHmac256(hmac256, hashKey, <<>>, none) /\ IsHmac1(hmac1, hashKey, <<>>, none)
  <2>1. hmac256 = HmacSha256!Start(hashKey) /\ hmac1 = HmacSha1!Start(hashKey)
    BY DEF HashInit
  <2> QED
    BY <1>3, <2>1, HmacsStart
<1> HIDE DEF none
<1> QED
  BY <1>3, <1>4, <1>5, <1>7, <1>8 DEF HashInv

LEMMA HashesGo ==
  ASSUME HashInv, NEW n \in PieceLengths, HashAdd(n)
  PROVE  HashInv'
<1> DEFINE l == Len(hashMessage)
           piece == [i \in 1 .. n |-> Octet("message", l + i)]
           U == HashBytes(hashKey)
           MT == OctetsOf("message")
           longer == hashMessage \o piece
<1>1. /\ hashKey' = hashKey /\ hashMessage' = longer
      /\ sha256' = Sha256Add(sha256, piece) /\ sha1' = Sha1Add(sha1, piece)
      /\ hmac256' = HmacSha256!Add(hmac256, piece) /\ hmac1' = HmacSha1!Add(hmac1, piece)
  BY DEF HashAdd
<1>2. /\ IsText(hashKey, Len(hashKey), OctetsOf("key")) /\ IsText(hashMessage, l, MT)
      /\ IsSha256At(sha256, hashMessage, l, U) /\ IsSha1At(sha1, hashMessage, l, U)
      /\ IsHmac256(hmac256, hashKey, hashMessage, l) /\ IsHmac1(hmac1, hashKey, hashMessage, l)
  BY DEF HashInv
<1>3. n \in Nat /\ l \in Nat
  BY <1>2, HashesAssumption, TextIs
<1>4. IsText(piece, n, MT)
  BY <1>3, PieceIs
<1>5. MT \subseteq U
  BY HashBytesHave
<1> HIDE DEF piece, MT, U, l
<1>6. IsText(hashMessage, l, U) /\ IsText(piece, n, U)
  BY <1>2, <1>4, <1>5, TextIn
<1>7. IsConcat(hashMessage, l, piece, n, longer, U)
  BY <1>6, ConcatIs
<1>8. IsText(longer, l + n, MT)
  BY <1>2, <1>4, ConcatIsText
<1>9. Len(longer) = l + n
  BY <1>8 DEF IsText
<1> HIDE DEF longer
<1>10. IsSha256At(Sha256Add(sha256, piece), longer, l + n, U)
  BY <1>2, <1>6, <1>7, Sha256Goes
<1>11. IsSha1At(Sha1Add(sha1, piece), longer, l + n, U)
  BY <1>2, <1>6, <1>7, Sha1Goes
<1>12. /\ IsHmac256(HmacSha256!Add(hmac256, piece), hashKey, hashMessage \o piece, l + n)
       /\ IsHmac1(HmacSha1!Add(hmac1, piece), hashKey, hashMessage \o piece, l + n)
  BY <1>2, <1>4, HmacsGo DEF MT
<1> QED
  BY <1>1, <1>2, <1>8, <1>9, <1>10, <1>11, <1>12 DEF HashInv, U, MT, longer

LEMMA HashesHold == HashSpec => []HashInv
<1>1. ASSUME HashInv, [HashNext]_hashVars PROVE HashInv'
  <2>1. CASE HashFinish
    BY <2>1, <1>1 DEF HashFinish, HashInv
  <2>2. CASE \E n \in PieceLengths : HashAdd(n)
    BY <2>2, <1>1, HashesGo
  <2>3. CASE UNCHANGED hashVars
    BY <2>3, <1>1 DEF hashVars, HashInv
  <2> QED
    BY <2>1, <2>2, <2>3, <1>1 DEF HashNext
<1> QED
  BY <1>1, HashesStart, PTL DEF HashSpec

\* A copy of the running SHA-256 and SHA-1 that is finished at any time is the digest
\* of the message so far, for messages and pieces of every length: the buffer of a
\* block, the count of the bits and the padding that sha256.c and sha1.c keep come to
\* what FIPS 180-4 asks for.
THEOREM DigestsAreOfMessages == HashSpec => []DigestIsOfMessage
<1>1. HashInv => DigestIsOfMessage
  <2> SUFFICES ASSUME HashInv PROVE DigestIsOfMessage
    OBVIOUS
  <2> DEFINE U == HashBytes(hashKey)
             l == Len(hashMessage)
  <2>1. HasBytes(U) /\ OctetsOf("message") \subseteq U
    BY HashBytesHave
  <2>2. /\ IsText(hashMessage, l, OctetsOf("message"))
        /\ IsSha256At(sha256, hashMessage, l, U) /\ IsSha1At(sha1, hashMessage, l, U)
    BY DEF HashInv
  <2> HIDE DEF U, l
  <2>3. IsText(hashMessage, l, U)
    BY <2>1, <2>2, TextIn
  <2>4. Sha256Finish(sha256) = Digest(hashMessage, SHA256_HASH_SIZE)
    BY <2>1, <2>2, <2>3, Sha256FinishIs
  <2>5. Sha1Finish(sha1) = Digest(hashMessage, SHA1_HASH_SIZE)
    BY <2>1, <2>2, <2>3, Sha1FinishIs
  <2> QED
    BY <2>4, <2>5 DEF DigestIsOfMessage
<1> QED
  BY <1>1, HashesHold, PTL

\* And the MACs of hmac-sha256.c and hmac-sha1.c are those of RFC 2104, under a key of
\* every length, the ones that are hashed first included.
THEOREM MacsAreHmacs == HashSpec => []MacIsHmac
<1>1. HashInv => MacIsHmac
  BY Mac256Is, Mac1Is DEF HashInv, MacIsHmac
<1> QED
  BY <1>1, HashesHold, PTL

-----------------------------------------------------------------------------
(***************************************************************************)
(* The numbers of bignum are the integers that the rest calculates with.   *)
(* Powers of a base, first.                                                *)
(***************************************************************************)

LEMMA RaisedIs ==
  ASSUME NEW b \in Nat
  PROVE  /\ Raised(b, 0) = 1
         /\ \A k \in Nat : Raised(b, k) \in Nat /\ Raised(b, k + 1) = b * Raised(b, k)
<1> DEFINE IsRun(f) == f = [j \in Nat |-> IF j = 0 THEN 1 ELSE b * f[j - 1]]
           power == CHOOSE f : IsRun(f)
           next == [jx \in Nat \X Nat |-> b * jx[2]]
<1>1. IsStep(next, Nat, Nat) /\ IsSegment(Nat)
  BY DEF IsStep, IsSegment
<1>2. \A j \in Nat, x \in Nat : next[<<j, x>>] = b * x
  OBVIOUS
<1> HIDE DEF next
<1>3. PICK f \in [Nat -> Nat] : \A k \in Nat : f[k] = IF k = 0 THEN 1 ELSE next[<<k, f[k - 1]>>]
  <2> DEFINE D == Nat
             one == 1
  <2>1. IsStep(next, D, D) /\ IsSegment(D) /\ one \in D
    BY <1>1
  <2> HIDE DEF D, one
  <2>2. \E f \in [D -> D] : \A k \in D : f[k] = IF k = 0 THEN one ELSE next[<<k, f[k - 1]>>]
    BY <2>1, Recursion
  <2> QED
    BY <2>2 DEF D, one
<1>4. ASSUME NEW k \in Nat PROVE f[k] = IF k = 0 THEN 1 ELSE b * f[k - 1]
  <2>1. CASE k = 0
    BY <1>3, <2>1
  <2>2. CASE k # 0
    <3>1. k - 1 \in Nat /\ f[k - 1] \in Nat
      BY <2>2
    <3> QED
      BY <1>2, <1>3, <2>2, <3>1
  <2> QED
    BY <2>1, <2>2
<1>5. IsRun(f)
  BY <1>4
<1>6. IsRun(power)
  BY <1>5, Zenon
<1>7. \A k \in Nat : Raised(b, k) = power[k]
  BY DEF Raised
<1> HIDE DEF power
<1>8. power[0] = 1
  BY <1>6
<1>9. \A k \in Nat : power[k + 1] = b * power[k]
  <2>1. \A k \in Nat : k + 1 \in Nat /\ k + 1 # 0 /\ (k + 1) - 1 = k
    OBVIOUS
  <2> QED
    BY <1>6, <2>1
<1> DEFINE Good == {k \in Nat : power[k] \in Nat}
<1>10. 0 \in Good
  BY <1>8
<1>11. ASSUME NEW k \in Nat, k \in Good PROVE k + 1 \in Good
  BY <1>9, <1>11
<1>12. Nat \subseteq Good
  <2> HIDE DEF Good
  <2> QED
    BY <1>10, <1>11, Induction
<1> QED
  BY <1>7, <1>8, <1>9, <1>12

LEMMA RaisedGrows ==
  ASSUME NEW b \in Nat \ {0}
  PROVE  \A k \in Nat : Raised(b, k) \in Nat \ {0}
<1> DEFINE Good == {k \in Nat : Raised(b, k) \in Nat \ {0}}
<1>1. 0 \in Good
  BY RaisedIs
<1>2. ASSUME NEW k \in Nat, k \in Good PROVE k + 1 \in Good
  <2> DEFINE p == Raised(b, k)
  <2>1. p \in Nat \ {0} /\ Raised(b, k + 1) = b * p
    BY <1>2, RaisedIs
  <2> HIDE DEF p
  <2>2. b * p \in Nat \ {0}
    BY <2>1
  <2> QED
    BY <2>1, <2>2
<1> HIDE DEF Good
<1>3. Nat \subseteq Good
  BY <1>1, <1>2, Induction
<1> QED
  BY <1>3 DEF Good

LEMMA RaisedOnce ==
  ASSUME NEW b \in Nat
  PROVE  Raised(b, 1) = b
<1>1. 0 + 1 = 1 /\ 0 \in Nat
  OBVIOUS
<1>2. Raised(b, 0 + 1) = b * Raised(b, 0) /\ Raised(b, 0) = 1
  BY <1>1, RaisedIs, Zenon
<1> QED
  BY <1>1, <1>2

LEMMA RaisedSum ==
  ASSUME NEW b \in Nat, NEW j \in Nat
  PROVE  \A k \in Nat : Raised(b, j + k) = Raised(b, j) * Raised(b, k)
<1> DEFINE P(k) == Raised(b, k)
<1>0. \A k \in Nat : P(k) \in Nat /\ P(k + 1) = b * P(k)
  BY RaisedIs
<1>1. P(0) = 1
  BY RaisedIs
<1> DEFINE Good == {k \in Nat : P(j + k) = P(j) * P(k)}
<1> HIDE DEF P
<1>2. 0 \in Good
  BY <1>0, <1>1
<1>3. ASSUME NEW k \in Nat, k \in Good PROVE k + 1 \in Good
  <2>1. j + (k + 1) = (j + k) + 1 /\ j + k \in Nat /\ k + 1 \in Nat
    OBVIOUS
  <2>2. P((j + k) + 1) = b * P(j + k) /\ P(k + 1) = b * P(k) /\ P(j + k) = P(j) * P(k)
    BY <1>0, <1>3, <2>1
  <2>3. b * (P(j) * P(k)) = P(j) * (b * P(k))
    <3>1. P(j) \in Nat /\ P(k) \in Nat
      BY <1>0
    <3> QED
      BY <3>1
  <2>4. P(j + (k + 1)) = P(j) * P(k + 1)
    BY <2>1, <2>2, <2>3
  <2> QED
    BY <2>4
<1> HIDE DEF Good
<1>4. Nat \subseteq Good
  BY <1>2, <1>3, Induction
<1> QED
  BY <1>4 DEF Good, P

LEMMA RaisedProduct ==
  ASSUME NEW b \in Nat, NEW j \in Nat
  PROVE  \A k \in Nat : Raised(Raised(b, j), k) = Raised(b, j * k)
<1> DEFINE c == Raised(b, j)
           Good == {k \in Nat : Raised(c, k) = Raised(b, j * k)}
<1>0. c \in Nat
  BY RaisedIs
<1>1. 0 \in Good
  <2>1. j * 0 = 0
    OBVIOUS
  <2>2. Raised(c, 0) = 1 /\ Raised(b, 0) = 1
    BY <1>0, RaisedIs
  <2> QED
    BY <2>1, <2>2
<1>2. ASSUME NEW k \in Nat, k \in Good PROVE k + 1 \in Good
  <2>1. j * (k + 1) = j + j * k /\ j * k \in Nat
    OBVIOUS
  <2>2. Raised(c, k + 1) = c * Raised(c, k)
    BY <1>0, RaisedIs
  <2>3. Raised(b, j + j * k) = Raised(b, j) * Raised(b, j * k)
    BY <2>1, RaisedSum
  <2>4. Raised(c, k) = Raised(b, j * k)
    BY <1>2
  <2>5. Raised(c, k + 1) = Raised(b, j * (k + 1))
    BY <2>1, <2>2, <2>3, <2>4
  <2> QED
    BY <2>5
<1> HIDE DEF Good
<1>3. Nat \subseteq Good
  BY <1>1, <1>2, Induction
<1> QED
  BY <1>3 DEF Good
LEMMA InductionUpTo ==
  ASSUME NEW n \in Nat, NEW T, 0 \in T, \A k \in Nat : k < n /\ k \in T => k + 1 \in T
  PROVE  0 .. n \subseteq T
<1> DEFINE U == {k \in Nat : k <= n => k \in T}
<1>1. 0 \in U
  OBVIOUS
<1>2. ASSUME NEW k \in Nat, k \in U PROVE k + 1 \in U
  <2>1. k + 1 <= n => k < n /\ k <= n
    OBVIOUS
  <2> QED
    BY <1>2, <2>1
<1> HIDE DEF U
<1>3. Nat \subseteq U
  BY <1>1, <1>2, Induction
<1> QED
  BY <1>3 DEF U

-----------------------------------------------------------------------------
(* Sums of digits *)

\* f has n digits to the base b, the lowest first.
AreDigits(f, n, b) == n \in Nat /\ \A k \in 1 .. n : f[k] \in 0 .. b - 1

\* What the lowest digits of f are together.
AreSums(s, f, n, b) ==
  /\ n \in Nat /\ s \in [0 .. n -> Nat] /\ s[0] = 0
  /\ \A k \in 1 .. n : s[k] = s[k - 1] + f[k] * Raised(b, k - 1)

\* What f is.
IsSum(v, f, n, b) == \E s : AreSums(s, f, n, b) /\ v = s[n]

LEMMA SumsStep ==
  ASSUME NEW s, NEW f, NEW n, NEW b, AreSums(s, f, n, b)
  PROVE  /\ n \in Nat /\ s[0] = 0 /\ \A k \in 0 .. n : s[k] \in Nat
         /\ \A k \in Nat : k < n => s[k + 1] = s[k] + f[k + 1] * Raised(b, k)
<1>1. ASSUME NEW k \in Nat, k < n PROVE s[k + 1] = s[k] + f[k + 1] * Raised(b, k)
  <2>1. k + 1 \in 1 .. n /\ (k + 1) - 1 = k
    BY <1>1 DEF AreSums
  <2> QED
    BY <2>1 DEF AreSums
<1> QED
  BY <1>1 DEF AreSums

LEMMA SumsExist ==
  ASSUME NEW b \in Nat \ {0}, NEW f, NEW n, AreDigits(f, n, b)
  PROVE  \E s : AreSums(s, f, n, b)
<1> DEFINE X == Nat
           none == 0
           term(k) == f[k] * Raised(b, k - 1)
           step == [kx \in (0 .. n) \X X |-> IF kx[1] = 0 THEN 0 ELSE kx[2] + term(kx[1])]
<1>0. n \in Nat
  BY DEF AreDigits
<1>1. ASSUME NEW k \in 1 .. n PROVE term(k) \in Nat
  <2>1. f[k] \in Nat /\ k - 1 \in Nat
    BY DEF AreDigits
  <2>2. Raised(b, k - 1) \in Nat
    BY <2>1, RaisedIs
  <2> QED
    BY <2>1, <2>2
<1> HIDE DEF term
<1>2. IsStepUpTo(step, n, X)
  <2>1. \A kx \in (0 .. n) \X X : (IF kx[1] = 0 THEN 0 ELSE kx[2] + term(kx[1])) \in X
    BY <1>0, <1>1
  <2> QED
    BY <2>1 DEF IsStepUpTo, IsStep
<1>3. \A k \in 1 .. n, x \in X : step[<<k, x>>] = x + term(k)
  BY <1>0
<1>4. none \in X
  OBVIOUS
<1> HIDE DEF step, X, none
<1>5. PICK s \in [0 .. n -> X] : s[0] = none /\ \A k \in 1 .. n : s[k] = step[<<k, s[k - 1]>>]
  BY <1>0, <1>2, <1>4, RecursionUpTo
<1>6. ASSUME NEW k \in 1 .. n PROVE s[k] = s[k - 1] + term(k)
  <2>1. k - 1 \in 0 .. n
    BY <1>0
  <2>2. s[k - 1] \in X
    BY <2>1
  <2> QED
    BY <1>3, <1>5, <2>2
<1>7. AreSums(s, f, n, b)
  BY <1>0, <1>5, <1>6 DEF AreSums, X, none, term
<1> QED
  BY <1>7

\* There are no others.
LEMMA SumsAgree ==
  ASSUME NEW s, NEW t, NEW f, NEW g, NEW n, NEW b, NEW m, AreSums(s, f, n, b), AreSums(t, g, m, b),
         NEW j \in 0 .. n, j <= m, \A k \in 1 .. j : f[k] = g[k]
  PROVE  s[j] = t[j]
<1> DEFINE Good == {k \in Nat : k <= j => s[k] = t[k]}
<1>0. n \in Nat /\ m \in Nat /\ j \in Nat
  BY SumsStep
<1>1. 0 \in Good
  BY SumsStep
<1>2. ASSUME NEW k \in Nat, k \in Good PROVE k + 1 \in Good
  <2> SUFFICES ASSUME k + 1 <= j PROVE s[k + 1] = t[k + 1]
    OBVIOUS
  <2>1. k < n /\ k < m /\ k + 1 \in 1 .. j /\ s[k] = t[k]
    BY <1>0, <1>2
  <2>2. s[k + 1] = s[k] + f[k + 1] * Raised(b, k)
    BY <2>1, SumsStep
  <2>3. t[k + 1] = t[k] + g[k + 1] * Raised(b, k)
    BY <2>1, SumsStep
  <2> QED
    BY <2>1, <2>2, <2>3
<1> HIDE DEF Good
<1>3. Nat \subseteq Good
  BY <1>1, <1>2, Induction
<1> QED
  BY <1>0, <1>3 DEF Good

\* The sums, as a definition by recursion has them.
IsSumRun(h, f, n, b) ==
  h = [k \in 0 .. n |-> IF k = 0 THEN 0 ELSE h[k - 1] + f[k] * Raised(b, k - 1)]

LEMMA SumsRun ==
  ASSUME NEW s, NEW f, NEW n, NEW b, AreSums(s, f, n, b)
  PROVE  IsSumRun(s, f, n, b)
<1>1. n \in Nat /\ s = [k \in 0 .. n |-> s[k]]
  BY DEF AreSums
<1>2. ASSUME NEW k \in 0 .. n
      PROVE  s[k] = IF k = 0 THEN 0 ELSE s[k - 1] + f[k] * Raised(b, k - 1)
  <2>1. k = 0 \/ k \in 1 .. n
    BY <1>1
  <2> QED
    BY <2>1 DEF AreSums
<1> QED
  BY <1>1, <1>2 DEF IsSumRun

LEMMA SumsAreRun ==
  ASSUME NEW s, NEW f, NEW n, NEW b, AreSums(s, f, n, b), NEW h, IsSumRun(h, f, n, b)
  PROVE  h[n] = s[n]
<1> DEFINE Good == {k \in Nat : h[k] = s[k]}
<1>1. n \in Nat /\ n \in 0 .. n
  BY SumsStep
<1>2. 0 \in Good
  <2>1. 0 \in 0 .. n
    BY <1>1
  <2> QED
    BY <2>1, SumsStep DEF IsSumRun
<1>3. ASSUME NEW k \in Nat, k < n, k \in Good PROVE k + 1 \in Good
  <2>1. k + 1 \in 0 .. n /\ (k + 1) - 1 = k /\ k + 1 # 0
    BY <1>1, <1>3
  <2>2. h[k + 1] = h[k] + f[k + 1] * Raised(b, k)
    BY <2>1 DEF IsSumRun
  <2>3. s[k + 1] = s[k] + f[k + 1] * Raised(b, k)
    BY <1>3, SumsStep
  <2>4. h[k + 1] = s[k + 1]
    BY <1>3, <2>2, <2>3
  <2> QED
    BY <2>4
<1> HIDE DEF Good
<1>4. n \in Good
  BY <1>1, <1>2, <1>3, InductionUpTo
<1> QED
  BY <1>4 DEF Good

LEMMA SumIsOne ==
  ASSUME NEW v, NEW w, NEW f, NEW n, NEW b, IsSum(v, f, n, b), IsSum(w, f, n, b)
  PROVE  v = w
<1>1. PICK s : AreSums(s, f, n, b) /\ v = s[n]
  BY DEF IsSum
<1>2. PICK t : AreSums(t, f, n, b) /\ w = t[n]
  BY DEF IsSum
<1>3. n \in 0 .. n /\ n <= n
  BY <1>1, SumsStep
<1>4. s[n] = t[n]
  BY <1>1, <1>2, <1>3, SumsAgree
<1> QED
  BY <1>1, <1>2, <1>4

LEMMA SumsBound ==
  ASSUME NEW b \in Nat \ {0}, NEW f, NEW n, AreDigits(f, n, b), NEW s, AreSums(s, f, n, b)
  PROVE  \A k \in 0 .. n : s[k] \in 0 .. Raised(b, k) - 1
<1> DEFINE R(k) == Raised(b, k)
           Good == {k \in Nat : k <= n => s[k] \in 0 .. R(k) - 1}
<1>0. n \in Nat
  BY SumsStep
<1>1. 0 \in Good
  <2>1. s[0] = 0 /\ R(0) = 1
    BY RaisedIs, SumsStep
  <2> HIDE DEF R
  <2> QED
    BY <2>1
<1>2. ASSUME NEW k \in Nat, k \in Good PROVE k + 1 \in Good
  <2> SUFFICES ASSUME k + 1 <= n PROVE s[k + 1] \in 0 .. R(k + 1) - 1
    OBVIOUS
  <2>1. s[k] \in 0 .. R(k) - 1 /\ k < n /\ k + 1 \in 1 .. n
    BY <1>0, <1>2
  <2>2. R(k) \in Nat \ {0}
    BY RaisedGrows
  <2>3. R(k + 1) = b * R(k)
    BY RaisedIs
  <2>4. s[k + 1] = s[k] + f[k + 1] * R(k)
    BY <2>1, SumsStep
  <2>5. f[k + 1] \in 0 .. b - 1
    BY <2>1 DEF AreDigits
  <2> HIDE DEF R
  <2>6. \A x \in 0 .. b - 1, y \in Nat : \A z \in 0 .. y - 1 : z + x * y \in 0 .. b * y - 1
    <3>1. SUFFICES ASSUME NEW x \in 0 .. b - 1, NEW y \in Nat, NEW z \in 0 .. y - 1
                   PROVE  z + x * y \in 0 .. b * y - 1
      OBVIOUS
    <3>2. PICK d \in Nat : b = (x + 1) + d
      <4>1. b - (x + 1) \in Nat /\ b = (x + 1) + (b - (x + 1))
        OBVIOUS
      <4> QED
        BY <4>1
    <3>3. b * y = (x * y + y) + d * y /\ d * y \in Nat /\ x * y \in Nat
      BY <3>2
    <3> QED
      BY <3>3
  <2> QED
    BY <2>1, <2>2, <2>3, <2>4, <2>5, <2>6
<1> HIDE DEF Good
<1>3. Nat \subseteq Good
  BY <1>1, <1>2, Induction
<1> QED
  BY <1>0, <1>3 DEF Good

LEMMA SumOfDigits ==
  ASSUME NEW b \in Nat \ {0}, NEW f, NEW n, AreDigits(f, n, b)
  PROVE  \E v \in 0 .. Raised(b, n) - 1 : IsSum(v, f, n, b)
<1>1. PICK s : AreSums(s, f, n, b)
  BY SumsExist
<1>2. n \in Nat /\ n \in 0 .. n
  BY <1>1, SumsStep
<1>3. s[n] \in 0 .. Raised(b, n) - 1
  BY <1>1, <1>2, SumsBound
<1> QED
  BY <1>1, <1>3 DEF IsSum

\* Above j there is a multiple of the place j.
LEMMA SumsAbove ==
  ASSUME NEW b \in Nat \ {0}, NEW f, NEW n, AreDigits(f, n, b), NEW s, AreSums(s, f, n, b),
         NEW j \in 0 .. n
  PROVE  \E q \in Nat : s[n] = s[j] + Raised(b, j) * q
<1> DEFINE R(k) == Raised(b, k)
           Good == {k \in Nat : j + k <= n => \E q \in Nat : s[j + k] = s[j] + R(j) * q}
<1>0. n \in Nat /\ j \in Nat /\ s[j] \in Nat /\ R(j) \in Nat /\ \A k \in 0 .. n : s[k] \in Nat
  BY SumsStep, RaisedIs
<1>1. 0 \in Good
  <2>1. s[j + 0] = s[j] + R(j) * 0 /\ 0 \in Nat
    BY <1>0
  <2> QED
    BY <2>1
<1>2. ASSUME NEW k \in Nat, k \in Good PROVE k + 1 \in Good
  <2> SUFFICES ASSUME j + (k + 1) <= n PROVE \E q \in Nat : s[j + (k + 1)] = s[j] + R(j) * q
    OBVIOUS
  <2>1. j + k <= n /\ j + k < n /\ j + k \in Nat /\ j + (k + 1) = (j + k) + 1 /\ (j + k) + 1 \in 1 .. n
    BY <1>0
  <2>2. PICK q \in Nat : s[j + k] = s[j] + R(j) * q
    BY <1>2, <2>1
  <2>3. s[(j + k) + 1] = s[j + k] + f[(j + k) + 1] * R(j + k)
    BY <2>1, SumsStep
  <2>4. R(j + k) = R(j) * R(k) /\ R(k) \in Nat
    <3>1. j \in Nat /\ b \in Nat
      BY <1>0
    <3>2. \A i \in Nat : Raised(b, j + i) = Raised(b, j) * Raised(b, i)
      BY <3>1, RaisedSum
    <3>3. Raised(b, k) \in Nat
      BY <3>1, RaisedIs
    <3> QED
      BY <3>2, <3>3
  <2>5. f[(j + k) + 1] \in Nat
    BY <2>1 DEF AreDigits
  <2> HIDE DEF R
  <2> DEFINE d == f[(j + k) + 1]
             r == R(k)
  <2>6. q + d * r \in Nat /\ R(j) * (q + d * r) = R(j) * q + d * (R(j) * r)
    <3>1. d \in Nat /\ r \in Nat
      BY <2>4, <2>5
    <3> HIDE DEF d, r
    <3> QED
      BY <1>0, <3>1
  <2>7. s[(j + k) + 1] = s[j] + R(j) * (q + d * r)
    <3>1. d * (R(j) * r) \in Nat /\ R(j) * q \in Nat
      BY <1>0, <2>4, <2>5
    <3>2. s[(j + k) + 1] = (s[j] + R(j) * q) + d * (R(j) * r)
      BY <2>2, <2>3, <2>4
    <3> HIDE DEF d, r
    <3> QED
      BY <1>0, <2>6, <3>1, <3>2
  <2> QED
    BY <2>1, <2>6, <2>7
<1> HIDE DEF Good
<1>3. Nat \subseteq Good
  BY <1>1, <1>2, Induction
<1>4. n - j \in Nat /\ j + (n - j) = n
  BY <1>0
<1> QED
  BY <1>3, <1>4 DEF Good

AreZeros(f, j, m) == \A k \in j + 1 .. m : f[k] = 0

\* Zeros add nothing.
LEMMA SumsOfZeros ==
  ASSUME NEW f, NEW n, NEW b \in Nat, NEW s, AreSums(s, f, n, b),
         NEW j \in 0 .. n, NEW m \in j .. n, AreZeros(f, j, m)
  PROVE  s[m] = s[j]
<1> DEFINE Good == {k \in Nat : s[j + k] = s[j]}
           last == m - j
<1>0. n \in Nat /\ j \in Nat /\ s[j] \in Nat /\ last \in Nat /\ m = j + last
  BY SumsStep
<1>1. 0 \in Good
  BY <1>0
<1>2. ASSUME NEW k \in Nat, k < last, k \in Good PROVE k + 1 \in Good
  <2>1. j + k < n /\ j + k \in Nat /\ j + (k + 1) = (j + k) + 1 /\ (j + k) + 1 \in j + 1 .. m
    BY <1>0, <1>2
  <2>2. s[j + k] = s[j]
    BY <1>2
  <2>3. s[(j + k) + 1] = s[j + k] + f[(j + k) + 1] * Raised(b, j + k)
    BY <2>1, SumsStep
  <2>4. f[(j + k) + 1] * Raised(b, j + k) = 0
    <3>1. Raised(b, j + k) \in Nat /\ f[(j + k) + 1] = 0
      BY <2>1, RaisedIs DEF AreZeros
    <3> QED
      BY <3>1
  <2>5. s[j + (k + 1)] = s[j]
    BY <1>0, <2>1, <2>2, <2>3, <2>4
  <2> QED
    BY <2>5
<1>3. 0 .. last \subseteq Good
  <2> HIDE DEF Good, last
  <2> QED
    BY <1>0, <1>1, <1>2, InductionUpTo
<1> QED
  BY <1>0, <1>3

\* Two digits that are next to each other.
LEMMA SumOfTwo ==
  ASSUME NEW b \in Nat \ {0}, NEW f, NEW n, NEW s, AreSums(s, f, n, b),
         NEW p \in 1 .. n - 1, f[p] \in Nat, f[p + 1] \in Nat,
         \A k \in 1 .. n : k # p /\ k # p + 1 => f[k] = 0
  PROVE  s[n] = (f[p] + b * f[p + 1]) * Raised(b, p - 1)
<1> DEFINE r == Raised(b, p - 1)
<1>0. n \in Nat /\ s[0] = 0 /\ 0 \in 0 .. n /\ p - 1 \in 0 .. n /\ p + 1 \in 0 .. n /\ n \in p + 1 .. n
      /\ p - 1 \in Nat /\ p \in Nat /\ p - 1 < n /\ p < n /\ (p - 1) + 1 = p
  BY SumsStep
<1>1. s[p - 1] = 0
  <2> DEFINE none == 0
  <2>1. AreZeros(f, none, p - 1) /\ none \in 0 .. n /\ p - 1 \in none .. n /\ b \in Nat
    BY <1>0 DEF AreZeros
  <2> HIDE DEF none
  <2>2. s[p - 1] = s[none]
    BY <2>1, SumsOfZeros
  <2> QED
    BY <1>0, <2>2 DEF none
<1>2. s[p] = s[p - 1] + f[p] * r
  <2>1. s[(p - 1) + 1] = s[p - 1] + f[(p - 1) + 1] * r
    BY <1>0, SumsStep
  <2> QED
    BY <1>0, <2>1
<1>3. s[p + 1] = s[p] + f[p + 1] * (b * r)
  <2>1. Raised(b, p) = b * r
    <3>1. Raised(b, (p - 1) + 1) = b * r
      BY <1>0, RaisedIs
    <3> QED
      BY <1>0, <3>1
  <2>2. s[p + 1] = s[p] + f[p + 1] * Raised(b, p)
    BY <1>0, SumsStep
  <2> QED
    BY <2>1, <2>2
<1>4. s[n] = s[p + 1]
  <2> DEFINE q == p + 1
  <2>1. AreZeros(f, q, n) /\ q \in 0 .. n /\ n \in q .. n /\ b \in Nat
    BY <1>0 DEF AreZeros
  <2> HIDE DEF q
  <2>2. s[n] = s[q]
    BY <2>1, SumsOfZeros
  <2> QED
    BY <2>2 DEF q
<1>5. r \in Nat
  BY <1>0, RaisedIs
<1> HIDE DEF r
<1> DEFINE lo == f[p]
           hi == f[p + 1]
<1>6. (lo + b * hi) * r = lo * r + hi * (b * r) /\ lo * r \in Nat /\ hi * (b * r) \in Nat
  <2>1. lo \in Nat /\ hi \in Nat
    OBVIOUS
  <2> HIDE DEF lo, hi
  <2> QED
    BY <1>5, <2>1
<1> HIDE DEF lo, hi
<1>7. s[n] = (lo + b * hi) * r
  BY <1>1, <1>2, <1>3, <1>4, <1>6 DEF lo, hi
<1> QED
  BY <1>7 DEF lo, hi, r

LEMMA CarryTaken ==
  ASSUME NEW b \in Int, NEW r \in Int, NEW f \in Int, NEW g \in Int, NEW h \in Int,
         NEW c \in Int, NEW d \in Int, NEW x \in Int, NEW u \in Int,
         f + g + c = h + b * d, x = u + r * c
  PROVE  x + f * r + g * r = (u + h * r) + (b * r) * d
<1>1. r * (f + g + c) = f * r + g * r + r * c
  BY Z3
<1>2. r * (h + b * d) = h * r + (b * r) * d
  BY Z3
<1> DEFINE fr == f * r
           gr == g * r
           rc == r * c
           hr == h * r
           brd == (b * r) * d
<1>3. fr \in Int /\ gr \in Int /\ rc \in Int /\ hr \in Int /\ brd \in Int
  OBVIOUS
<1>4. fr + gr + rc = hr + brd /\ x = u + rc
  BY <1>1, <1>2
<1> HIDE DEF fr, gr, rc, hr, brd
<1>5. x + fr + gr = (u + hr) + brd
  BY <1>3, <1>4
<1> QED
  BY <1>5 DEF fr, gr, hr, brd

\* Two numbers are added, digit by digit: c is what each place carries to the next.
LEMMA Carried ==
  ASSUME NEW b \in Nat \ {0}, NEW n, NEW f, NEW g, NEW h,
         AreDigits(f, n, b), AreDigits(g, n, b), AreDigits(h, n, b),
         NEW s, NEW t, NEW u, AreSums(s, f, n, b), AreSums(t, g, n, b), AreSums(u, h, n, b),
         NEW c, \A k \in 0 .. n : c[k] \in Int,
         \A k \in 1 .. n : f[k] + g[k] + c[k - 1] = h[k] + b * c[k]
  PROVE  s[n] + t[n] + c[0] = u[n] + Raised(b, n) * c[n]
<1> DEFINE R(k) == Raised(b, k)
           Good == {k \in Nat : s[k] + t[k] + c[0] = u[k] + R(k) * c[k]}
<1>0. n \in Nat /\ n \in 0 .. n /\ c[0] \in Int
  BY SumsStep
<1>1. 0 \in Good
  <2>1. s[0] = 0 /\ t[0] = 0 /\ u[0] = 0 /\ R(0) = 1
    BY SumsStep, RaisedIs
  <2>2. s[0] + t[0] + c[0] = u[0] + R(0) * c[0]
    <3> HIDE DEF R
    <3> QED
      BY <1>0, <2>1
  <2> QED
    BY <2>2
<1>2. ASSUME NEW k \in Nat, k < n, k \in Good PROVE k + 1 \in Good
  <2>1. k + 1 \in 1 .. n /\ (k + 1) - 1 = k /\ k \in 0 .. n /\ k + 1 \in 0 .. n
    BY <1>0, <1>2
  <2>2. f[k + 1] \in Int /\ g[k + 1] \in Int /\ h[k + 1] \in Int
    BY <2>1 DEF AreDigits
  <2>3. s[k] \in Int /\ t[k] \in Int /\ u[k] \in Int
    BY <2>1, SumsStep
  <2>4. f[k + 1] + g[k + 1] + c[k] = h[k + 1] + b * c[k + 1] /\ c[k] \in Int /\ c[k + 1] \in Int
    BY <2>1
  <2>5. s[k + 1] = s[k] + f[k + 1] * R(k)
    BY <1>2, SumsStep
  <2>6. t[k + 1] = t[k] + g[k + 1] * R(k)
    BY <1>2, SumsStep
  <2>7. u[k + 1] = u[k] + h[k + 1] * R(k)
    BY <1>2, SumsStep
  <2>8. R(k + 1) = b * R(k) /\ R(k) \in Int
    <3>1. Raised(b, k) \in Nat /\ Raised(b, k + 1) = b * Raised(b, k)
      BY RaisedIs
    <3> QED
      BY <3>1
  <2>9. s[k] + t[k] + c[0] = u[k] + R(k) * c[k] /\ s[k] + t[k] + c[0] \in Int /\ b \in Int
    BY <1>0, <1>2, <2>3
  <2> HIDE DEF R
  <2>10. (s[k] + t[k] + c[0]) + f[k + 1] * R(k) + g[k + 1] * R(k)
           = (u[k] + h[k + 1] * R(k)) + (b * R(k)) * c[k + 1]
    <3> DEFINE fk == f[k + 1]
               gk == g[k + 1]
               hk == h[k + 1]
               ck == c[k]
               dk == c[k + 1]
               x == s[k] + t[k] + c[0]
               uk == u[k]
               r == R(k)
    <3>1. /\ fk \in Int /\ gk \in Int /\ hk \in Int /\ ck \in Int /\ dk \in Int
          /\ x \in Int /\ uk \in Int /\ r \in Int /\ b \in Int
          /\ fk + gk + ck = hk + b * dk /\ x = uk + r * ck
      BY <2>2, <2>3, <2>4, <2>8, <2>9
    <3> HIDE DEF fk, gk, hk, ck, dk, x, uk, r
    <3>2. x + fk * r + gk * r = (uk + hk * r) + (b * r) * dk
      BY <3>1, CarryTaken
    <3> QED
      BY <3>2 DEF fk, gk, hk, ck, dk, x, uk, r
  <2> DEFINE fr == f[k + 1] * R(k)
             gr == g[k + 1] * R(k)
  <2>11. fr \in Int /\ gr \in Int
    BY <2>2, <2>8
  <2> HIDE DEF fr, gr
  <2>12. (s[k] + fr) + (t[k] + gr) + c[0] = (s[k] + t[k] + c[0]) + fr + gr
    BY <1>0, <2>3, <2>11
  <2>13. s[k + 1] + t[k + 1] + c[0] = u[k + 1] + R(k + 1) * c[k + 1]
    BY <2>5, <2>6, <2>7, <2>8, <2>10, <2>12 DEF fr, gr
  <2> QED
    BY <2>13
<1> HIDE DEF Good
<1>3. 0 .. n \subseteq Good
  BY <1>0, <1>1, <1>2, InductionUpTo
<1> QED
  BY <1>0, <1>3 DEF Good

\* The highest digit that differs decides.
LEMMA HighestDecides ==
  ASSUME NEW b \in Nat \ {0}, NEW n, NEW f, NEW g, AreDigits(f, n, b), AreDigits(g, n, b),
         NEW s, NEW t, AreSums(s, f, n, b), AreSums(t, g, n, b),
         NEW h \in 1 .. n, f[h] > g[h], \A k \in h + 1 .. n : f[k] = g[k]
  PROVE  s[n] > t[n]
<1> DEFINE Good == {k \in Nat : s[h + k] > t[h + k]}
           last == n - h
           r == Raised(b, h - 1)
<1>0. n \in Nat /\ h \in Nat /\ last \in Nat /\ h + last = n /\ h - 1 \in Nat /\ h - 1 < n
      /\ h - 1 \in 0 .. n /\ h \in 0 .. n /\ (h - 1) + 1 = h
  BY SumsStep
<1>1. 0 \in Good
  <2>1. r \in Nat \ {0}
    BY <1>0, RaisedGrows
  <2>2. s[h - 1] \in 0 .. r - 1
    BY <1>0, SumsBound
  <2>3. t[h - 1] \in 0 .. r - 1
    BY <1>0, SumsBound
  <2>4. s[h] = s[h - 1] + f[h] * r
    <3>1. s[(h - 1) + 1] = s[h - 1] + f[(h - 1) + 1] * r
      BY <1>0, SumsStep
    <3> QED
      BY <1>0, <3>1
  <2>5. t[h] = t[h - 1] + g[h] * r
    <3>1. t[(h - 1) + 1] = t[h - 1] + g[(h - 1) + 1] * r
      BY <1>0, SumsStep
    <3> QED
      BY <1>0, <3>1
  <2> HIDE DEF r
  <2>6. PICK d \in Nat : f[h] = (g[h] + 1) + d /\ g[h] \in Nat
    <3>1. f[h] \in Nat /\ g[h] \in Nat
      BY DEF AreDigits
    <3>2. f[h] - (g[h] + 1) \in Nat /\ f[h] = (g[h] + 1) + (f[h] - (g[h] + 1))
      BY <3>1
    <3> QED
      BY <3>1, <3>2
  <2>7. f[h] * r = (g[h] * r + r) + d * r /\ d * r \in Nat /\ g[h] * r \in Nat
    BY <2>1, <2>6
  <2>8. s[h] > t[h]
    BY <2>1, <2>2, <2>3, <2>4, <2>5, <2>7
  <2> QED
    BY <1>0, <2>8
<1>2. ASSUME NEW k \in Nat, k < last, k \in Good PROVE k + 1 \in Good
  <2>1. h + k < n /\ h + k \in Nat /\ h + k \in 0 .. n /\ h + (k + 1) = (h + k) + 1
        /\ (h + k) + 1 \in h + 1 .. n /\ (h + k) + 1 \in 1 .. n
    BY <1>0, <1>2
  <2> DEFINE m == h + k
             x == f[m + 1] * Raised(b, m)
  <2>2. s[m + 1] = s[m] + x
    BY <2>1, SumsStep
  <2>3. t[m + 1] = t[m] + x
    <3>1. t[m + 1] = t[m] + g[m + 1] * Raised(b, m)
      BY <2>1, SumsStep
    <3> QED
      BY <2>1, <3>1
  <2>4. x \in Int
    <3>1. f[m + 1] \in Nat
      BY <2>1 DEF AreDigits
    <3>2. Raised(b, m) \in Nat
      BY <2>1, RaisedIs
    <3> QED
      BY <3>1, <3>2
  <2>5. s[m] \in Int /\ t[m] \in Int
    BY <2>1, SumsStep
  <2>6. s[m] > t[m]
    BY <1>2
  <2> HIDE DEF x
  <2>7. s[m + 1] > t[m + 1]
    BY <2>2, <2>3, <2>4, <2>5, <2>6
  <2> QED
    BY <2>1, <2>7
<1>3. 0 .. last \subseteq Good
  <2> HIDE DEF Good, last
  <2> QED
    BY <1>0, <1>1, <1>2, InductionUpTo
<1> QED
  BY <1>0, <1>3

\* A remainder is taken digit by digit, from the highest down.
AreRemainders(v, f, n, b, d) ==
  v[0] = 0 /\ \A k \in 1 .. n : v[k] = (b * v[k - 1] + f[n + 1 - k]) % d

LEMMA RemaindersOfDigits ==
  ASSUME NEW b \in Nat \ {0}, NEW n, NEW f, AreDigits(f, n, b), NEW s, AreSums(s, f, n, b),
         NEW d \in Nat \ {0}, NEW v, AreRemainders(v, f, n, b, d)
  PROVE  v[n] = s[n] % d
<1> DEFINE R(k) == Raised(b, k)
           Done(k, q) == s[n] = s[n - k] + R(n - k) * (d * q + v[k])
           Good == {k \in Nat : v[k] \in 0 .. d - 1 /\ \E q \in Nat : Done(k, q)}
<1>0. n \in Nat /\ n \in 0 .. n /\ s[n] \in Nat
  BY SumsStep
<1>1. 0 \in Good
  <2>0. v[0] = 0
    BY DEF AreRemainders
  <2>1. n - 0 = n /\ d * 0 + 0 = 0 /\ R(n) * 0 = 0 /\ 0 \in 0 .. d - 1
    <3>1. R(n) \in Nat
      BY <1>0, RaisedIs
    <3> HIDE DEF R
    <3> QED
      BY <1>0, <3>1
  <2>2. s[n] = s[n] + 0
    BY <1>0
  <2>3. Done(0, 0)
    BY <2>0, <2>1, <2>2
  <2> HIDE DEF Done
  <2> QED
    BY <2>0, <2>1, <2>3
<1>2. ASSUME NEW k \in Nat, k < n, k \in Good PROVE k + 1 \in Good
  <2>1. PICK q \in Nat : Done(k, q)
    BY <1>2
  <2> DEFINE m == n - (k + 1)
             w == b * v[k] + f[m + 1]
             e == w \div d
  <2>2. m \in Nat /\ m < n /\ m \in 0 .. n /\ n - k = m + 1 /\ m + 1 \in 1 .. n /\ k + 1 \in 1 .. n
        /\ (k + 1) - 1 = k /\ n + 1 - (k + 1) = m + 1
    BY <1>0, <1>2
  <2>3. v[k + 1] = w % d
    <3>1. v[k + 1] = (b * v[(k + 1) - 1] + f[n + 1 - (k + 1)]) % d
      BY <2>2 DEF AreRemainders
    <3> QED
      BY <2>2, <3>1
  <2>4. f[m + 1] \in Nat /\ v[k] \in Nat
    <3>1. f[m + 1] \in Nat
      BY <2>2 DEF AreDigits
    <3>2. v[k] \in 0 .. d - 1
      BY <1>2
    <3> QED
      BY <3>1, <3>2
  <2>5. s[m + 1] = s[m] + f[m + 1] * R(m)
    BY <2>2, SumsStep
  <2>6. R(m + 1) = b * R(m) /\ R(m) \in Nat
    <3>1. Raised(b, m) \in Nat /\ Raised(b, m + 1) = b * Raised(b, m)
      BY <2>2, RaisedIs
    <3> QED
      BY <3>1
  <2>7. s[n] = s[m + 1] + R(m + 1) * (d * q + v[k])
    BY <2>1, <2>2
  <2>8. s[m] \in Nat
    BY <2>2, SumsStep
  <2>9. w \in Int /\ w \in Nat
    BY <2>4
  <2>10. e \in Nat /\ w % d \in 0 .. d - 1 /\ w = d * e + (w % d)
    <3> HIDE DEF w
    <3> QED
      BY <2>9
  <2> HIDE DEF R, e
  <2> DEFINE fm == f[m + 1]
             vk == v[k]
             vn == v[k + 1]
             r == R(m)
             x == s[m]
  <2>11. x + fm * r + (b * r) * (d * q + vk) = x + r * (d * (b * q + e) + vn)
    <3>1. b * vk + fm = d * e + vn /\ fm \in Int /\ vk \in Int /\ r \in Int /\ vn \in Int
          /\ e \in Int /\ x \in Int /\ b \in Int
      BY <2>3, <2>4, <2>6, <2>8, <2>10
    <3> HIDE DEF w, fm, vk, vn, r, m, x
    <3>2. fm * r + (b * r) * (d * q + vk) = r * (b * (d * q)) + r * (b * vk + fm)
      BY <3>1, Z3
    <3>3. r * (d * (b * q + e) + vn) = r * (b * (d * q)) + r * (d * e + vn)
      BY <3>1, Z3
    <3>4. fm * r + (b * r) * (d * q + vk) = r * (d * (b * q + e) + vn)
      BY <3>1, <3>2, <3>3, Zenon
    <3> DEFINE p1 == fm * r
               p2 == (b * r) * (d * q + vk)
               p3 == r * (d * (b * q + e) + vn)
    <3>5. p1 \in Int /\ p2 \in Int /\ p3 \in Int /\ p1 + p2 = p3
      BY <3>1, <3>4
    <3> HIDE DEF p1, p2, p3
    <3>6. x + p1 + p2 = x + p3
      BY <3>1, <3>5
    <3> QED
      BY <3>6 DEF p1, p2, p3
  <2>12. b * q + e \in Nat
    BY <2>10
  <2>13. s[n] = s[m] + R(m) * (d * (b * q + e) + v[k + 1])
    BY <2>5, <2>6, <2>7, <2>11
  <2>14. Done(k + 1, b * q + e)
    BY <2>13
  <2>15. v[k + 1] \in 0 .. d - 1
    BY <2>3, <2>10
  <2> HIDE DEF Done
  <2> QED
    BY <2>12, <2>14, <2>15
<1> HIDE DEF Good
<1>3. n \in Good
  BY <1>0, <1>1, <1>2, InductionUpTo
<1>4. PICK q \in Nat : Done(n, q) /\ v[n] \in 0 .. d - 1
  BY <1>3 DEF Good
<1>5. s[n] = d * q + v[n]
  <2>1. n - n = 0 /\ s[0] = 0 /\ R(0) = 1
    BY <1>0, SumsStep, RaisedIs
  <2>2. s[n] = s[0] + R(0) * (d * q + v[n])
    BY <1>4, <2>1
  <2> HIDE DEF R
  <2> QED
    BY <1>4, <2>1, <2>2
<1>6. s[n] \in Int /\ q \in Int /\ v[n] \in 0 .. d - 1
  BY <1>0, <1>4
<1> HIDE DEF Done
<1>7. s[n] % d = v[n]
  <2> DEFINE x == s[n]
             y == v[n]
  <2>1. x \in Int /\ q \in Int /\ y \in 0 .. d - 1 /\ x = d * q + y
    BY <1>5, <1>6
  <2> HIDE DEF x, y
  <2>2. x % d = y
    BY <2>1, RemainderIs
  <2> QED
    BY <2>2 DEF x, y
<1> QED
  BY <1>7

\* The next digit of w, above those of p.
LEMMA DigitTaken ==
  ASSUME NEW w \in Nat, NEW p \in Nat \ {0}, NEW b \in Nat \ {0}
  PROVE  w % (b * p) = (w % p) + ((w \div p) % b) * p
<1> DEFINE q == w \div p
           r == w % p
           e == q \div b
           g == q % b
<1>1. q \in Nat /\ r \in 0 .. p - 1 /\ w = p * q + r
  OBVIOUS
<1> HIDE DEF q, r
<1>2. e \in Nat /\ g \in 0 .. b - 1 /\ q = b * e + g
  BY <1>1
<1> HIDE DEF e, g
<1>3. w = (b * p) * e + (r + g * p)
  <2>1. p * (b * e + g) = (b * p) * e + g * p
    BY <1>1, <1>2, Z3
  <2>2. g * p \in Int /\ (b * p) * e \in Int
    BY <1>2
  <2> DEFINE x == g * p
             y == (b * p) * e
  <2>3. x \in Int /\ y \in Int /\ w = (y + x) + r
    BY <1>1, <1>2, <2>1, <2>2
  <2> HIDE DEF x, y
  <2>4. w = y + (r + x)
    BY <1>1, <2>3
  <2> QED
    BY <2>4 DEF x, y
<1>4. r + g * p \in 0 .. b * p - 1
  <2>1. PICK d \in Nat : b = (g + 1) + d
    <3>1. b - (g + 1) \in Nat /\ b = (g + 1) + (b - (g + 1))
      BY <1>2
    <3> QED
      BY <3>1
  <2>2. b * p = (g * p + p) + d * p /\ d * p \in Nat /\ g * p \in Nat
    BY <1>2, <2>1
  <2> QED
    BY <1>1, <2>2
<1>5. b * p \in Nat \ {0}
  OBVIOUS
<1> DEFINE n == b * p
           t == r + g * p
<1>6. n \in Nat \ {0} /\ t \in 0 .. n - 1 /\ e \in Int /\ w \in Int /\ w = n * e + t
  BY <1>2, <1>3, <1>4, <1>5
<1> HIDE DEF n, t
<1>7. w % n = t
  BY <1>6, RemainderIs
<1> QED
  BY <1>7 DEF n, t, r, g, q

\* The digits of w are as many as they are taken.
LEMMA SumsOfDigitsOf ==
  ASSUME NEW b \in Nat \ {0}, NEW w \in Nat, NEW n, NEW f, NEW s, AreSums(s, f, n, b),
         \A k \in 1 .. n : f[k] = (w \div Raised(b, k - 1)) % b
  PROVE  \A k \in 0 .. n : s[k] = w % Raised(b, k)
<1> DEFINE Good == {k \in Nat : s[k] = w % Raised(b, k)}
<1>0. n \in Nat
  BY SumsStep
<1>1. 0 \in Good
  <2>1. s[0] = 0 /\ Raised(b, 0) = 1 /\ w % 1 = 0
    BY SumsStep, RaisedIs
  <2>2. s[0] = w % Raised(b, 0)
    BY <2>1
  <2> QED
    BY <2>2
<1>2. ASSUME NEW k \in Nat, k < n, k \in Good PROVE k + 1 \in Good
  <2> DEFINE p == Raised(b, k)
  <2>1. p \in Nat \ {0}
    BY RaisedGrows
  <2>2. Raised(b, k + 1) = b * p
    BY RaisedIs
  <2>3. k + 1 \in 1 .. n /\ (k + 1) - 1 = k
    BY <1>0, <1>2
  <2>4. f[k + 1] = (w \div p) % b
    BY <2>3
  <2>5. s[k + 1] = s[k] + f[k + 1] * p
    BY <1>2, SumsStep
  <2>6. s[k] = w % p
    BY <1>2
  <2> HIDE DEF p
  <2>7. w % (b * p) = (w % p) + ((w \div p) % b) * p
    BY <2>1, DigitTaken
  <2>8. s[k + 1] = w % Raised(b, k + 1)
    BY <2>2, <2>4, <2>5, <2>6, <2>7
  <2> QED
    BY <2>8
<1> HIDE DEF Good
<1>3. 0 .. n \subseteq Good
  BY <1>0, <1>1, <1>2, InductionUpTo
<1> QED
  BY <1>3 DEF Good

LEMMA QuotientIs ==
  ASSUME NEW n \in Nat \ {0}, NEW k \in Int, NEW r \in 0 .. n - 1, NEW a \in Int,
         a = n * k + r
  PROVE  a \div n = k
<1> DEFINE q == a \div n
           x == n * q
           y == n * k
<1>1. a % n = r
  BY RemainderIs
<1>2. a = n * q + (a % n) /\ q \in Int
  BY Division
<1> HIDE DEF q
<1>3. x \in Int /\ y \in Int /\ a = x + r /\ a = y + r
  BY <1>1, <1>2
<1>4. x = y
  <2> HIDE DEF x, y
  <2> QED
    BY <1>3
<1>5. n * q = n * k
  BY <1>4
<1>6. q = k
  BY <1>2, <1>5
<1> QED
  BY <1>6 DEF q

LEMMA SmallRemainder ==
  ASSUME NEW n \in Nat \ {0}, NEW w \in 0 .. n - 1
  PROVE  w % n = w
<1>1. w = n * 0 + w /\ 0 \in Int /\ w \in Int
  OBVIOUS
<1> QED
  BY <1>1, RemainderIs

\* DigitsFrom i of d digits of f.
DigitsFrom(f, i, d) == [m \in 1 .. d |-> f[d * i + m]]

\* Blocks of digits are digits of a greater base.
LEMMA SumsOfBlocks ==
  ASSUME NEW b \in Nat \ {0}, NEW d \in Nat \ {0}, NEW n \in Nat,
         NEW f, AreDigits(f, d * n, b), NEW s, AreSums(s, f, d * n, b),
         NEW a, NEW t, AreSums(t, a, n, Raised(b, d)),
         \A i \in 0 .. n - 1 : IsSum(a[i + 1], DigitsFrom(f, i, d), d, b)
  PROVE  s[d * n] = t[n]
<1> DEFINE Good == {i \in Nat : s[d * i] = t[i]}
<1>1. 0 \in Good
  <2>1. d * 0 = 0 /\ s[0] = 0 /\ t[0] = 0
    BY SumsStep
  <2>2. s[d * 0] = t[0]
    BY <2>1
  <2> QED
    BY <2>2
<1>2. ASSUME NEW i \in Nat, i < n, i \in Good PROVE i + 1 \in Good
  <2> DEFINE from == d * i
             g == DigitsFrom(f, i, d)
             R == Raised(b, from)
  <2>1. i \in 0 .. n - 1 /\ from \in Nat /\ d * n \in Nat /\ d * (i + 1) = from + d /\ from + d <= d * n
    <3>1. PICK e \in Nat : n = (i + 1) + e
      <4>1. n - (i + 1) \in Nat /\ n = (i + 1) + (n - (i + 1))
        BY <1>2
      <4> QED
        BY <4>1
    <3>2. d * n = (d * i + d) + d * e /\ d * e \in Nat /\ d * i \in Nat
      BY <3>1
    <3> QED
      BY <1>2, <3>2
  <2>2. PICK p : AreSums(p, g, d, b) /\ a[i + 1] = p[d]
    BY <2>1 DEF IsSum
  <2>3. R \in Nat
    BY <2>1, RaisedIs
  <2> DEFINE Inner == {m \in Nat : s[from + m] = s[from] + R * p[m]}
  <2>4. 0 \in Inner
    <3>1. p[0] = 0 /\ s[from] \in Nat
      <4>1. from \in 0 .. d * n
        BY <2>1
      <4> QED
        BY <2>2, <4>1, SumsStep
    <3>2. from + 0 = from
      BY <2>1
    <3> HIDE DEF from, R
    <3>3. s[from + 0] = s[from] + R * p[0]
      BY <2>3, <3>1, <3>2
    <3> QED
      BY <3>3
  <2>5. ASSUME NEW m \in Nat, m < d, m \in Inner PROVE m + 1 \in Inner
    <3> DEFINE rm == Raised(b, m)
               x == g[m + 1]
    <3>1. /\ from + m \in Nat /\ from + m < d * n /\ (from + m) + 1 = from + (m + 1)
          /\ m + 1 \in 1 .. d /\ from + m \in 0 .. d * n /\ from + (m + 1) \in 1 .. d * n
      BY <2>1, <2>5
    <3>2. x = f[from + (m + 1)]
      BY <3>1 DEF DigitsFrom
    <3>3. x \in Nat
      BY <3>1, <3>2 DEF AreDigits
    <3>4. p[m + 1] = p[m] + x * rm /\ p[m] \in Nat
      <4>1. m \in 0 .. d
        BY <2>5
      <4> QED
        BY <2>2, <2>5, <4>1, SumsStep
    <3>5. s[from + (m + 1)] = s[from + m] + x * Raised(b, from + m)
      <4>1. s[(from + m) + 1] = s[from + m] + f[(from + m) + 1] * Raised(b, from + m)
        BY <3>1, SumsStep
      <4> QED
        BY <3>1, <3>2, <4>1
    <3>6. Raised(b, from + m) = R * rm
      BY <2>1, RaisedSum
    <3>7. rm \in Nat
      BY RaisedIs
    <3>8. s[from] \in Nat
      <4>1. from \in 0 .. d * n
        BY <2>1
      <4> QED
        BY <4>1, SumsStep
    <3>9. s[from + m] = s[from] + R * p[m]
      BY <2>5
    <3> HIDE DEF rm, x, R, from
    <3> DEFINE pm == p[m]
    <3>10. R * (pm + x * rm) = R * pm + x * (R * rm) /\ R * pm \in Int /\ x * (R * rm) \in Int
      BY <2>3, <3>3, <3>4, <3>7
    <3>11. s[from + (m + 1)] = s[from] + R * p[m + 1]
      <4> DEFINE u == R * pm
                 v == x * (R * rm)
      <4>1. /\ u \in Int /\ v \in Int /\ R * p[m + 1] = u + v
            /\ s[from + m] = s[from] + u /\ s[from + (m + 1)] = s[from + m] + v
        BY <3>4, <3>5, <3>6, <3>9, <3>10
      <4> HIDE DEF u, v
      <4> QED
        BY <3>8, <4>1
    <3> QED
      BY <3>11
  <2>6. d \in Inner
    <3> HIDE DEF Inner
    <3>1. d \in Nat /\ d \in 0 .. d
      OBVIOUS
    <3> QED
      BY <2>4, <2>5, <3>1, InductionUpTo
  <2>7. t[i + 1] = t[i] + a[i + 1] * R
    <3>1. t[i + 1] = t[i] + a[i + 1] * Raised(Raised(b, d), i)
      BY <1>2, SumsStep
    <3>2. Raised(Raised(b, d), i) = R
      BY RaisedProduct
    <3> QED
      BY <3>1, <3>2
  <2>8. s[from] = t[i]
    BY <1>2
  <2>9. p[d] \in Nat
    <3>1. d \in 0 .. d
      OBVIOUS
    <3> QED
      BY <2>2, <3>1, SumsStep
  <2>10. s[from + d] = s[from] + R * p[d]
    BY <2>6
  <2> HIDE DEF R, from
  <2>11. R * p[d] = p[d] * R
    BY <2>3, <2>9
  <2>12. s[d * (i + 1)] = t[i + 1]
    BY <2>1, <2>2, <2>7, <2>8, <2>10, <2>11
  <2> QED
    BY <2>12
<1> HIDE DEF Good
<1>3. n \in Good
  <2>1. n \in 0 .. n
    OBVIOUS
  <2> QED
    BY <1>1, <1>2, <2>1, InductionUpTo
<1> QED
  BY <1>3 DEF Good

-----------------------------------------------------------------------------
(* Numbers *)

Word == 0 .. WordBase - 1

\* a is the number v, in n words.
IsNumber(a, n, v) == IsText(a, n, Word) /\ IsSum(v, a, n, WordBase)

LEMMA WordBaseIs ==
  /\ WordBase \in Nat \ {0} /\ WordBase \div 2 \in Nat /\ WordBase = 2 * (WordBase \div 2)
  /\ WordBase > 1
<1>1. BITS \in Nat \ {0}
  BY BnAssumption
<1> DEFINE h == Raised(2, BITS - 1)
<1>2. BITS - 1 \in Nat /\ (BITS - 1) + 1 = BITS
  BY <1>1
<1>3. h \in Nat \ {0}
  BY <1>2, RaisedGrows
<1>4. Raised(2, (BITS - 1) + 1) = 2 * h
  BY <1>2, RaisedIs
<1> HIDE DEF h
<1>5. WordBase = 2 * h
  BY <1>2, <1>4 DEF WordBase
<1>6. (2 * h) \div 2 = h
  BY <1>3
<1> QED
  BY <1>3, <1>5, <1>6

LEMMA WordsAreNumbers == Word \subseteq Nat
BY WordBaseIs DEF Word

LEMMA NumberIs ==
  ASSUME NEW a, NEW n, NEW v, IsNumber(a, n, v)
  PROVE  /\ n \in Nat /\ Len(a) = n /\ AreDigits(a, n, WordBase)
         /\ \A k \in 1 .. n : a[k] \in Word
         /\ v \in 0 .. Raised(WordBase, n) - 1
<1>1. IsText(a, n, Word)
  BY DEF IsNumber
<1>2. n \in Nat /\ Len(a) = n /\ \A k \in 1 .. n : a[k] \in Word
  BY <1>1, TextIs
<1>3. AreDigits(a, n, WordBase)
  BY <1>2 DEF AreDigits, Word
<1>4. PICK w \in 0 .. Raised(WordBase, n) - 1 : IsSum(w, a, n, WordBase)
  BY <1>3, SumOfDigits, WordBaseIs
<1>5. w = v
  BY <1>4, SumIsOne DEF IsNumber
<1> QED
  BY <1>2, <1>3, <1>4, <1>5

LEMMA TextIsNumber ==
  ASSUME NEW a, NEW n, IsText(a, n, Word)
  PROVE  \E v : IsNumber(a, n, v)
<1>1. n \in Nat /\ \A k \in 1 .. n : a[k] \in Word
  BY TextIs
<1>2. AreDigits(a, n, WordBase)
  BY <1>1 DEF AreDigits, Word
<1>3. \E v \in 0 .. Raised(WordBase, n) - 1 : IsSum(v, a, n, WordBase)
  BY <1>2, SumOfDigits, WordBaseIs
<1> QED
  BY <1>3 DEF IsNumber

LEMMA IntegerOfNumber ==
  ASSUME NEW a, NEW n, NEW v, IsNumber(a, n, v)
  PROVE  IntegerOf(a) = v
<1> DEFINE IsRun(f) == f = [k \in 0 .. Len(a) |->
                              IF k = 0 THEN 0 ELSE f[k - 1] + a[k] * Raised(WordBase, k - 1)]
           sum == CHOOSE f : IsRun(f)
<1>1. n \in Nat /\ Len(a) = n
  BY NumberIs
<1>2. PICK s : AreSums(s, a, n, WordBase) /\ v = s[n]
  BY DEF IsNumber, IsSum
<1>3. IsRun(s)
  BY <1>1, <1>2, SumsRun DEF IsSumRun
<1>4. IsRun(sum)
  BY <1>3, Zenon
<1>5. IntegerOf(a) = sum[n]
  BY <1>1 DEF IntegerOf
<1> HIDE DEF sum
<1>6. IsSumRun(sum, a, n, WordBase)
  BY <1>1, <1>4 DEF IsSumRun
<1> QED
  BY <1>2, <1>5, <1>6, SumsAreRun

LEMMA WordsAre ==
  ASSUME NEW n \in Nat, NEW f, NEW T, IsTable(f, n, T)
  PROVE  IsText(Words(n, f), n, T) /\ \A i \in 1 .. n : Words(n, f)[i] = f[i]
<1>1. IsText(f, n, T)
  BY IsTextOf
<1>2. 1 \in 1 .. n + 1 /\ n \in 1 - 1 .. n /\ n - 1 + 1 = n
  OBVIOUS
<1>3. /\ IsText(SubSeq(f, 1, n), n - 1 + 1, T)
      /\ \A i \in 1 .. n - 1 + 1 : SubSeq(f, 1, n)[i] = f[1 + i - 1]
  BY <1>1, <1>2, SubText
<1>4. \A i \in 1 .. n : 1 + i - 1 = i
  OBVIOUS
<1> QED
  BY <1>2, <1>3, <1>4 DEF Words

\* A number that is 0 above its lowest word.
LEMMA LowNumber ==
  ASSUME NEW n \in Nat \ {0}, NEW low \in Word, NEW f, IsTable(f, n, Word), f[1] = low,
         \A i \in 2 .. n : f[i] = 0
  PROVE  IsNumber(Words(n, f), n, low)
<1> DEFINE a == Words(n, f)
           one == 1
<1>1. IsText(a, n, Word) /\ \A i \in 1 .. n : a[i] = f[i]
  BY WordsAre
<1> HIDE DEF a
<1>2. PICK v : IsNumber(a, n, v)
  BY <1>1, TextIsNumber
<1>3. PICK s : AreSums(s, a, n, WordBase) /\ v = s[n]
  BY <1>2 DEF IsNumber, IsSum
<1>4. s[1] = low
  <2>1. s[0 + 1] = s[0] + a[0 + 1] * Raised(WordBase, 0) /\ s[0] = 0
    BY <1>3, SumsStep
  <2>2. Raised(WordBase, 0) = 1
    BY RaisedIs, WordBaseIs
  <2>3. a[1] = low /\ 0 + 1 = 1
    BY <1>1
  <2> QED
    BY <2>1, <2>2, <2>3 DEF Word
<1>5. s[n] = s[1]
  <2>1. AreZeros(a, one, n)
    BY <1>1 DEF AreZeros
  <2>2. one \in 0 .. n /\ n \in one .. n /\ WordBase \in Nat
    BY WordBaseIs
  <2> HIDE DEF one
  <2>3. s[n] = s[one]
    BY <1>3, <2>1, <2>2, SumsOfZeros
  <2> QED
    BY <2>3 DEF one
<1> QED
  BY <1>2, <1>3, <1>4, <1>5 DEF a

LEMMA ZeroIsNumber ==
  ASSUME NEW n \in Nat \ {0}
  PROVE  IsNumber(BnZer(n), n, 0)
<1> DEFINE f == [i \in 1 .. n |-> 0]
           none == 0
<1>1. none \in Word
  BY WordBaseIs DEF Word
<1>2. IsTable(f, n, Word) /\ f[1] = none /\ \A i \in 2 .. n : f[i] = 0
  BY <1>1 DEF IsTable
<1> HIDE DEF f, none
<1>3. IsNumber(Words(n, f), n, none)
  BY <1>1, <1>2, LowNumber
<1> QED
  BY <1>3 DEF BnZer, f, none

LEMMA OneIsNumber ==
  ASSUME NEW n \in Nat \ {0}
  PROVE  IsNumber(One(n), n, 1)
<1> DEFINE f == [i \in 1 .. n |-> IF i = 1 THEN 1 ELSE 0]
           one == 1
<1>1. one \in Word /\ 0 \in Word
  BY WordBaseIs DEF Word
<1>2. IsTable(f, n, Word) /\ f[1] = one /\ \A i \in 2 .. n : f[i] = 0
  BY <1>1 DEF IsTable
<1> HIDE DEF f, one
<1>3. IsNumber(Words(n, f), n, one)
  BY <1>1, <1>2, LowNumber
<1> QED
  BY <1>3 DEF One, f, one

\* The number that is made of an integer.
LEMMA NumberOfIs ==
  ASSUME NEW n \in Nat, NEW v \in 0 .. Raised(WordBase, n) - 1
  PROVE  IsNumber(NumberOf(v, n), n, v)
<1> DEFINE f == [i \in 1 .. n |-> (v \div Raised(WordBase, i - 1)) % WordBase]
           a == Words(n, f)
<1>0. v \in Nat /\ WordBase \in Nat \ {0} /\ Raised(WordBase, n) \in Nat \ {0}
  BY WordBaseIs, RaisedGrows
<1>1. ASSUME NEW i \in 1 .. n PROVE f[i] \in Word
  <2> DEFINE p == Raised(WordBase, i - 1)
             q == v \div p
  <2>1. i - 1 \in Nat
    OBVIOUS
  <2>2. p \in Nat \ {0}
    BY <1>0, <2>1, RaisedGrows
  <2> HIDE DEF p
  <2>3. q \in Int
    BY <1>0, <2>2
  <2> HIDE DEF q
  <2>4. q % WordBase \in 0 .. WordBase - 1
    BY <1>0, <2>3, Division
  <2> QED
    BY <2>4 DEF p, q, Word
<1>2. IsTable(f, n, Word)
  BY <1>1 DEF IsTable
<1>3. \A i \in 1 .. n : f[i] = (v \div Raised(WordBase, i - 1)) % WordBase
  OBVIOUS
<1> HIDE DEF f
<1>4. IsText(a, n, Word) /\ \A i \in 1 .. n : a[i] = f[i]
  BY <1>2, WordsAre
<1> HIDE DEF a
<1>5. PICK w : IsNumber(a, n, w)
  BY <1>4, TextIsNumber
<1>6. PICK s : AreSums(s, a, n, WordBase) /\ w = s[n]
  BY <1>5 DEF IsNumber, IsSum
<1>7. \A k \in 1 .. n : a[k] = (v \div Raised(WordBase, k - 1)) % WordBase
  BY <1>3, <1>4
<1>8. \A k \in 0 .. n : s[k] = v % Raised(WordBase, k)
  BY <1>0, <1>6, <1>7, SumsOfDigitsOf
<1>9. s[n] = v % Raised(WordBase, n)
  BY <1>8
<1>10. v % Raised(WordBase, n) = v
  BY <1>0, SmallRemainder
<1> QED
  BY <1>5, <1>6, <1>9, <1>10 DEF NumberOf, a, f

LEMMA NumbersCarried ==
  ASSUME NEW n, NEW a, NEW v, IsNumber(a, n, v), NEW b, NEW w, IsNumber(b, n, w),
         NEW x, NEW z, IsNumber(x, n, z),
         NEW c, \A k \in 0 .. n : c[k] \in Int,
         \A k \in 1 .. n : a[k] + b[k] + c[k - 1] = x[k] + WordBase * c[k]
  PROVE  v + w + c[0] = z + Raised(WordBase, n) * c[n]
<1>1. AreDigits(a, n, WordBase) /\ AreDigits(b, n, WordBase) /\ AreDigits(x, n, WordBase)
  BY NumberIs
<1>2. PICK s : AreSums(s, a, n, WordBase) /\ v = s[n]
  BY DEF IsNumber, IsSum
<1>3. PICK t : AreSums(t, b, n, WordBase) /\ w = t[n]
  BY DEF IsNumber, IsSum
<1>4. PICK u : AreSums(u, x, n, WordBase) /\ z = u[n]
  BY DEF IsNumber, IsSum
<1>5. WordBase \in Nat \ {0}
  BY WordBaseIs
<1>6. s[n] + t[n] + c[0] = u[n] + Raised(WordBase, n) * c[n]
  BY <1>1, <1>2, <1>3, <1>4, <1>5, Carried
<1> QED
  BY <1>2, <1>3, <1>4, <1>6

AreCarries(c, a, b, n) ==
  /\ c \in [0 .. n -> Nat] /\ c[0] = 0
  /\ \A k \in 1 .. n : c[k] = (a[k] + b[k] + c[k - 1]) \div WordBase

LEMMA CarriesAre ==
  ASSUME NEW n, NEW a, IsText(a, n, Word), NEW b, IsText(b, n, Word)
  PROVE  AreCarries(Carries(a, b), a, b, n)
<1> DEFINE IsRun(f) == f = [k \in 0 .. Len(a) |->
                              IF k = 0 THEN 0 ELSE (a[k] + b[k] + f[k - 1]) \div WordBase]
           carry == CHOOSE f : IsRun(f)
           X == Nat
           none == 0
           next(k, x) == (a[k] + b[k] + x) \div WordBase
           step == [kx \in (0 .. n) \X X |-> IF kx[1] = 0 THEN 0 ELSE next(kx[1], kx[2])]
<1>1. n \in Nat /\ Len(a) = n /\ \A k \in 1 .. n : a[k] \in Nat /\ b[k] \in Nat
  <2>1. n \in Nat /\ Len(a) = n /\ \A k \in 1 .. n : a[k] \in Word
    BY TextIs
  <2>2. \A k \in 1 .. n : b[k] \in Word
    BY TextIs
  <2> QED
    BY <2>1, <2>2, WordsAreNumbers
<1>2. ASSUME NEW k \in 1 .. n, NEW x \in X PROVE next(k, x) \in X
  <2> DEFINE y == a[k] + b[k] + x
  <2>1. y \in Nat /\ WordBase \in Nat \ {0}
    BY <1>1, WordBaseIs
  <2> HIDE DEF y
  <2>2. y \div WordBase \in Nat
    BY <2>1
  <2> QED
    BY <2>2 DEF y
<1> HIDE DEF next
<1>3. IsStepUpTo(step, n, X)
  <2>1. \A kx \in (0 .. n) \X X : (IF kx[1] = 0 THEN 0 ELSE next(kx[1], kx[2])) \in X
    BY <1>1, <1>2
  <2> QED
    BY <2>1 DEF IsStepUpTo, IsStep
<1>4. \A k \in 1 .. n, x \in X : step[<<k, x>>] = next(k, x)
  BY <1>1
<1>5. none \in X
  OBVIOUS
<1> HIDE DEF step, X, none
<1>6. PICK c \in [0 .. n -> X] : c[0] = none /\ \A k \in 1 .. n : c[k] = step[<<k, c[k - 1]>>]
  BY <1>1, <1>3, <1>5, RecursionUpTo
<1>7. ASSUME NEW k \in 1 .. n PROVE c[k] = next(k, c[k - 1])
  <2>1. k - 1 \in 0 .. n
    BY <1>1
  <2>2. c[k - 1] \in X
    BY <2>1
  <2> QED
    BY <1>4, <1>6, <2>2
<1>8. AreCarries(c, a, b, n)
  BY <1>6, <1>7 DEF AreCarries, X, none, next
<1>9. IsRun(c)
  <2>1. c = [k \in 0 .. n |-> c[k]]
    BY <1>6
  <2>2. ASSUME NEW k \in 0 .. n
        PROVE  c[k] = IF k = 0 THEN 0 ELSE (a[k] + b[k] + c[k - 1]) \div WordBase
    <3>1. k = 0 \/ k \in 1 .. n
      BY <1>1
    <3> QED
      BY <1>8, <3>1 DEF AreCarries
  <2> QED
    BY <1>1, <2>1, <2>2
<1>10. IsRun(carry)
  BY <1>9, Zenon
<1>11. Carries(a, b) = carry
  BY DEF Carries
<1> HIDE DEF carry
<1> DEFINE Good == {k \in Nat : carry[k] = c[k]}
<1>12. 0 \in Good
  <2>1. 0 \in 0 .. n
    BY <1>1
  <2>2. carry[0] = 0
    BY <1>1, <1>10, <2>1
  <2> QED
    BY <1>8, <2>2 DEF AreCarries
<1>13. ASSUME NEW k \in Nat, k < n, k \in Good PROVE k + 1 \in Good
  <2>1. k + 1 \in 0 .. n /\ k + 1 \in 1 .. n /\ (k + 1) - 1 = k /\ k + 1 # 0
    BY <1>1, <1>13
  <2>2. carry[k + 1] = (a[k + 1] + b[k + 1] + carry[k]) \div WordBase
    BY <1>1, <1>10, <2>1
  <2>3. c[k + 1] = (a[k + 1] + b[k + 1] + c[k]) \div WordBase
    BY <1>8, <2>1 DEF AreCarries
  <2>4. carry[k + 1] = c[k + 1]
    BY <1>13, <2>2, <2>3
  <2> QED
    BY <2>4
<1>14. \A k \in 0 .. n : carry[k] = c[k]
  <2>1. 0 .. n \subseteq Good
    <3> HIDE DEF Good
    <3> QED
      BY <1>1, <1>12, <1>13, InductionUpTo
  <2> QED
    BY <2>1
<1>15. carry = c
  <2>1. carry = [k \in 0 .. n |-> carry[k]]
    <3>1. DOMAIN carry = 0 .. n
      BY <1>1, <1>10
    <3> QED
      BY <1>1, <1>10, <3>1
  <2>2. c = [k \in 0 .. n |-> c[k]]
    BY <1>6
  <2> QED
    BY <1>14, <2>1, <2>2
<1> QED
  BY <1>8, <1>11, <1>15

\* What does not fit in n words is carried out of them.
LEMMA BnAddIs ==
  ASSUME NEW n, NEW a, NEW v, IsNumber(a, n, v), NEW b, NEW w, IsNumber(b, n, w)
  PROVE  \E z \in Nat, c \in Nat :
           IsNumber(BnAdd(a, b), n, z) /\ v + w = z + Raised(WordBase, n) * c
<1> DEFINE carry == Carries(a, b)
           f == [i \in 1 .. n |-> (a[i] + b[i] + carry[i - 1]) % WordBase]
           x == Words(n, f)
<1>1. IsText(a, n, Word) /\ IsText(b, n, Word)
  BY DEF IsNumber
<1>2. n \in Nat /\ Len(a) = n /\ \A k \in 1 .. n : a[k] \in Nat /\ b[k] \in Nat
  <2>1. n \in Nat /\ Len(a) = n /\ \A k \in 1 .. n : a[k] \in Word
    BY <1>1, TextIs
  <2>2. \A k \in 1 .. n : b[k] \in Word
    BY <1>1, TextIs
  <2> QED
    BY <2>1, <2>2, WordsAreNumbers
<1>3. AreCarries(carry, a, b, n)
  BY <1>1, CarriesAre
<1> HIDE DEF carry
<1>4. \A k \in 0 .. n : carry[k] \in Nat
  BY <1>3 DEF AreCarries
<1>5. ASSUME NEW k \in 1 .. n
      PROVE  f[k] \in Word /\ a[k] + b[k] + carry[k - 1] = f[k] + WordBase * carry[k]
  <2> DEFINE y == a[k] + b[k] + carry[k - 1]
  <2>1. k - 1 \in 0 .. n
    BY <1>2
  <2>2. y \in Int /\ WordBase \in Nat \ {0}
    BY <1>2, <1>4, <2>1, WordBaseIs
  <2>3. carry[k] = y \div WordBase
    BY <1>3 DEF AreCarries
  <2>4. f[k] = y % WordBase
    OBVIOUS
  <2> HIDE DEF y, f
  <2>5. y % WordBase \in 0 .. WordBase - 1 /\ y \div WordBase \in Int
        /\ y = WordBase * (y \div WordBase) + (y % WordBase)
    BY <2>2, Division
  <2> DEFINE q == WordBase * (y \div WordBase)
             r == y % WordBase
  <2>6. q \in Int /\ r \in Int
    BY <2>2, <2>5
  <2> HIDE DEF q, r
  <2>7. q + r = r + q
    BY <2>6
  <2>8. y = f[k] + WordBase * carry[k]
    BY <2>3, <2>4, <2>5, <2>7 DEF q, r
  <2> QED
    BY <2>4, <2>5, <2>8 DEF y, Word
<1>6. IsTable(f, n, Word)
  BY <1>5 DEF IsTable
<1>7. BnAdd(a, b) = x
  BY <1>2 DEF BnAdd, carry
<1> HIDE DEF f
<1>8. IsText(x, n, Word) /\ \A i \in 1 .. n : x[i] = f[i]
  BY <1>2, <1>6, WordsAre
<1> HIDE DEF x
<1>9. PICK z : IsNumber(x, n, z)
  BY <1>8, TextIsNumber
<1>10. z \in Nat /\ v \in Nat /\ w \in Nat
  BY <1>9, NumberIs
<1>11. \A k \in 1 .. n : a[k] + b[k] + carry[k - 1] = x[k] + WordBase * carry[k]
  BY <1>5, <1>8
<1>12. \A k \in 0 .. n : carry[k] \in Int
  BY <1>4
<1>13. v + w + carry[0] = z + Raised(WordBase, n) * carry[n]
  BY <1>9, <1>11, <1>12, NumbersCarried
<1>14. carry[0] = 0 /\ carry[n] \in Nat
  BY <1>2, <1>3, <1>4 DEF AreCarries
<1>15. v + w = z + Raised(WordBase, n) * carry[n]
  BY <1>10, <1>13, <1>14
<1> QED
  BY <1>7, <1>9, <1>10, <1>14, <1>15

\* A sum that fits is made.
LEMMA BnAddFits ==
  ASSUME NEW n, NEW a, NEW v, IsNumber(a, n, v), NEW b, NEW w, IsNumber(b, n, w),
         v + w < Raised(WordBase, n)
  PROVE  IsNumber(BnAdd(a, b), n, v + w)
<1> DEFINE R == Raised(WordBase, n)
<1>1. n \in Nat /\ v \in Nat /\ w \in Nat
  BY NumberIs
<1>2. R \in Nat \ {0}
  BY <1>1, WordBaseIs, RaisedGrows
<1>3. PICK z \in Nat, c \in Nat : IsNumber(BnAdd(a, b), n, z) /\ v + w = z + R * c
  BY BnAddIs
<1>4. v + w < R
  OBVIOUS
<1> HIDE DEF R
<1>5. CASE c = 0
  BY <1>1, <1>2, <1>3, <1>5
<1>6. CASE c # 0
  <2>1. c - 1 \in Nat /\ R * c = R + R * (c - 1) /\ R * (c - 1) \in Nat
    BY <1>2, <1>6
  <2> QED
    BY <1>1, <1>2, <1>3, <1>4, <2>1
<1> QED
  BY <1>5, <1>6

AreBorrows(c, a, b, n) ==
  /\ c \in [0 .. n -> {0, 1}] /\ c[0] = 0
  /\ \A k \in 1 .. n : c[k] = IF a[k] < b[k] + c[k - 1] THEN 1 ELSE 0

LEMMA BorrowsAre ==
  ASSUME NEW n, NEW a, IsText(a, n, Word), NEW b, IsText(b, n, Word)
  PROVE  AreBorrows(Borrows(a, b), a, b, n)
<1> DEFINE IsRun(f) == f = [k \in 0 .. Len(a) |->
                              IF k = 0 THEN 0 ELSE IF a[k] < b[k] + f[k - 1] THEN 1 ELSE 0]
           borrow == CHOOSE f : IsRun(f)
           X == {0, 1}
           none == 0
           next(k, x) == IF a[k] < b[k] + x THEN 1 ELSE 0
           step == [kx \in (0 .. n) \X X |-> IF kx[1] = 0 THEN 0 ELSE next(kx[1], kx[2])]
<1>1. n \in Nat /\ Len(a) = n
  BY TextIs
<1>2. ASSUME NEW k, NEW x PROVE next(k, x) \in X
  OBVIOUS
<1> HIDE DEF next
<1>5. none \in X
  OBVIOUS
<1>3. IsStepUpTo(step, n, X)
  <2>1. \A kx \in (0 .. n) \X X : (IF kx[1] = 0 THEN 0 ELSE next(kx[1], kx[2])) \in X
    BY <1>2
  <2> QED
    BY <2>1 DEF IsStepUpTo, IsStep
<1>4. \A k \in 1 .. n, x \in X : step[<<k, x>>] = next(k, x)
  BY <1>1
<1> HIDE DEF step, X, none
<1>6. PICK c \in [0 .. n -> X] : c[0] = none /\ \A k \in 1 .. n : c[k] = step[<<k, c[k - 1]>>]
  BY <1>1, <1>3, <1>5, RecursionUpTo
<1>7. ASSUME NEW k \in 1 .. n PROVE c[k] = next(k, c[k - 1])
  <2>1. k - 1 \in 0 .. n
    BY <1>1
  <2>2. c[k - 1] \in X
    BY <2>1
  <2> QED
    BY <1>4, <1>6, <2>2
<1>8. AreBorrows(c, a, b, n)
  BY <1>6, <1>7 DEF AreBorrows, X, none, next
<1>9. IsRun(c)
  <2>1. c = [k \in 0 .. n |-> c[k]]
    BY <1>6
  <2>2. ASSUME NEW k \in 0 .. n
        PROVE  c[k] = IF k = 0 THEN 0 ELSE IF a[k] < b[k] + c[k - 1] THEN 1 ELSE 0
    <3>1. k = 0 \/ k \in 1 .. n
      BY <1>1
    <3> QED
      BY <1>8, <3>1 DEF AreBorrows
  <2> QED
    BY <1>1, <2>1, <2>2
<1>10. IsRun(borrow)
  BY <1>9, Zenon
<1>11. Borrows(a, b) = borrow
  BY DEF Borrows
<1> HIDE DEF borrow
<1> DEFINE Good == {k \in Nat : borrow[k] = c[k]}
<1>12. 0 \in Good
  <2>1. 0 \in 0 .. n
    BY <1>1
  <2>2. borrow[0] = 0
    BY <1>1, <1>10, <2>1
  <2> QED
    BY <1>8, <2>2 DEF AreBorrows
<1>13. ASSUME NEW k \in Nat, k < n, k \in Good PROVE k + 1 \in Good
  <2>1. k + 1 \in 0 .. n /\ k + 1 \in 1 .. n /\ (k + 1) - 1 = k /\ k + 1 # 0
    BY <1>1, <1>13
  <2>2. borrow[k + 1] = IF a[k + 1] < b[k + 1] + borrow[k] THEN 1 ELSE 0
    BY <1>1, <1>10, <2>1
  <2>3. c[k + 1] = IF a[k + 1] < b[k + 1] + c[k] THEN 1 ELSE 0
    BY <1>8, <2>1 DEF AreBorrows
  <2>4. borrow[k + 1] = c[k + 1]
    BY <1>13, <2>2, <2>3
  <2> QED
    BY <2>4
<1>14. \A k \in 0 .. n : borrow[k] = c[k]
  <2>1. 0 .. n \subseteq Good
    <3> HIDE DEF Good
    <3> QED
      BY <1>1, <1>12, <1>13, InductionUpTo
  <2> QED
    BY <2>1
<1>15. borrow = c
  <2>1. borrow = [k \in 0 .. n |-> borrow[k]]
    <3>1. DOMAIN borrow = 0 .. n
      BY <1>1, <1>10
    <3> QED
      BY <1>1, <1>10, <3>1
  <2>2. c = [k \in 0 .. n |-> c[k]]
    BY <1>6
  <2> QED
    BY <1>14, <2>1, <2>2
<1> QED
  BY <1>8, <1>11, <1>15

\* What is missing is borrowed from above the n words.
LEMMA BnSubIs ==
  ASSUME NEW n, NEW a, NEW v, IsNumber(a, n, v), NEW b, NEW w, IsNumber(b, n, w)
  PROVE  \E z \in Nat, c \in {0, 1} :
           IsNumber(BnSub(a, b), n, z) /\ z + w = v + Raised(WordBase, n) * c
<1> DEFINE borrow == Borrows(a, b)
           f == [i \in 1 .. n |-> (a[i] - b[i] - borrow[i - 1]) % WordBase]
           x == Words(n, f)
<1>1. IsText(a, n, Word) /\ IsText(b, n, Word)
  BY DEF IsNumber
<1>2. n \in Nat /\ Len(a) = n /\ \A k \in 1 .. n : a[k] \in Word /\ b[k] \in Word
  <2>1. n \in Nat /\ Len(a) = n /\ \A k \in 1 .. n : a[k] \in Word
    BY <1>1, TextIs
  <2>2. \A k \in 1 .. n : b[k] \in Word
    BY <1>1, TextIs
  <2> QED
    BY <2>1, <2>2
<1>3. AreBorrows(borrow, a, b, n)
  BY <1>1, BorrowsAre
<1> HIDE DEF borrow
<1>4. \A k \in 0 .. n : borrow[k] \in {0, 1}
  BY <1>3 DEF AreBorrows
<1>5. ASSUME NEW k \in 1 .. n
      PROVE  f[k] \in Word /\ f[k] + b[k] + borrow[k - 1] = a[k] + WordBase * borrow[k]
  <2> DEFINE y == a[k] - b[k] - borrow[k - 1]
             t == y + WordBase * borrow[k]
             q == 0 - borrow[k]
  <2>1. k - 1 \in 0 .. n /\ k \in 0 .. n
    BY <1>2
  <2>2. a[k] \in 0 .. WordBase - 1 /\ b[k] \in 0 .. WordBase - 1 /\ borrow[k - 1] \in {0, 1}
        /\ borrow[k] \in {0, 1}
    BY <1>2, <1>4, <2>1 DEF Word
  <2>3. borrow[k] = IF a[k] < b[k] + borrow[k - 1] THEN 1 ELSE 0
    BY <1>3 DEF AreBorrows
  <2>4. WordBase \in Nat \ {0}
    BY WordBaseIs
  <2>5. t \in 0 .. WordBase - 1 /\ y \in Int /\ q \in Int /\ y = WordBase * q + t
    <3>1. CASE borrow[k] = 0
      BY <2>2, <2>3, <2>4, <3>1
    <3>2. CASE borrow[k] = 1
      BY <2>2, <2>3, <2>4, <3>2
    <3> QED
      BY <2>2, <3>1, <3>2
  <2>6. f[k] = y % WordBase
    OBVIOUS
  <2>7. t + b[k] + borrow[k - 1] = a[k] + WordBase * borrow[k]
    <3>1. CASE borrow[k] = 0
      BY <2>2, <2>4, <3>1
    <3>2. CASE borrow[k] = 1
      BY <2>2, <2>4, <3>2
    <3> QED
      BY <2>2, <3>1, <3>2
  <2> HIDE DEF y, t, q, f
  <2>8. y % WordBase = t
    BY <2>4, <2>5, RemainderIs
  <2> QED
    BY <2>5, <2>6, <2>7, <2>8 DEF Word
<1>6. IsTable(f, n, Word)
  BY <1>5 DEF IsTable
<1>7. BnSub(a, b) = x
  BY <1>2 DEF BnSub, borrow
<1> HIDE DEF f
<1>8. IsText(x, n, Word) /\ \A i \in 1 .. n : x[i] = f[i]
  BY <1>2, <1>6, WordsAre
<1> HIDE DEF x
<1>9. PICK z : IsNumber(x, n, z)
  BY <1>8, TextIsNumber
<1>10. z \in Nat /\ v \in Nat /\ w \in Nat
  BY <1>9, NumberIs
<1>11. \A k \in 1 .. n : x[k] + b[k] + borrow[k - 1] = a[k] + WordBase * borrow[k]
  BY <1>5, <1>8
<1>12. \A k \in 0 .. n : borrow[k] \in Int
  BY <1>4
<1>13. z + w + borrow[0] = v + Raised(WordBase, n) * borrow[n]
  BY <1>9, <1>11, <1>12, NumbersCarried
<1>14. borrow[0] = 0 /\ borrow[n] \in {0, 1}
  BY <1>2, <1>3, <1>4 DEF AreBorrows
<1>15. z + w = v + Raised(WordBase, n) * borrow[n]
  BY <1>10, <1>13, <1>14
<1> QED
  BY <1>7, <1>9, <1>10, <1>14, <1>15

IsShifted(x, n, y) ==
  \E z \in Nat, c \in Nat :
    x.out = c /\ IsNumber(x.n, n, z) /\ y = z + Raised(WordBase, n) * c

\* A bit comes out if the number is half its greatest value or more.
LEMMA BnShlIs ==
  ASSUME NEW n \in Nat \ {0}, NEW a, NEW v, IsNumber(a, n, v), NEW bit \in {0, 1}
  PROVE  IsShifted(BnShl(a, bit), n, 2 * v + bit)
<1> DEFINE c == [k \in 0 .. n |-> IF k = 0 THEN bit ELSE (2 * a[k]) \div WordBase]
           f == [i \in 1 .. n |->
                   ((2 * a[i]) % WordBase) + (IF i = 1 THEN bit ELSE (2 * a[i - 1]) \div WordBase)]
           x == Words(n, f)
           h == WordBase \div 2
<1>1. IsText(a, n, Word)
  BY DEF IsNumber
<1>2. Len(a) = n /\ \A k \in 1 .. n : a[k] \in Word
  BY <1>1, TextIs
<1>3. h \in Nat /\ WordBase = 2 * h /\ h > 0 /\ WordBase \in Nat
  BY WordBaseIs
<1> HIDE DEF h
<1>4. ASSUME NEW k \in 1 .. n
      PROVE  /\ (2 * a[k]) \div WordBase \in {0, 1}
             /\ (2 * a[k]) % WordBase \in 0 .. WordBase - 2
             /\ 2 * a[k] = WordBase * ((2 * a[k]) \div WordBase) + ((2 * a[k]) % WordBase)
  <2> DEFINE y == a[k]
             q == IF y < h THEN 0 ELSE 1
             r == 2 * y - WordBase * q
  <2>1. y \in 0 .. WordBase - 1
    BY <1>2 DEF Word
  <2> HIDE DEF y
  <2>2. q \in {0, 1} /\ q \in Int /\ 2 * y \in Int /\ r \in 0 .. WordBase - 2
        /\ 2 * y = WordBase * q + r /\ r \in 0 .. WordBase - 1
    BY <1>3, <2>1
  <2>3. WordBase \in Nat \ {0}
    BY <1>3
  <2> DEFINE yy == 2 * y
  <2>4. yy \in Int /\ yy = WordBase * q + r
    BY <2>2
  <2> HIDE DEF q, r, yy
  <2>5. yy % WordBase = r
    BY <2>2, <2>3, <2>4, RemainderIs
  <2>6. yy \div WordBase = q
    BY <2>2, <2>3, <2>4, QuotientIs
  <2> QED
    BY <2>2, <2>4, <2>5, <2>6 DEF yy, y
<1>5. \A k \in 0 .. n : c[k] \in {0, 1}
  BY <1>4
<1>6. ASSUME NEW k \in 1 .. n
      PROVE  f[k] \in Word /\ a[k] + a[k] + c[k - 1] = f[k] + WordBase * c[k]
  <2> DEFINE q == (2 * a[k]) \div WordBase
             r == (2 * a[k]) % WordBase
             below == IF k = 1 THEN bit ELSE (2 * a[k - 1]) \div WordBase
  <2>1. f[k] = r + below /\ c[k] = q
    OBVIOUS
  <2>2. c[k - 1] = below /\ k - 1 \in 0 .. n
    OBVIOUS
  <2>3. below \in {0, 1}
    BY <1>5, <2>2
  <2>4. q \in {0, 1} /\ r \in 0 .. WordBase - 2 /\ 2 * a[k] = WordBase * q + r /\ a[k] \in Nat
    BY <1>2, <1>4, WordsAreNumbers
  <2> HIDE DEF q, r, below, c, f
  <2>5. r + below \in 0 .. WordBase - 1
    BY <1>3, <2>3, <2>4
  <2>6. a[k] + a[k] + below = (r + below) + WordBase * q
    <3>1. CASE q = 0
      BY <1>3, <2>3, <2>4, <3>1
    <3>2. CASE q = 1
      BY <1>3, <2>3, <2>4, <3>2
    <3> QED
      BY <2>4, <3>1, <3>2
  <2> QED
    BY <2>1, <2>2, <2>5, <2>6 DEF Word
<1>7. IsTable(f, n, Word)
  BY <1>6 DEF IsTable
<1>8. BnShl(a, bit).n = x /\ BnShl(a, bit).out = c[n]
  BY <1>2 DEF BnShl
<1>9. c[0] = bit /\ c[n] \in Nat /\ \A k \in 0 .. n : c[k] \in Int
  BY <1>5
<1> HIDE DEF f, c
<1>10. IsText(x, n, Word) /\ \A i \in 1 .. n : x[i] = f[i]
  BY <1>7, WordsAre
<1> HIDE DEF x
<1>11. PICK z : IsNumber(x, n, z)
  BY <1>10, TextIsNumber
<1>12. z \in Nat /\ v \in Nat
  BY <1>11, NumberIs
<1>13. \A k \in 1 .. n : a[k] + a[k] + c[k - 1] = x[k] + WordBase * c[k]
  BY <1>6, <1>10
<1>14. v + v + c[0] = z + Raised(WordBase, n) * c[n]
  BY <1>9, <1>11, <1>13, NumbersCarried
<1>15. v + v + c[0] = 2 * v + bit
  BY <1>9, <1>12
<1> QED
  BY <1>8, <1>9, <1>11, <1>12, <1>14, <1>15 DEF IsShifted

\* The bit that goes out below is the remainder.
LEMMA BnShrIs ==
  ASSUME NEW n \in Nat \ {0}, NEW a, NEW v, IsNumber(a, n, v)
  PROVE  IsNumber(BnShr(a, 0), n, v \div 2) /\ a[1] % 2 = v % 2
<1> DEFINE c == [k \in 0 .. n |-> IF k = n THEN 0 ELSE a[k + 1] % 2]
           h == WordBase \div 2
           f == [i \in 1 .. n |-> (a[i] \div 2) + h * (IF i = n THEN 0 ELSE a[i + 1] % 2)]
           x == Words(n, f)
<1>1. IsText(a, n, Word)
  BY DEF IsNumber
<1>2. Len(a) = n /\ \A k \in 1 .. n : a[k] \in Word
  BY <1>1, TextIs
<1>3. h \in Nat /\ WordBase = 2 * h /\ h > 0 /\ WordBase \in Nat
  BY WordBaseIs
<1>4. BnShr(a, 0) = x
  BY <1>2 DEF BnShr
<1> HIDE DEF h
<1>5. \A k \in 1 .. n : a[k] \in 0 .. 2 * h - 1
  BY <1>2, <1>3 DEF Word
<1>6. \A k \in 0 .. n : c[k] \in {0, 1}
  <2> SUFFICES ASSUME NEW k \in 0 .. n PROVE c[k] \in {0, 1}
    OBVIOUS
  <2>1. CASE k = n
    BY <2>1
  <2>2. CASE k # n
    <3>1. k + 1 \in 1 .. n
      BY <2>2
    <3>2. a[k + 1] \in Nat
      BY <1>3, <1>5, <3>1
    <3>3. a[k + 1] % 2 \in {0, 1}
      BY <3>2
    <3> QED
      BY <2>2, <3>3
  <2> QED
    BY <2>1, <2>2
<1>7. ASSUME NEW k \in 1 .. n
      PROVE  f[k] \in Word /\ f[k] + f[k] + c[k - 1] = a[k] + WordBase * c[k]
  <2> DEFINE y == a[k]
             q == y \div 2
             r == y % 2
             above == IF k = n THEN 0 ELSE a[k + 1] % 2
  <2>1. f[k] = q + h * above /\ c[k] = above
    OBVIOUS
  <2>2. c[k - 1] = r
    <3>1. k - 1 \in 0 .. n /\ k - 1 # n /\ (k - 1) + 1 = k
      OBVIOUS
    <3> QED
      BY <3>1
  <2>3. above \in {0, 1}
    BY <1>6, <2>1
  <2>4. y \in 0 .. 2 * h - 1
    BY <1>5
  <2> HIDE DEF f, c, y, above
  <2>5. q \in 0 .. h - 1 /\ y = 2 * q + r /\ r \in {0, 1}
    BY <1>3, <2>4
  <2> HIDE DEF q, r
  <2>6. (q + h * above) \in 0 .. WordBase - 1
        /\ (q + h * above) + (q + h * above) + r = y + WordBase * above
    <3>1. CASE above = 0
      BY <1>3, <2>5, <3>1
    <3>2. CASE above = 1
      BY <1>3, <2>5, <3>2
    <3> QED
      BY <2>3, <3>1, <3>2
  <2> QED
    BY <2>1, <2>2, <2>6 DEF Word, y
<1>8. IsTable(f, n, Word)
  BY <1>7 DEF IsTable
<1>9. c[0] = a[1] % 2 /\ c[n] = 0 /\ \A k \in 0 .. n : c[k] \in Int
  <2>1. 0 \in 0 .. n /\ 0 # n /\ 0 + 1 = 1 /\ n \in 0 .. n
    OBVIOUS
  <2> QED
    BY <1>6, <2>1
<1>10. c[0] \in {0, 1}
  BY <1>6
<1> HIDE DEF f, c
<1>11. IsText(x, n, Word) /\ \A i \in 1 .. n : x[i] = f[i]
  BY <1>8, WordsAre
<1> HIDE DEF x
<1>12. PICK z : IsNumber(x, n, z)
  BY <1>11, TextIsNumber
<1>13. z \in Nat /\ v \in Nat
  BY <1>12, NumberIs
<1>14. \A k \in 1 .. n : x[k] + x[k] + c[k - 1] = a[k] + WordBase * c[k]
  BY <1>7, <1>11
<1>15. z + z + c[0] = v + Raised(WordBase, n) * c[n]
  BY <1>9, <1>12, <1>14, NumbersCarried
<1>16. v = 2 * z + c[0]
  <2>1. Raised(WordBase, n) \in Nat
    BY RaisedIs, WordBaseIs
  <2> DEFINE R == Raised(WordBase, n)
  <2> HIDE DEF R
  <2>2. R * c[n] = 0
    BY <1>9, <2>1 DEF R
  <2> QED
    BY <1>10, <1>13, <1>15, <2>2 DEF R
<1>17. v \div 2 = z /\ v % 2 = c[0]
  BY <1>10, <1>13, <1>16
<1> QED
  BY <1>4, <1>9, <1>12, <1>17

LEMMA BnIseIs ==
  ASSUME NEW n, NEW a, NEW v, IsNumber(a, n, v), BnIse(a)
  PROVE  v = 0
<1> DEFINE none == 0
<1>1. n \in Nat /\ Len(a) = n
  BY NumberIs
<1>2. PICK s : AreSums(s, a, n, WordBase) /\ v = s[n]
  BY DEF IsNumber, IsSum
<1>3. AreZeros(a, none, n) /\ none \in 0 .. n /\ n \in none .. n /\ WordBase \in Nat
  BY <1>1, WordBaseIs DEF BnIse, AreZeros
<1>4. s[none] = 0
  BY <1>2, SumsStep
<1> HIDE DEF none
<1>5. s[n] = s[none]
  BY <1>2, <1>3, SumsOfZeros
<1> QED
  BY <1>2, <1>4, <1>5

LEMMA BnCmpIs ==
  ASSUME NEW n, NEW a, NEW v, IsNumber(a, n, v), NEW b, NEW w, IsNumber(b, n, w)
  PROVE  BnCmp(a, b) # -1 <=> v >= w
<1> DEFINE differ == {i \in 1 .. n : a[i] # b[i]}
           IsHighest(i) == i \in differ /\ \A k \in differ : k <= i
           highest == CHOOSE i \in differ : \A k \in differ : k <= i
<1>1. /\ n \in Nat /\ Len(a) = n /\ AreDigits(a, n, WordBase) /\ \A k \in 1 .. n : a[k] \in Word
      /\ v \in Nat
  BY NumberIs
<1>2. AreDigits(b, n, WordBase) /\ (\A k \in 1 .. n : b[k] \in Word) /\ w \in Nat
  BY NumberIs
<1>3. PICK s : AreSums(s, a, n, WordBase) /\ v = s[n]
  BY DEF IsNumber, IsSum
<1>4. PICK t : AreSums(t, b, n, WordBase) /\ w = t[n]
  BY DEF IsNumber, IsSum
<1>5. BnCmp(a, b) = IF differ = {} THEN 0 ELSE IF a[highest] > b[highest] THEN 1 ELSE -1
  BY <1>1 DEF BnCmp
<1>6. CASE differ = {}
  <2>1. \A k \in 1 .. n : a[k] = b[k]
    BY <1>6
  <2>2. n \in 0 .. n /\ n <= n
    BY <1>1
  <2>3. s[n] = t[n]
    BY <1>3, <1>4, <2>1, <2>2, SumsAgree
  <2> QED
    BY <1>1, <1>2, <1>3, <1>4, <1>5, <1>6, <2>3
<1>7. CASE differ # {}
  <2> DEFINE Below == {n - i : i \in differ}
  <2>1. Below \subseteq Nat /\ Below # {}
    BY <1>1, <1>7
  <2>2. PICK m \in Below : \A k \in Below : m <= k
    <3> HIDE DEF Below
    <3> QED
      BY <2>1, Least
  <2>3. PICK i \in differ : m = n - i
    OBVIOUS
  <2>4. \A k \in differ : n - k \in Below /\ k \in Int
    BY <1>1
  <2>5. \A k \in differ : k <= i
    <3>1. \A k \in differ : n - i <= n - k /\ k \in Int
      BY <2>2, <2>3, <2>4
    <3>2. i \in Int
      BY <2>4
    <3> QED
      BY <1>1, <3>1, <3>2
  <2>6. IsHighest(highest)
    <3>1. \E j \in differ : \A k \in differ : k <= j
      BY <2>5
    <3> HIDE DEF differ
    <3> QED
      BY <3>1
  <2> HIDE DEF highest
  <2> DEFINE h == highest
  <2>7. h \in 1 .. n /\ a[h] # b[h] /\ a[h] \in Nat /\ b[h] \in Nat
    BY <1>1, <1>2, <2>6, WordsAreNumbers
  <2>8. \A k \in h + 1 .. n : a[k] = b[k] /\ b[k] = a[k]
    <3>1. ASSUME NEW k \in h + 1 .. n PROVE a[k] = b[k]
      <4>1. k \in 1 .. n /\ ~ (k <= h)
        BY <1>1, <2>7
      <4>2. k \notin differ
        BY <2>6, <4>1
      <4> QED
        BY <4>1, <4>2
    <3> QED
      BY <3>1
  <2>9. WordBase \in Nat \ {0}
    BY WordBaseIs
  <2> HIDE DEF h
  <2>10. CASE a[h] > b[h]
    <3>1. s[n] > t[n]
      BY <1>1, <1>2, <1>3, <1>4, <2>7, <2>8, <2>9, <2>10, HighestDecides
    <3>2. BnCmp(a, b) = 1
      BY <1>5, <1>7, <2>10 DEF h
    <3> QED
      BY <1>1, <1>2, <1>3, <1>4, <3>1, <3>2
  <2>11. CASE b[h] > a[h]
    <3>1. t[n] > s[n]
      BY <1>1, <1>2, <1>3, <1>4, <2>7, <2>8, <2>9, <2>11, HighestDecides
    <3>2. BnCmp(a, b) = -1
      <4>1. ~ (a[h] > b[h])
        BY <2>7, <2>11
      <4> QED
        BY <1>5, <1>7, <4>1 DEF h
    <3> QED
      BY <1>1, <1>2, <1>3, <1>4, <3>1, <3>2
  <2> QED
    BY <2>7, <2>10, <2>11
<1> QED
  BY <1>6, <1>7

LEMMA RemainderTakenIs ==
  ASSUME NEW n \in Nat \ {0}, NEW r, NEW v, IsNumber(r, n, v), NEW d, NEW w, IsNumber(d, n, w),
         v < w, NEW bit \in {0, 1}
  PROVE  IsNumber(RemainderTaken(r, d, bit), n, (2 * v + bit) % w)
<1> DEFINE x == BnShl(r, bit).n
           out == BnShl(r, bit).out
           R == Raised(WordBase, n)
           y == 2 * v + bit
<1>1. v \in Nat /\ w \in 0 .. R - 1
  BY NumberIs
<1>2. PICK z \in Nat, c \in Nat : out = c /\ IsNumber(x, n, z) /\ y = z + R * c
  <2>1. IsShifted(BnShl(r, bit), n, 2 * v + bit)
    BY BnShlIs
  <2> QED
    BY <2>1 DEF IsShifted
<1>3. z \in 0 .. R - 1
  BY <1>2, NumberIs
<1>4. R \in Nat \ {0}
  BY WordBaseIs, RaisedGrows
<1>5. PICK u \in Nat, e \in {0, 1} : IsNumber(BnSub(x, d), n, u) /\ u + w = z + R * e
  BY <1>2, BnSubIs
<1>6. u \in 0 .. R - 1
  BY <1>5, NumberIs
<1>7. BnCmp(x, d) # -1 <=> z >= w
  BY <1>2, BnCmpIs
<1>8. RemainderTaken(r, d, bit) = IF out = 1 \/ BnCmp(x, d) # -1 THEN BnSub(x, d) ELSE x
  BY DEF RemainderTaken
<1> HIDE DEF R, x, out
<1>9. w \in Nat \ {0} /\ y \in 0 .. 2 * w - 1
  BY <1>1, <1>4
<1>10. c \in {0, 1} /\ R * c = IF c = 1 THEN R ELSE 0
  <2>1. CASE c = 0
    BY <1>4, <2>1
  <2>2. CASE c = 1
    BY <1>4, <2>2
  <2>3. CASE c > 1
    <3>1. c - 2 \in Nat /\ R * c = R + R + R * (c - 2) /\ R * (c - 2) \in Nat
      BY <1>4, <2>3
    <3> QED
      BY <1>1, <1>2, <1>3, <1>4, <1>9, <3>1
  <2> QED
    BY <2>1, <2>2, <2>3
<1>11. R * e = IF e = 1 THEN R ELSE 0
  BY <1>4
<1> HIDE DEF y
<1>12. CASE c = 1 \/ z >= w
  <2>1. u = y - w /\ u \in 0 .. w - 1
    BY <1>1, <1>2, <1>3, <1>4, <1>5, <1>6, <1>9, <1>10, <1>11, <1>12
  <2>2. y % w = u
    <3>1. y = w * 1 + u /\ y \in Int /\ 1 \in Int
      BY <1>9, <2>1
    <3> QED
      BY <1>9, <2>1, <3>1, RemainderIs
  <2>3. RemainderTaken(r, d, bit) = BnSub(x, d)
    BY <1>2, <1>7, <1>8, <1>12
  <2> QED
    BY <1>5, <2>2, <2>3 DEF y
<1>13. CASE ~ (c = 1 \/ z >= w)
  <2>1. z = y /\ y \in 0 .. w - 1
    BY <1>1, <1>2, <1>3, <1>9, <1>10, <1>13
  <2>2. y % w = z
    BY <1>9, <2>1, SmallRemainder
  <2>3. RemainderTaken(r, d, bit) = x
    BY <1>2, <1>7, <1>8, <1>13
  <2> QED
    BY <1>2, <2>2, <2>3 DEF y
<1> QED
  BY <1>12, <1>13

-----------------------------------------------------------------------------
(* Remainders of numbers *)

\* Digit t of the number a, from the lowest, if a word has d digits to the base b.
DigitAt(a, t, d, b) == (a[((t - 1) \div d) + 1] \div Raised(b, (t - 1) % d)) % b

LEMMA DigitsOfNumber ==
  ASSUME NEW n, NEW a, NEW v, IsNumber(a, n, v), NEW d \in Nat \ {0}, NEW b \in Nat \ {0},
         Raised(b, d) = WordBase,
         NEW f, \A t \in 1 .. d * n : f[t] = DigitAt(a, t, d, b)
  PROVE  AreDigits(f, d * n, b) /\ IsSum(v, f, d * n, b)
<1>1. n \in Nat /\ \A k \in 1 .. n : a[k] \in Word
  BY NumberIs
<1>2. d * n \in Nat
  BY <1>1
<1>3. ASSUME NEW i \in 0 .. n - 1, NEW m \in 1 .. d
      PROVE  /\ d * i + m \in 1 .. d * n
             /\ f[d * i + m] = (a[i + 1] \div Raised(b, m - 1)) % b
  <2> DEFINE t == d * i + m
             r == m - 1
             u == t - 1
  <2>1. d * i \in Nat /\ t \in 1 .. d * n
    <3>1. PICK e \in Nat : n = (i + 1) + e
      <4>1. n - (i + 1) \in Nat /\ n = (i + 1) + (n - (i + 1))
        BY <1>1
      <4> QED
        BY <4>1
    <3>2. d * n = (d * i + d) + d * e /\ d * e \in Nat /\ d * i \in Nat
      BY <3>1
    <3> QED
      BY <3>2
  <2>2. r \in 0 .. d - 1 /\ u = d * i + r /\ u \in Int /\ i \in Int
    BY <2>1
  <2>3. f[t] = (a[(u \div d) + 1] \div Raised(b, u % d)) % b
    BY <2>1 DEF DigitAt
  <2> HIDE DEF r, u
  <2>4. u \div d = i
    BY <2>2, QuotientIs
  <2>5. u % d = r
    BY <2>2, RemainderIs
  <2> QED
    BY <2>1, <2>3, <2>4, <2>5 DEF r
<1>4. AreDigits(f, d * n, b)
  <2>1. ASSUME NEW t \in 1 .. d * n PROVE f[t] \in 0 .. b - 1
    <3> DEFINE r == (t - 1) % d
               q == (t - 1) \div d
               p == Raised(b, r)
               w == a[q + 1]
               e == w \div p
    <3>1. t - 1 \in Nat
      BY <1>2
    <3>2. q \in Int /\ r \in 0 .. d - 1 /\ t - 1 = d * q + r
      <4> DEFINE u == t - 1
      <4>1. u \in Int
        BY <3>1
      <4> HIDE DEF u
      <4>2. u \div d \in Int /\ u % d \in 0 .. d - 1 /\ u = d * (u \div d) + (u % d)
        BY <4>1, Division
      <4> QED
        BY <4>2 DEF u
    <3>3. q + 1 \in 1 .. n
      <4> DEFINE x == t - 1
      <4>0. x \in 0 .. d * n - 1 /\ x = d * q + r
        BY <1>2, <3>2
      <4> HIDE DEF q, r, x
      <4>1. ASSUME q < 0 PROVE FALSE
        <5>1. PICK g \in Nat : q = -1 - g
          <6>1. -1 - q \in Nat /\ q = -1 - (-1 - q)
            BY <3>2, <4>1
          <6> QED
            BY <6>1
        <5>2. d * q = (0 - d) - d * g /\ d * g \in Nat
          BY <5>1
        <5> QED
          BY <3>2, <4>0, <5>2
      <4>2. ASSUME q >= n PROVE FALSE
        <5>1. PICK g \in Nat : q = n + g
          <6>1. q - n \in Nat /\ q = n + (q - n)
            BY <1>1, <3>2, <4>2
          <6> QED
            BY <6>1
        <5>2. d * q = d * n + d * g /\ d * g \in Nat
          BY <1>1, <5>1
        <5> QED
          BY <1>2, <3>2, <4>0, <5>2
      <4> QED
        BY <1>1, <3>2, <4>1, <4>2
    <3>4. w \in Nat
      BY <1>1, <3>3, WordsAreNumbers
    <3>5. p \in Nat \ {0}
      BY <3>2, RaisedGrows
    <3>6. f[t] = e % b
      BY DEF DigitAt
    <3> HIDE DEF w, p
    <3>7. e \in Int
      BY <3>4, <3>5
    <3> HIDE DEF e
    <3> QED
      BY <3>6, <3>7, Division
  <2> QED
    BY <1>2, <2>1 DEF AreDigits
<1>5. ASSUME NEW i \in 0 .. n - 1
      PROVE  IsSum(a[i + 1], DigitsFrom(f, i, d), d, b)
  <2> DEFINE g == DigitsFrom(f, i, d)
             w == a[i + 1]
  <2>1. w \in 0 .. WordBase - 1
    BY <1>1 DEF Word
  <2>2. \A m \in 1 .. d : g[m] = f[d * i + m]
    BY DEF DigitsFrom
  <2>3. \A m \in 1 .. d : g[m] = (w \div Raised(b, m - 1)) % b
    BY <1>3, <2>2
  <2>4. AreDigits(g, d, b)
    <3>1. \A m \in 1 .. d : f[d * i + m] \in 0 .. b - 1
      BY <1>3, <1>4 DEF AreDigits
    <3> QED
      BY <2>2, <3>1 DEF AreDigits
  <2> HIDE DEF g, w
  <2>5. PICK s : AreSums(s, g, d, b)
    BY <2>4, SumsExist
  <2>6. s[d] = w % Raised(b, d)
    <3>1. \A k \in 0 .. d : s[k] = w % Raised(b, k)
      <4>1. w \in Nat
        BY <2>1, WordBaseIs
      <4> QED
        BY <2>3, <2>5, <4>1, SumsOfDigitsOf
    <3>2. d \in 0 .. d
      OBVIOUS
    <3> QED
      BY <3>1, <3>2
  <2>7. w % WordBase = w
    BY <2>1, WordBaseIs, SmallRemainder
  <2> QED
    BY <2>5, <2>6, <2>7 DEF IsSum, g, w
<1>6. PICK s : AreSums(s, f, d * n, b)
  BY <1>4, SumsExist
<1>7. PICK t : AreSums(t, a, n, Raised(b, d)) /\ v = t[n]
  BY DEF IsNumber, IsSum
<1>8. s[d * n] = t[n]
  BY <1>1, <1>4, <1>5, <1>6, <1>7, SumsOfBlocks
<1> QED
  BY <1>4, <1>6, <1>7, <1>8 DEF IsSum

\* The numbers below w, of n words.
NumbersBelow(n, w) == {a \in Seq(Word) : \E v \in 0 .. w - 1 : IsNumber(a, n, v)}

LEMMA BnRemIs ==
  ASSUME NEW m, NEW num, NEW x, IsNumber(num, m, x),
         NEW n \in Nat \ {0}, NEW d, NEW w, IsNumber(d, n, w), w # 0
  PROVE  IsNumber(BnRem(num, d), n, x % w)
<1> DEFINE bits == BITS * m
           bit(k) == Bit(num, bits - k)
           IsRun(h) == h = [k \in 0 .. bits |->
                              IF k = 0 THEN BnZer(n) ELSE RemainderTaken(h[k - 1], d, bit(k))]
           after == CHOOSE h : IsRun(h)
           f == [t \in 1 .. bits |-> Bit(num, t - 1)]
           X == NumbersBelow(n, w)
           zero == BnZer(n)
           next(k, r) == RemainderTaken(r, d, bit(k))
           step == [kx \in (0 .. bits) \X X |-> IF kx[1] = 0 THEN zero ELSE next(kx[1], kx[2])]
<1>1. m \in Nat /\ Len(num) = m /\ Len(d) = n /\ w \in Nat \ {0} /\ x \in Nat /\ BITS \in Nat \ {0}
  <2>1. m \in Nat /\ Len(num) = m /\ x \in Nat
    BY NumberIs
  <2>2. Len(d) = n /\ w \in Nat
    BY NumberIs
  <2> QED
    BY <2>1, <2>2, BnAssumption
<1>2. bits \in Nat
  BY <1>1
<1>3. AreDigits(f, bits, 2) /\ IsSum(x, f, bits, 2)
  <2>1. \A t \in 1 .. bits : f[t] = DigitAt(num, t, BITS, 2)
    BY DEF DigitAt, Bit
  <2>2. Raised(2, BITS) = WordBase
    BY DEF WordBase
  <2> HIDE DEF f
  <2> DEFINE two == 2
  <2>3. two \in Nat \ {0}
    OBVIOUS
  <2>4. Raised(two, BITS) = WordBase /\ \A t \in 1 .. BITS * m : f[t] = DigitAt(num, t, BITS, two)
    BY <2>1, <2>2
  <2> HIDE DEF two
  <2>5. AreDigits(f, BITS * m, two) /\ IsSum(x, f, BITS * m, two)
    BY <1>1, <2>3, <2>4, DigitsOfNumber
  <2> QED
    BY <2>5 DEF two
<1>4. ASSUME NEW k \in 1 .. bits PROVE bit(k) \in {0, 1} /\ bit(k) = f[bits + 1 - k]
  <2>1. bits + 1 - k \in 1 .. bits /\ (bits + 1 - k) - 1 = bits - k
    BY <1>2
  <2>2. bit(k) = f[bits + 1 - k]
    BY <2>1
  <2>3. f[bits + 1 - k] \in 0 .. 2 - 1
    BY <1>3, <2>1 DEF AreDigits
  <2> QED
    BY <2>2, <2>3
<1> HIDE DEF bits, bit, f
<1>5. ASSUME NEW k \in 1 .. bits, NEW r, NEW v \in 0 .. w - 1, IsNumber(r, n, v)
      PROVE  IsNumber(next(k, r), n, (2 * v + bit(k)) % w)
  <2>1. bit(k) \in {0, 1} /\ v < w
    BY <1>1, <1>4
  <2> DEFINE e == bit(k)
  <2> HIDE DEF e
  <2>2. e \in {0, 1}
    BY <2>1 DEF e
  <2>3. IsNumber(RemainderTaken(r, d, e), n, (2 * v + e) % w)
    BY <1>5, <2>1, <2>2, RemainderTakenIs
  <2> QED
    BY <2>3 DEF e
<1> HIDE DEF next
<1>6. ASSUME NEW k \in 1 .. bits, NEW r \in X PROVE next(k, r) \in X
  <2>1. PICK v \in 0 .. w - 1 : IsNumber(r, n, v)
    BY DEF NumbersBelow
  <2> DEFINE u == (2 * v + bit(k)) % w
  <2>2. IsNumber(next(k, r), n, u)
    BY <1>5, <2>1
  <2>3. u \in 0 .. w - 1
    <3>1. 2 * v + bit(k) \in Int
      BY <1>1, <1>4
    <3> QED
      BY <1>1, <3>1, Division
  <2> HIDE DEF u
  <2> QED
    BY <2>2, <2>3 DEF NumbersBelow, IsNumber, IsText
<1>7. IsNumber(zero, n, 0)
  BY ZeroIsNumber
<1>8. zero \in X
  <2>1. 0 \in 0 .. w - 1
    BY <1>1
  <2> QED
    BY <1>7, <2>1 DEF NumbersBelow, IsNumber, IsText
<1> HIDE DEF zero, X
<1>9. IsStepUpTo(step, bits, X)
  <2>1. \A kx \in (0 .. bits) \X X : (IF kx[1] = 0 THEN zero ELSE next(kx[1], kx[2])) \in X
    BY <1>2, <1>6, <1>8
  <2> QED
    BY <2>1 DEF IsStepUpTo, IsStep
<1>10. \A k \in 1 .. bits, r \in X : step[<<k, r>>] = next(k, r)
  BY <1>2
<1> HIDE DEF step
<1>11. PICK h \in [0 .. bits -> X] : h[0] = zero /\ \A k \in 1 .. bits : h[k] = step[<<k, h[k - 1]>>]
  BY <1>2, <1>8, <1>9, RecursionUpTo
<1>12. ASSUME NEW k \in 1 .. bits PROVE h[k] = next(k, h[k - 1])
  <2>1. k - 1 \in 0 .. bits
    BY <1>2
  <2>2. h[k - 1] \in X
    BY <2>1
  <2> QED
    BY <1>10, <1>11, <2>2
<1>13. IsRun(h)
  <2>1. h = [k \in 0 .. bits |-> h[k]]
    BY <1>11
  <2>2. ASSUME NEW k \in 0 .. bits
        PROVE  h[k] = IF k = 0 THEN BnZer(n) ELSE RemainderTaken(h[k - 1], d, bit(k))
    <3>1. k = 0 \/ k \in 1 .. bits
      BY <1>2
    <3> QED
      BY <1>11, <1>12, <3>1 DEF zero, next
  <2> QED
    BY <2>1, <2>2
<1>14. IsRun(after)
  BY <1>13, Zenon
<1>15. BnRem(num, d) = after[bits]
  BY <1>1 DEF BnRem, bits, bit
<1> HIDE DEF after
<1>16. after[0] = zero
  <2>1. 0 \in 0 .. bits
    BY <1>2
  <2> QED
    BY <1>14, <2>1 DEF zero
<1>17. ASSUME NEW k \in 1 .. bits PROVE after[k] = next(k, after[k - 1])
  <2>1. k \in 0 .. bits /\ k # 0
    BY <1>2
  <2> QED
    BY <1>14, <2>1 DEF next
<1> DEFINE value == [k \in 0 .. bits |-> IntegerOf(after[k])]
           Good == {k \in Nat : IsNumber(after[k], n, value[k]) /\ value[k] \in 0 .. w - 1}
<1>18. 0 \in Good /\ value[0] = 0
  <2>1. IntegerOf(zero) = 0
    BY <1>7, IntegerOfNumber
  <2>2. value[0] = 0
    <3>1. 0 \in 0 .. bits
      BY <1>2
    <3> QED
      BY <1>16, <2>1, <3>1
  <2> HIDE DEF value
  <2> QED
    BY <1>1, <1>7, <1>16, <2>2
<1>19. ASSUME NEW k \in Nat, k < bits, k \in Good
       PROVE  k + 1 \in Good /\ value[k + 1] = (2 * value[k] + f[bits + 1 - (k + 1)]) % w
  <2> DEFINE v == value[k]
             u == (2 * v + bit(k + 1)) % w
  <2>1. k + 1 \in 1 .. bits /\ k + 1 \in 0 .. bits /\ (k + 1) - 1 = k
    BY <1>2, <1>19
  <2>2. IsNumber(after[k], n, v) /\ v \in 0 .. w - 1
    BY <1>19
  <2> HIDE DEF v
  <2>3. IsNumber(after[k + 1], n, u)
    <3>1. after[k + 1] = next(k + 1, after[k])
      BY <1>17, <2>1
    <3> QED
      BY <1>5, <2>1, <2>2, <3>1
  <2>4. u \in 0 .. w - 1
    <3>1. 2 * v + bit(k + 1) \in Int
      BY <1>1, <1>4, <2>1, <2>2
    <3> QED
      BY <1>1, <3>1, Division
  <2>5. value[k + 1] = u
    <3> HIDE DEF u
    <3> QED
      BY <2>1, <2>3, IntegerOfNumber
  <2>6. bit(k + 1) = f[bits + 1 - (k + 1)]
    BY <1>4, <2>1
  <2> HIDE DEF value
  <2> QED
    BY <2>1, <2>3, <2>4, <2>5, <2>6 DEF v
<1>20. 0 .. bits \subseteq Good
  <2> HIDE DEF Good
  <2> QED
    BY <1>2, <1>18, <1>19, InductionUpTo
<1>21. \A k \in 1 .. bits : value[k] = (2 * value[k - 1] + f[bits + 1 - k]) % w
  <2> SUFFICES ASSUME NEW k \in 1 .. bits
               PROVE  value[k] = (2 * value[k - 1] + f[bits + 1 - k]) % w
    OBVIOUS
  <2> DEFINE j == k - 1
  <2>1. j \in Nat /\ j < bits /\ j \in 0 .. bits /\ j + 1 = k
    BY <1>2
  <2>2. j \in Good
    BY <1>20, <2>1
  <2> HIDE DEF j, Good, value
  <2>3. value[j + 1] = (2 * value[j] + f[bits + 1 - (j + 1)]) % w
    BY <1>19, <2>1, <2>2
  <2> QED
    BY <2>1, <2>3 DEF j
<1>22. PICK s : AreSums(s, f, bits, 2) /\ x = s[bits]
  BY <1>3 DEF IsSum
<1> HIDE DEF value
<1>23. value[bits] = s[bits] % w
  <2> DEFINE two == 2
  <2>1. two \in Nat \ {0}
    OBVIOUS
  <2>2. AreDigits(f, bits, two) /\ AreSums(s, f, bits, two) /\ AreRemainders(value, f, bits, two, w)
    BY <1>3, <1>18, <1>21, <1>22 DEF AreRemainders
  <2> HIDE DEF two
  <2> QED
    BY <1>1, <2>1, <2>2, RemaindersOfDigits
<1>24. IsNumber(after[bits], n, value[bits])
  <2>1. bits \in 0 .. bits
    BY <1>2
  <2> QED
    BY <1>20, <2>1
<1> QED
  BY <1>15, <1>22, <1>23, <1>24

-----------------------------------------------------------------------------
(* Products of numbers *)

LEMMA RaisedMonotone ==
  ASSUME NEW b \in Nat \ {0}, NEW k \in Nat, NEW j \in 0 .. k
  PROVE  Raised(b, j) <= Raised(b, k)
<1> DEFINE x == Raised(b, j)
           y == Raised(b, k - j)
<1>1. j \in Nat /\ k - j \in Nat /\ j + (k - j) = k
  OBVIOUS
<1>2. Raised(b, j + (k - j)) = x * y
  BY <1>1, RaisedSum
<1>3. x \in Nat \ {0}
  BY <1>1, RaisedGrows
<1>4. y \in Nat \ {0}
  BY <1>1, RaisedGrows
<1>5. Raised(b, k) = x * y
  BY <1>1, <1>2
<1> HIDE DEF x, y
<1>6. x * y = x + x * (y - 1) /\ x * (y - 1) \in Nat
  BY <1>3, <1>4
<1>7. x <= x * y
  BY <1>3, <1>6
<1> QED
  BY <1>5, <1>7 DEF x

\* Products of numbers of n words fit in 2 * n words.
LEMMA ProductFits ==
  ASSUME NEW n \in Nat, NEW x \in 0 .. Raised(WordBase, n) - 1, NEW y \in 0 .. Raised(WordBase, n) - 1
  PROVE  x * y \in 0 .. Raised(WordBase, 2 * n) - 1
<1> DEFINE R == Raised(WordBase, n)
<1>1. R \in Nat \ {0}
  BY WordBaseIs, RaisedGrows
<1>2. Raised(WordBase, n + n) = R * R
  BY WordBaseIs, RaisedSum
<1>3. n + n = 2 * n
  OBVIOUS
<1>4. Raised(WordBase, 2 * n) = R * R
  BY <1>2, <1>3
<1>5. x \in 0 .. R - 1 /\ y \in 0 .. R - 1
  OBVIOUS
<1> HIDE DEF R
<1>6. PICK d \in Nat : R = (x + 1) + d
  <2>1. R - (x + 1) \in Nat /\ R = (x + 1) + (R - (x + 1))
    BY <1>1, <1>5
  <2> QED
    BY <2>1
<1>7. R * R = (x * R + R) + d * R /\ d * R \in Nat /\ x * R \in Nat
  BY <1>1, <1>5, <1>6
<1>8. PICK e \in Nat : R = y + e
  <2>1. R - y \in Nat /\ R = y + (R - y)
    BY <1>1, <1>5
  <2> QED
    BY <2>1
<1>9. x * R = x * y + x * e /\ x * y \in Nat /\ x * e \in Nat
  BY <1>5, <1>8
<1> QED
  BY <1>1, <1>4, <1>7, <1>9

\* Numbers are added up, but for those whose e is 0.
AreAdded(h, e, P, n, size) ==
  h = [j \in 0 .. n |->
         IF j = 0 THEN BnZer(size) ELSE IF e[j] = 0 THEN h[j - 1] ELSE BnAdd(h[j - 1], P[j])]

AreNumbers(P, p, n, size) == \A j \in 1 .. n : IsNumber(P[j], size, p[j])

LEMMA AddedExist ==
  ASSUME NEW n \in Nat, NEW size \in Nat \ {0}, NEW e, NEW P, NEW p, AreNumbers(P, p, n, size)
  PROVE  \E h : AreAdded(h, e, P, n, size)
<1> DEFINE X == {a \in Seq(Word) : IsText(a, size, Word)}
           zero == BnZer(size)
           next(j, a) == IF e[j] = 0 THEN a ELSE BnAdd(a, P[j])
           step == [jx \in (0 .. n) \X X |-> IF jx[1] = 0 THEN zero ELSE next(jx[1], jx[2])]
<1>1. zero \in X
  BY ZeroIsNumber DEF IsNumber, IsText
<1>2. ASSUME NEW j \in 1 .. n, NEW a \in X PROVE next(j, a) \in X
  <2>1. PICK v : IsNumber(a, size, v)
    BY TextIsNumber
  <2>2. IsNumber(P[j], size, p[j])
    BY DEF AreNumbers
  <2>3. PICK z : IsNumber(BnAdd(a, P[j]), size, z)
    BY <2>1, <2>2, BnAddIs
  <2>4. BnAdd(a, P[j]) \in X
    BY <2>3 DEF IsNumber, IsText
  <2> QED
    BY <2>4
<1> HIDE DEF zero, next, X
<1>3. IsStepUpTo(step, n, X)
  <2>1. \A jx \in (0 .. n) \X X : (IF jx[1] = 0 THEN zero ELSE next(jx[1], jx[2])) \in X
    BY <1>1, <1>2
  <2> QED
    BY <2>1 DEF IsStepUpTo, IsStep
<1>4. \A j \in 1 .. n, a \in X : step[<<j, a>>] = next(j, a)
  OBVIOUS
<1> HIDE DEF step
<1>5. PICK h \in [0 .. n -> X] : h[0] = zero /\ \A j \in 1 .. n : h[j] = step[<<j, h[j - 1]>>]
  BY <1>1, <1>3, RecursionUpTo
<1>6. ASSUME NEW j \in 1 .. n PROVE h[j] = next(j, h[j - 1])
  <2>1. j - 1 \in 0 .. n
    OBVIOUS
  <2>2. h[j - 1] \in X
    BY <2>1
  <2> QED
    BY <1>4, <1>5, <2>2
<1>7. h = [j \in 0 .. n |-> h[j]]
  BY <1>5
<1>8. ASSUME NEW j \in 0 .. n
      PROVE  h[j] = IF j = 0 THEN BnZer(size)
                    ELSE IF e[j] = 0 THEN h[j - 1] ELSE BnAdd(h[j - 1], P[j])
  <2>1. j = 0 \/ j \in 1 .. n
    OBVIOUS
  <2> QED
    BY <1>5, <1>6, <2>1 DEF zero, next
<1>9. AreAdded(h, e, P, n, size)
  BY <1>7, <1>8 DEF AreAdded
<1> QED
  BY <1>9

LEMMA AddedIs ==
  ASSUME NEW n \in Nat, NEW size \in Nat \ {0}, NEW e, NEW P, NEW p, AreNumbers(P, p, n, size),
         \A j \in 1 .. n : e[j] = 0 => p[j] = 0,
         NEW u, u[0] = 0, \A j \in 1 .. n : u[j] = u[j - 1] + p[j],
         \A j \in 0 .. n : u[j] \in 0 .. Raised(WordBase, size) - 1,
         NEW h, AreAdded(h, e, P, n, size)
  PROVE  IsNumber(h[n], size, u[n])
<1> DEFINE Good == {j \in Nat : IsNumber(h[j], size, u[j])}
<1>1. 0 \in Good
  <2>1. 0 \in 0 .. n
    OBVIOUS
  <2>2. h[0] = BnZer(size)
    BY <2>1 DEF AreAdded
  <2> QED
    BY <2>2, ZeroIsNumber
<1>2. ASSUME NEW j \in Nat, j < n, j \in Good PROVE j + 1 \in Good
  <2>1. j + 1 \in 0 .. n /\ j + 1 \in 1 .. n /\ j + 1 # 0 /\ (j + 1) - 1 = j /\ j \in 0 .. n
    BY <1>2
  <2>2. h[j + 1] = IF e[j + 1] = 0 THEN h[j] ELSE BnAdd(h[j], P[j + 1])
    BY <2>1 DEF AreAdded
  <2>3. u[j + 1] = u[j] + p[j + 1]
    BY <2>1
  <2>4. IsNumber(h[j], size, u[j]) /\ u[j] \in Nat
    BY <1>2, <2>1
  <2>5. CASE e[j + 1] = 0
    <3>1. p[j + 1] = 0
      BY <2>1, <2>5
    <3>2. u[j + 1] = u[j]
      BY <2>3, <2>4, <3>1
    <3>3. IsNumber(h[j + 1], size, u[j + 1])
      BY <2>2, <2>4, <2>5, <3>2
    <3> QED
      BY <3>3
  <2>6. CASE e[j + 1] # 0
    <3>1. IsNumber(P[j + 1], size, p[j + 1])
      BY <2>1 DEF AreNumbers
    <3>2. u[j] + p[j + 1] < Raised(WordBase, size)
      <4>1. u[j + 1] \in 0 .. Raised(WordBase, size) - 1
        BY <2>1
      <4>2. Raised(WordBase, size) \in Nat
        BY WordBaseIs, RaisedIs
      <4> QED
        BY <2>3, <4>1, <4>2
    <3>3. IsNumber(BnAdd(h[j], P[j + 1]), size, u[j] + p[j + 1])
      BY <2>4, <3>1, <3>2, BnAddFits
    <3>4. IsNumber(h[j + 1], size, u[j + 1])
      BY <2>2, <2>3, <2>6, <3>3
    <3> QED
      BY <3>4
  <2> QED
    BY <2>5, <2>6
<1>3. n \in Good
  <2>1. n \in 0 .. n
    OBVIOUS
  <2> HIDE DEF Good
  <2> QED
    BY <1>1, <1>2, <2>1, InductionUpTo
<1> QED
  BY <1>3

\* The product of two words is in the two words where it belongs.
LEMMA ProductIs ==
  ASSUME NEW n \in Nat \ {0}, NEW a, NEW b, IsText(a, n, Word), IsText(b, n, Word),
         NEW i \in 1 .. n, NEW j \in 1 .. n
  PROVE  IsNumber(Product(a, b, i, j), 2 * n, (a[i] * b[j]) * Raised(WordBase, (i + j) - 2))
<1> DEFINE x == a[i] * b[j]
           q == x \div WordBase
           r == x % WordBase
           p == i + j - 1
           f == [k \in 1 .. 2 * n |-> IF k = i + j - 1 THEN r ELSE IF k = i + j THEN q ELSE 0]
           y == Words(2 * n, f)
<1>1. Len(a) = n /\ a[i] \in Word /\ b[j] \in Word
  <2>1. Len(a) = n /\ \A k \in 1 .. n : a[k] \in Word
    BY TextIs
  <2>2. \A k \in 1 .. n : b[k] \in Word
    BY TextIs
  <2> QED
    BY <2>1, <2>2
<1>2. Product(a, b, i, j) = y
  BY <1>1 DEF Product
<1>3. q \in Word /\ r \in Word /\ x = r + WordBase * q /\ 0 \in Word
  <2> DEFINE W == WordBase
             c == a[i]
             d == b[j]
             xx == c * d
  <2>1. W \in Nat \ {0} /\ c \in 0 .. W - 1 /\ d \in 0 .. W - 1
    BY <1>1, WordBaseIs DEF Word
  <2> HIDE DEF W, c, d
  <2>2. PICK e \in Nat : W = (c + 1) + e
    <3>1. W - (c + 1) \in Nat /\ W = (c + 1) + (W - (c + 1))
      BY <2>1
    <3> QED
      BY <3>1
  <2>3. PICK g \in Nat : W = d + g
    <3>1. W - d \in Nat /\ W = d + (W - d)
      BY <2>1
    <3> QED
      BY <3>1
  <2>4. xx \in Nat /\ W * W = (c * W + W) + e * W /\ c * W = xx + c * g
        /\ e * W \in Nat /\ c * W \in Nat /\ c * g \in Nat /\ W * W \in Nat
    <3>1. xx \in Nat /\ e * W \in Nat /\ c * W \in Nat /\ c * g \in Nat /\ W * W \in Nat
      BY <2>1
    <3>2. W * W = (c * W + W) + e * W
      BY <2>1, <2>2
    <3>3. c * W = c * d + c * g
      BY <2>1, <2>3
    <3> QED
      BY <3>1, <3>2, <3>3
  <2>5. xx < W * W
    <3> HIDE DEF xx
    <3> QED
      BY <2>1, <2>4
  <2> HIDE DEF xx
  <2>6. xx \div W \in Int /\ xx % W \in 0 .. W - 1 /\ xx = W * (xx \div W) + (xx % W)
    <3>1. xx \in Int
      BY <2>4
    <3> QED
      BY <2>1, <3>1, Division
  <2> DEFINE z == xx \div W
             t == xx % W
  <2> HIDE DEF z, t
  <2>7. z \in Int /\ t \in 0 .. W - 1 /\ xx = W * z + t
    BY <2>6 DEF z, t
  <2>8. z >= 0
    <3>1. SUFFICES ASSUME z < 0 PROVE FALSE
      BY <2>7
    <3>2. -1 - z \in Nat /\ W * z = (0 - W) - W * (-1 - z) /\ W * (-1 - z) \in Nat
      BY <2>1, <2>7, <3>1
    <3> QED
      BY <2>1, <2>4, <2>7, <3>2
  <2>9. z < W
    <3>1. SUFFICES ASSUME z >= W PROVE FALSE
      BY <2>1, <2>7
    <3>2. z - W \in Nat /\ W * z = W * W + W * (z - W) /\ W * (z - W) \in Nat
      BY <2>1, <2>7, <3>1
    <3> QED
      BY <2>1, <2>4, <2>5, <2>7, <3>2
  <2>10. z \in 0 .. W - 1 /\ xx = t + W * z /\ 0 \in 0 .. W - 1
    <3>1. W * z \in Int
      BY <2>1, <2>7
    <3> QED
      BY <2>1, <2>7, <2>8, <2>9, <3>1
  <2> QED
    BY <2>7, <2>10 DEF Word, W, z, t, xx, c, d
<1> HIDE DEF q, r
<1>4. IsTable(f, 2 * n, Word)
  BY <1>3 DEF IsTable
<1>5. p \in 1 .. 2 * n - 1 /\ p + 1 = i + j /\ p \in 1 .. 2 * n /\ p + 1 \in 1 .. 2 * n /\ p # p + 1
      /\ p - 1 = (i + j) - 2 /\ 2 * n \in Nat
  OBVIOUS
<1>6. f[p] = r /\ f[p + 1] = q /\ \A k \in 1 .. 2 * n : k # p /\ k # p + 1 => f[k] = 0
  BY <1>5
<1> HIDE DEF f, p
<1>7. IsText(y, 2 * n, Word) /\ \A k \in 1 .. 2 * n : y[k] = f[k]
  BY <1>4, <1>5, WordsAre
<1> HIDE DEF y
<1>8. PICK z : IsNumber(y, 2 * n, z)
  BY <1>7, TextIsNumber
<1>9. PICK s : AreSums(s, y, 2 * n, WordBase) /\ z = s[2 * n]
  BY <1>8 DEF IsNumber, IsSum
<1>10. y[p] = r /\ y[p + 1] = q /\ \A k \in 1 .. 2 * n : k # p /\ k # p + 1 => y[k] = 0
  BY <1>5, <1>6, <1>7
<1>11. s[2 * n] = (y[p] + WordBase * y[p + 1]) * Raised(WordBase, p - 1)
  <2> DEFINE m == 2 * n
  <2>1. /\ AreSums(s, y, m, WordBase) /\ p \in 1 .. m - 1 /\ y[p] \in Nat /\ y[p + 1] \in Nat
        /\ \A k \in 1 .. m : k # p /\ k # p + 1 => y[k] = 0
    BY <1>3, <1>5, <1>9, <1>10, WordsAreNumbers
  <2> HIDE DEF m
  <2>2. s[m] = (y[p] + WordBase * y[p + 1]) * Raised(WordBase, p - 1)
    BY <2>1, WordBaseIs, SumOfTwo
  <2> QED
    BY <2>2 DEF m
<1>12. s[2 * n] = x * Raised(WordBase, (i + j) - 2)
  BY <1>3, <1>5, <1>10, <1>11
<1> QED
  BY <1>2, <1>8, <1>9, <1>12

\* A word of a, in its place, times all of b.
LEMMA RowIs ==
  ASSUME NEW n \in Nat \ {0}, NEW a, IsText(a, n, Word), NEW b, NEW w, IsNumber(b, n, w),
         NEW i \in 1 .. n,
         a[i] * Raised(WordBase, i - 1) \in 0 .. Raised(WordBase, n) - 1
  PROVE  IsNumber(Row(a, b, i), 2 * n, (a[i] * Raised(WordBase, i - 1)) * w)
<1> DEFINE size == 2 * n
           P == [j \in 1 .. n |-> Product(a, b, i, j)]
           p == [j \in 1 .. n |-> (a[i] * b[j]) * Raised(WordBase, (i + j) - 2)]
           c == a[i] * Raised(WordBase, i - 1)
           IsRun(h) == h = [j \in 0 .. n |->
                              IF j = 0 THEN BnZer(size)
                              ELSE IF b[j] = 0 THEN h[j - 1]
                              ELSE BnAdd(h[j - 1], Product(a, b, i, j))]
           row == CHOOSE h : IsRun(h)
<1>1. IsText(b, n, Word) /\ Len(a) = n /\ Len(b) = n /\ size \in Nat \ {0}
  <2>1. IsText(b, n, Word)
    BY DEF IsNumber
  <2>2. Len(a) = n /\ Len(b) = n
    BY <2>1 DEF IsText
  <2> QED
    BY <2>1, <2>2
<1>2. a[i] \in Nat /\ \A j \in 1 .. n : b[j] \in Nat
  <2>1. \A j \in 1 .. n : a[j] \in Word
    BY TextIs
  <2>2. \A j \in 1 .. n : b[j] \in Word
    BY <1>1, TextIs
  <2> QED
    BY <2>1, <2>2, WordsAreNumbers
<1>3. AreNumbers(P, p, n, size)
  <2>1. ASSUME NEW j \in 1 .. n PROVE IsNumber(P[j], size, p[j])
    BY <1>1, ProductIs
  <2> QED
    BY <2>1 DEF AreNumbers
<1>4. PICK t : AreSums(t, b, n, WordBase) /\ w = t[n]
  BY DEF IsNumber, IsSum
<1>5. \A k \in 0 .. n : t[k] \in 0 .. Raised(WordBase, n) - 1
  <2>1. AreDigits(b, n, WordBase)
    BY NumberIs
  <2>2. \A k \in 0 .. n : t[k] \in 0 .. Raised(WordBase, k) - 1
    BY <1>4, <2>1, WordBaseIs, SumsBound
  <2>3. \A k \in 0 .. n : Raised(WordBase, k) <= Raised(WordBase, n)
    BY WordBaseIs, RaisedMonotone
  <2>4. \A k \in 0 .. n : k \in Nat
    OBVIOUS
  <2>5. \A k \in 0 .. n : Raised(WordBase, k) \in Nat
    BY <2>4, WordBaseIs, RaisedIs
  <2>6. n \in 0 .. n
    OBVIOUS
  <2> QED
    BY <2>2, <2>3, <2>5, <2>6
<1>6. c \in 0 .. Raised(WordBase, n) - 1 /\ c \in Nat
  OBVIOUS
<1> DEFINE u == [j \in 0 .. n |-> c * t[j]]
<1>7. u[0] = 0
  <2>1. t[0] = 0 /\ 0 \in 0 .. n
    BY <1>4, SumsStep
  <2> HIDE DEF c
  <2>2. c * t[0] = 0
    BY <1>6, <2>1
  <2> QED
    BY <2>1, <2>2
<1>8. ASSUME NEW j \in 1 .. n PROVE u[j] = u[j - 1] + p[j]
  <2> DEFINE k == j - 1
             g == b[j]
             R == Raised(WordBase, k)
             S == Raised(WordBase, i - 1)
             d == a[i]
             tk == t[k]
  <2>1. k \in Nat /\ k < n /\ k + 1 = j /\ k \in 0 .. n /\ j \in 0 .. n /\ i - 1 \in Nat
        /\ (i + j) - 2 = (i - 1) + k
    OBVIOUS
  <2>2. t[k + 1] = t[k] + b[k + 1] * R /\ tk \in Nat
    BY <1>4, <2>1, SumsStep
  <2>3. R \in Nat
    BY <2>1, WordBaseIs, RaisedIs
  <2>4. S \in Nat
    BY <2>1, WordBaseIs, RaisedIs
  <2>5. Raised(WordBase, (i - 1) + k) = S * R
    BY <2>1, WordBaseIs, RaisedSum
  <2>6. g \in Nat /\ d \in Nat
    BY <1>2
  <2>7. p[j] = (d * g) * (S * R)
    BY <2>1, <2>5
  <2>8. u[j] = c * t[j] /\ u[j - 1] = c * tk /\ c = d * S /\ t[j] = tk + g * R
    BY <2>1, <2>2
  <2> HIDE DEF k, g, R, S, d, tk, c, u, p
  <2>9. (d * S) * (tk + g * R) = (d * S) * tk + (d * g) * (S * R)
    BY <2>2, <2>3, <2>4, <2>6, Z3
  <2> QED
    BY <2>7, <2>8, <2>9
<1>9. ASSUME NEW j \in 0 .. n PROVE u[j] \in 0 .. Raised(WordBase, size) - 1
  <2> DEFINE x == t[j]
  <2>1. x \in 0 .. Raised(WordBase, n) - 1
    BY <1>5
  <2>2. u[j] = c * x
    OBVIOUS
  <2> HIDE DEF c, x, u
  <2>3. c * x \in 0 .. Raised(WordBase, 2 * n) - 1
    BY <1>6, <2>1, ProductFits
  <2> QED
    BY <2>2, <2>3
<1>10. ASSUME NEW j \in 1 .. n, b[j] = 0 PROVE p[j] = 0
  <2>2. Raised(WordBase, (i + j) - 2) \in Nat
    <3> DEFINE k == (i + j) - 2
    <3>1. k \in Nat
      OBVIOUS
    <3> HIDE DEF k
    <3>2. Raised(WordBase, k) \in Nat
      BY <3>1, WordBaseIs, RaisedIs
    <3> QED
      BY <3>2 DEF k
  <2> DEFINE R == Raised(WordBase, (i + j) - 2)
  <2>3. p[j] = (a[i] * b[j]) * R
    OBVIOUS
  <2> HIDE DEF R, p
  <2>4. (a[i] * b[j]) * R = 0
    BY <1>2, <1>10, <2>2 DEF R
  <2> QED
    BY <2>3, <2>4
<1>11. PICK g : AreAdded(g, b, P, n, size)
  <2> HIDE DEF P, p, size
  <2> QED
    BY <1>1, <1>3, AddedExist
<1>12. IsRun(g)
  BY <1>11 DEF AreAdded
<1>13. IsRun(row)
  BY <1>12, Zenon
<1>14. Row(a, b, i) = row[n]
  BY <1>1 DEF Row
<1> HIDE DEF row
<1>15. AreAdded(row, b, P, n, size)
  BY <1>13 DEF AreAdded
<1> HIDE DEF P, p, u, size
<1>16. IsNumber(row[n], size, u[n])
  BY <1>1, <1>3, <1>7, <1>8, <1>9, <1>10, <1>15, AddedIs
<1>17. u[n] = c * w
  <2>1. n \in 0 .. n
    OBVIOUS
  <2> QED
    BY <1>4, <2>1 DEF u
<1> QED
  BY <1>14, <1>16, <1>17 DEF size

LEMMA BnMulIs ==
  ASSUME NEW n \in Nat \ {0}, NEW a, NEW v, IsNumber(a, n, v), NEW b, NEW w, IsNumber(b, n, w)
  PROVE  IsNumber(BnMul(a, b), 2 * n, v * w)
<1> DEFINE size == 2 * n
           C(i) == a[i] * Raised(WordBase, i - 1)
           P == [i \in 1 .. n |-> Row(a, b, i)]
           p == [i \in 1 .. n |-> C(i) * w]
           IsRun(h) == h = [i \in 0 .. n |->
                              IF i = 0 THEN BnZer(size)
                              ELSE IF a[i] = 0 THEN h[i - 1]
                              ELSE BnAdd(h[i - 1], Row(a, b, i))]
           rows == CHOOSE h : IsRun(h)
<1>1. IsText(a, n, Word) /\ Len(a) = n /\ size \in Nat \ {0}
  BY DEF IsNumber, IsText
<1>2. (\A i \in 1 .. n : a[i] \in Nat) /\ v \in Nat /\ w \in 0 .. Raised(WordBase, n) - 1
  <2>1. (\A i \in 1 .. n : a[i] \in Word) /\ v \in Nat
    BY NumberIs
  <2>2. w \in 0 .. Raised(WordBase, n) - 1
    BY NumberIs
  <2> QED
    BY <2>1, <2>2, WordsAreNumbers
<1>3. PICK s : AreSums(s, a, n, WordBase) /\ v = s[n]
  BY DEF IsNumber, IsSum
<1>4. \A k \in 0 .. n : s[k] \in 0 .. Raised(WordBase, n) - 1
  <2>1. AreDigits(a, n, WordBase)
    BY NumberIs
  <2>2. \A k \in 0 .. n : s[k] \in 0 .. Raised(WordBase, k) - 1
    BY <1>3, <2>1, WordBaseIs, SumsBound
  <2>3. \A k \in 0 .. n : Raised(WordBase, k) <= Raised(WordBase, n)
    BY WordBaseIs, RaisedMonotone
  <2>4. \A k \in 0 .. n : k \in Nat
    OBVIOUS
  <2>5. \A k \in 0 .. n : Raised(WordBase, k) \in Nat
    BY <2>4, WordBaseIs, RaisedIs
  <2>6. n \in 0 .. n
    OBVIOUS
  <2> QED
    BY <2>2, <2>3, <2>5, <2>6
<1>5. ASSUME NEW i \in 1 .. n
      PROVE  /\ i - 1 \in 0 .. n /\ s[i] = s[i - 1] + C(i)
             /\ s[i - 1] \in Nat /\ s[i] \in Nat /\ C(i) \in Nat
             /\ C(i) \in 0 .. Raised(WordBase, n) - 1
  <2> DEFINE k == i - 1
  <2>1. k \in Nat /\ k < n /\ k + 1 = i /\ k \in 0 .. n /\ i \in 0 .. n
    OBVIOUS
  <2>2. s[k + 1] = s[k] + a[k + 1] * Raised(WordBase, k) /\ s[k] \in Nat /\ s[i] \in Nat
    BY <1>3, <2>1, SumsStep
  <2>3. Raised(WordBase, k) \in Nat
    BY <2>1, WordBaseIs, RaisedIs
  <2>4. C(i) \in Nat
    BY <1>2, <2>3
  <2>5. s[i] = s[k] + C(i)
    BY <2>1, <2>2
  <2>6. s[i] \in 0 .. Raised(WordBase, n) - 1
    BY <1>4, <2>1
  <2>7. Raised(WordBase, n) \in Nat
    BY WordBaseIs, RaisedIs
  <2> HIDE DEF C
  <2>8. C(i) \in 0 .. Raised(WordBase, n) - 1
    BY <2>2, <2>4, <2>5, <2>6, <2>7
  <2> QED
    BY <2>1, <2>2, <2>4, <2>5, <2>8
<1>6. AreNumbers(P, p, n, size)
  <2>1. ASSUME NEW i \in 1 .. n PROVE IsNumber(P[i], size, p[i])
    <3>1. C(i) \in 0 .. Raised(WordBase, n) - 1
      BY <1>5
    <3>2. IsNumber(Row(a, b, i), size, C(i) * w)
      BY <1>1, <3>1, RowIs
    <3> QED
      BY <3>2
  <2> QED
    BY <2>1 DEF AreNumbers
<1> DEFINE u == [i \in 0 .. n |-> s[i] * w]
<1>7. u[0] = 0
  <2>1. s[0] = 0 /\ 0 \in 0 .. n
    BY <1>3, SumsStep
  <2>2. s[0] * w = 0
    BY <1>2, <2>1
  <2> QED
    BY <2>1, <2>2
<1>8. ASSUME NEW i \in 1 .. n PROVE u[i] = u[i - 1] + p[i]
  <2> DEFINE x == s[i - 1]
             y == C(i)
  <2>1. x \in Nat /\ y \in Nat /\ w \in Nat /\ s[i] = x + y
    BY <1>2, <1>5
  <2>2. u[i] = s[i] * w /\ u[i - 1] = x * w /\ p[i] = y * w
    BY <1>5
  <2> HIDE DEF x, y, u, p
  <2>3. (x + y) * w = x * w + y * w
    BY <2>1
  <2> QED
    BY <2>1, <2>2, <2>3
<1>9. ASSUME NEW i \in 0 .. n PROVE u[i] \in 0 .. Raised(WordBase, size) - 1
  <2> DEFINE x == s[i]
  <2>1. x \in 0 .. Raised(WordBase, n) - 1
    BY <1>4
  <2>2. u[i] = x * w
    OBVIOUS
  <2> HIDE DEF x, u
  <2>3. x * w \in 0 .. Raised(WordBase, 2 * n) - 1
    BY <1>2, <2>1, ProductFits
  <2> QED
    BY <2>2, <2>3
<1>10. ASSUME NEW i \in 1 .. n, a[i] = 0 PROVE p[i] = 0
  <2>1. i - 1 \in Nat
    OBVIOUS
  <2>2. Raised(WordBase, i - 1) \in Nat
    BY <2>1, WordBaseIs, RaisedIs
  <2> DEFINE R == Raised(WordBase, i - 1)
  <2>3. p[i] = (a[i] * R) * w
    OBVIOUS
  <2> HIDE DEF R, p
  <2>4. (a[i] * R) * w = 0
    BY <1>2, <1>10, <2>2 DEF R
  <2> QED
    BY <2>3, <2>4
<1>11. PICK g : AreAdded(g, a, P, n, size)
  <2> HIDE DEF P, p, size
  <2> QED
    BY <1>1, <1>6, AddedExist
<1>12. IsRun(g)
  BY <1>11 DEF AreAdded
<1>13. IsRun(rows)
  BY <1>12, Zenon
<1>14. BnMul(a, b) = rows[n]
  BY <1>1 DEF BnMul
<1> HIDE DEF rows
<1>15. AreAdded(rows, a, P, n, size)
  BY <1>13 DEF AreAdded
<1> HIDE DEF P, p, u, size
<1>16. IsNumber(rows[n], size, u[n])
  BY <1>1, <1>6, <1>7, <1>8, <1>9, <1>10, <1>15, AddedIs
<1>17. u[n] = v * w
  <2>1. n \in 0 .. n
    OBVIOUS
  <2> QED
    BY <1>3, <2>1 DEF u
<1> QED
  BY <1>14, <1>16, <1>17 DEF size

-----------------------------------------------------------------------------
(* Texts of numbers *)

LEMMA DigitsPerWordIs ==
  DigitsPerWord \in Nat \ {0} /\ Raised(16, DigitsPerWord) = WordBase
<1> DEFINE two == 2
           four == 4
           d == BITS \div 4
<1>1. Raised(2, 4) = 16
  <2>1. \A k \in Nat : Raised(2, k + 1) = 2 * Raised(2, k)
    BY RaisedIs
  <2>2. Raised(2, 0) = 1
    BY RaisedIs
  <2>3. Raised(2, 0 + 1) = 2 /\ 0 + 1 = 1
    BY <2>1, <2>2
  <2>4. Raised(2, 1 + 1) = 4 /\ 1 + 1 = 2
    BY <2>1, <2>3
  <2>5. Raised(2, 2 + 1) = 8 /\ 2 + 1 = 3
    BY <2>1, <2>4
  <2>6. Raised(2, 3 + 1) = 16 /\ 3 + 1 = 4
    BY <2>1, <2>5
  <2> QED
    BY <2>6
<1>2. BITS \in Nat \ {0} /\ BITS % 4 = 0
  BY BnAssumption
<1>3. d \in Nat \ {0} /\ BITS = 4 * d
  BY <1>2
<1>4. two \in Nat /\ four \in Nat
  OBVIOUS
<1> HIDE DEF two, four, d
<1>5. Raised(Raised(two, four), d) = Raised(two, four * d)
  BY <1>3, <1>4, RaisedProduct
<1>6. Raised(16, d) = Raised(2, BITS)
  BY <1>1, <1>3, <1>5 DEF two, four
<1> QED
  BY <1>3, <1>6 DEF DigitsPerWord, WordBase, d

\* The integers that fit.
Fit == Raised(WordBase, WORDS)

LEMMA FitIs ==
  Fit \in Nat \ {0} /\ WORDS \in Nat \ {0} /\ Raised(16, DigitsPerWord * WORDS) = Fit
<1> DEFINE b == 16
<1>1. WORDS \in Nat \ {0}
  BY BnAssumption
<1>2. Fit \in Nat \ {0}
  BY <1>1, WordBaseIs, RaisedGrows DEF Fit
<1>3. b \in Nat /\ DigitsPerWord \in Nat /\ Raised(b, DigitsPerWord) = WordBase
  BY DigitsPerWordIs
<1> HIDE DEF b
<1>4. Raised(Raised(b, DigitsPerWord), WORDS) = Raised(b, DigitsPerWord * WORDS)
  BY <1>1, <1>3, RaisedProduct
<1>5. Raised(b, DigitsPerWord * WORDS) = Fit
  BY <1>3, <1>4 DEF Fit
<1> QED
  BY <1>1, <1>2, <1>5 DEF b

\* A text has the digits of f, the highest first.
IsReverse(text, f, n) == Len(text) = n /\ \A k \in 1 .. n : text[k] = f[n + 1 - k]

\* A text is read from its highest digit down.
LEMMA IntegerInIs ==
  ASSUME NEW n \in Nat, NEW text, NEW f, IsReverse(text, f, n),
         AreDigits(f, n, 16), NEW v, IsSum(v, f, n, 16)
  PROVE  IntegerIn(text) = v % Fit
<1> DEFINE IsRun(h) == h = [k \in 0 .. Len(text) |->
                              IF k = 0 THEN 0
                              ELSE (16 * h[k - 1] + text[k]) % Raised(WordBase, WORDS)]
           value == CHOOSE h : IsRun(h)
           X == Nat
           none == 0
           next(k, x) == (16 * x + text[k]) % Fit
           step == [kx \in (0 .. n) \X X |-> IF kx[1] = 0 THEN 0 ELSE next(kx[1], kx[2])]
<1>1. ASSUME NEW k \in 1 .. n, NEW x \in X PROVE next(k, x) \in X
  <2>1. n + 1 - k \in 1 .. n
    OBVIOUS
  <2>2. text[k] \in Nat
    BY <2>1 DEF AreDigits, IsReverse
  <2>3. 16 * x + text[k] \in Int
    BY <2>2
  <2> DEFINE y == 16 * x + text[k]
  <2> HIDE DEF y
  <2>4. y % Fit \in 0 .. Fit - 1
    BY <2>3, FitIs, Division DEF y
  <2> QED
    BY <2>4, FitIs DEF y
<1> HIDE DEF next
<1>2. IsStepUpTo(step, n, X)
  <2>1. ASSUME NEW k \in 0 .. n, NEW x \in X PROVE (IF k = 0 THEN 0 ELSE next(k, x)) \in X
    <3>1. k = 0 \/ k \in 1 .. n
      OBVIOUS
    <3> QED
      BY <1>1, <3>1
  <2> HIDE DEF X
  <2>2. \A kx \in (0 .. n) \X X : (IF kx[1] = 0 THEN 0 ELSE next(kx[1], kx[2])) \in X
    BY <2>1
  <2> QED
    BY <2>2 DEF IsStepUpTo, IsStep
<1>3. \A k \in 1 .. n, x \in X : step[<<k, x>>] = next(k, x)
  OBVIOUS
<1>4. none \in X
  OBVIOUS
<1> HIDE DEF step, X, none
<1>5. PICK h \in [0 .. n -> X] : h[0] = none /\ \A k \in 1 .. n : h[k] = step[<<k, h[k - 1]>>]
  BY <1>2, <1>4, RecursionUpTo
<1>6. ASSUME NEW k \in 1 .. n PROVE h[k] = next(k, h[k - 1])
  <2>1. k - 1 \in 0 .. n
    OBVIOUS
  <2>2. h[k - 1] \in X
    BY <2>1
  <2> QED
    BY <1>3, <1>5, <2>2
<1>7. IsRun(h)
  <2>0. Len(text) = n
    BY DEF IsReverse
  <2>1. h = [k \in 0 .. n |-> h[k]]
    BY <1>5
  <2>2. ASSUME NEW k \in 0 .. n
        PROVE  h[k] = IF k = 0 THEN 0 ELSE (16 * h[k - 1] + text[k]) % Raised(WordBase, WORDS)
    <3>1. k = 0 \/ k \in 1 .. n
      OBVIOUS
    <3> QED
      BY <1>5, <1>6, <3>1 DEF none, next, Fit
  <2> QED
    BY <2>0, <2>1, <2>2
<1>8. IsRun(value)
  BY <1>7, Zenon
<1>9. IntegerIn(text) = value[n]
  BY DEF IntegerIn, IsReverse
<1> HIDE DEF value
<1>10. value[0] = 0
  <2>1. 0 \in 0 .. n
    OBVIOUS
  <2> QED
    BY <1>8, <2>1 DEF IsReverse
<1>11. ASSUME NEW k \in 1 .. n PROVE value[k] = (16 * value[k - 1] + f[n + 1 - k]) % Fit
  <2>1. k \in 0 .. n /\ k # 0
    OBVIOUS
  <2>2. value[k] = (16 * value[k - 1] + text[k]) % Fit
    BY <1>8, <2>1 DEF Fit, IsReverse
  <2>3. text[k] = f[n + 1 - k]
    BY DEF IsReverse
  <2> QED
    BY <2>2, <2>3
<1>12. PICK s : AreSums(s, f, n, 16) /\ v = s[n]
  BY DEF IsSum
<1>13. value[n] = s[n] % Fit
  <2> DEFINE b == 16
  <2>1. /\ b \in Nat \ {0} /\ AreDigits(f, n, b) /\ AreSums(s, f, n, b)
        /\ AreRemainders(value, f, n, b, Fit)
    BY <1>10, <1>11, <1>12 DEF AreRemainders
  <2>2. Fit \in Nat \ {0}
    BY FitIs
  <2> HIDE DEF b
  <2> QED
    BY <2>1, <2>2, RemaindersOfDigits
<1> QED
  BY <1>9, <1>12, <1>13

\* The text that is shown is that of the number.
LEMMA BnAsHttpIs ==
  ASSUME NEW a, NEW v, IsNumber(a, WORDS, v)
  PROVE  IntegerIn(BnAsHttp(a)) = v
<1> DEFINE d == DigitsPerWord
           n == d * WORDS
           f == [t \in 1 .. n |-> DigitAt(a, t, d, 16)]
           text == BnAsHttp(a)
           Dig(place) == (a[(place \div DigitsPerWord) + 1] \div Raised(16, place % DigitsPerWord)) % 16
<1>1. Len(a) = WORDS /\ v \in 0 .. Fit - 1
  BY NumberIs DEF Fit
<1>2. d \in Nat \ {0} /\ n \in Nat
  BY DigitsPerWordIs, FitIs
<1>3. AreDigits(f, n, 16) /\ IsSum(v, f, n, 16)
  <2> DEFINE b == 16
  <2>1. b \in Nat \ {0} /\ Raised(b, d) = WordBase /\ \A t \in 1 .. n : f[t] = DigitAt(a, t, d, b)
    BY DigitsPerWordIs
  <2> HIDE DEF b, f
  <2>2. AreDigits(f, d * WORDS, b) /\ IsSum(v, f, d * WORDS, b)
    BY <1>2, <2>1, DigitsOfNumber
  <2> QED
    BY <2>2 DEF b
<1>4. text = [k \in 1 .. n |-> Dig(n - k)]
  BY <1>1 DEF BnAsHttp
<1>5. ASSUME NEW k \in 1 .. n PROVE text[k] = f[n + 1 - k] /\ f[n + 1 - k] \in 0 .. 15
  <2> DEFINE t == n + 1 - k
  <2>1. t \in 1 .. n /\ t - 1 = n - k
    BY <1>2
  <2>2. text[k] = Dig(n - k)
    BY <1>4
  <2>3. f[t] = Dig(t - 1)
    BY <2>1 DEF DigitAt
  <2>4. f[t] \in 0 .. 16 - 1
    BY <1>3, <2>1 DEF AreDigits
  <2> HIDE DEF f, n, Dig
  <2> QED
    BY <2>1, <2>2, <2>3, <2>4
<1> HIDE DEF f, n, Dig, text
<1>6. Len(text) = n
  <2>1. DOMAIN text = 1 .. n
    BY <1>4
  <2>2. text \in [1 .. n -> 0 .. 15]
    <3>1. \A k \in 1 .. n : text[k] \in 0 .. 15
      BY <1>5
    <3>2. text = [k \in 1 .. n |-> text[k]]
      BY <1>4
    <3> QED
      BY <3>1, <3>2
  <2> DEFINE T == 0 .. 15
  <2>3. IsTable(text, n, T)
    BY <2>2 DEF IsTable
  <2> HIDE DEF T
  <2>4. IsText(text, n, T)
    BY <1>2, <2>3, IsTextOf
  <2> QED
    BY <2>4 DEF IsText
<1>7. IntegerIn(text) = v % Fit
  <2>1. IsReverse(text, f, n)
    BY <1>5, <1>6 DEF IsReverse
  <2> QED
    BY <1>2, <1>3, <2>1, IntegerInIs
<1>8. v % Fit = v
  BY <1>1, FitIs, SmallRemainder
<1> QED
  BY <1>7, <1>8 DEF text

\* The words that are parsed are made of the digits of the text.
LEMMA ParsedIs ==
  ASSUME NEW len \in Nat, NEW text, IsText(text, len, 0 .. 15)
  PROVE  IsNumber(BnParseHex(text), WORDS, IntegerIn(text))
<1> DEFINE d == DigitsPerWord
           n == WORDS
           size == d * n + len
           g == [t \in 1 .. size |-> DigitOf(text, t - 1)]
           f == [t \in 1 .. len |-> text[len + 1 - t]]
           Digit == 0 .. 15
           IsParsed(p, i) == p = [k \in 0 .. d |->
                                    IF k = 0 THEN 0
                                    ELSE p[k - 1] + DigitOf(text, d * (i - 1) + k - 1) * Raised(16, k - 1)]
           parsed(i) == CHOOSE p : IsParsed(p, i)
           word(i) == parsed(i)[d]
           w == [i \in 1 .. n |-> word(i)]
           a == Words(n, w)
<1>1. d \in Nat \ {0} /\ n \in Nat \ {0} /\ d * n \in Nat /\ size \in Nat /\ d * n \in 0 .. size
      /\ len \in 0 .. size
  <2>1. d \in Nat \ {0} /\ n \in Nat \ {0}
    BY DigitsPerWordIs, FitIs
  <2>2. d * n \in Nat
    BY <2>1
  <2> DEFINE x == d * n
  <2> HIDE DEF x
  <2>3. x + len \in Nat /\ x \in 0 .. x + len /\ len \in 0 .. x + len
    BY <2>2 DEF x
  <2> QED
    BY <2>1, <2>2, <2>3 DEF x
<1>2. Len(text) = len /\ \A k \in 1 .. len : text[k] \in Digit
  BY TextIs
<1>3. ASSUME NEW k \in Nat
      PROVE  /\ DigitOf(text, k) = IF k < len THEN text[len - k] ELSE 0
             /\ DigitOf(text, k) \in 0 .. 16 - 1
  <2>1. CASE k < len
    <3>1. len - k \in 1 .. len
      BY <2>1
    <3> QED
      BY <1>2, <2>1, <3>1 DEF DigitOf
  <2>2. CASE ~ (k < len)
    BY <1>2, <2>2 DEF DigitOf
  <2> QED
    BY <2>1, <2>2
<1>4. AreDigits(g, size, 16)
  <2>1. \A t \in 1 .. size : g[t] \in 0 .. 16 - 1
    <3>1. \A t \in 1 .. size : t - 1 \in Nat
      BY <1>1
    <3> QED
      BY <1>3, <3>1
  <2> QED
    BY <1>1, <2>1 DEF AreDigits
<1>5. AreDigits(f, len, 16)
  <2>1. \A t \in 1 .. len : f[t] \in 0 .. 16 - 1
    <3>1. \A t \in 1 .. len : len + 1 - t \in 1 .. len
      OBVIOUS
    <3> QED
      BY <1>2, <3>1
  <2> QED
    BY <2>1 DEF AreDigits
<1>6. \A t \in 1 .. len : g[t] = f[t]
  <2> SUFFICES ASSUME NEW t \in 1 .. len PROVE g[t] = f[t]
    OBVIOUS
  <2>1. t - 1 \in Nat /\ t - 1 < len /\ len - (t - 1) = len + 1 - t /\ t \in 1 .. size
    BY <1>1
  <2>2. g[t] = text[len - (t - 1)]
    BY <1>3, <2>1
  <2> QED
    BY <2>1, <2>2
<1>7. AreZeros(g, len, size)
  <2> SUFFICES ASSUME NEW t \in len + 1 .. size PROVE g[t] = 0
    BY DEF AreZeros
  <2>1. t - 1 \in Nat /\ ~ (t - 1 < len) /\ t \in 1 .. size
    BY <1>1
  <2> QED
    BY <1>3, <2>1
<1>8. AreDigits(g, d * n, 16)
  <2> DEFINE x == d * n
  <2>1. \A t \in 1 .. x : t \in 1 .. size
    BY <1>1
  <2> HIDE DEF x, g
  <2>2. AreDigits(g, x, 16)
    BY <1>1, <1>4, <2>1 DEF AreDigits, x
  <2> QED
    BY <2>2 DEF x
<1>9. ASSUME NEW i \in 0 .. n - 1 PROVE IsSum(word(i + 1), DigitsFrom(g, i, d), d, 16) /\ word(i + 1) \in Word
  <2> DEFINE B == DigitsFrom(g, i, d)
             from == d * i
  <2>1. from \in Nat /\ \A m \in 1 .. d : from + m \in 1 .. d * n
    <3>1. PICK e \in Nat : n = (i + 1) + e
      <4>1. n - (i + 1) \in Nat /\ n = (i + 1) + (n - (i + 1))
        BY <1>1
      <4> QED
        BY <4>1
    <3>2. d * n = (d * i + d) + d * e /\ d * e \in Nat /\ d * i \in Nat
      BY <1>1, <3>1
    <3> QED
      BY <1>1, <3>2
  <2>2. \A m \in 1 .. d : B[m] = g[from + m] /\ B[m] = DigitOf(text, d * ((i + 1) - 1) + m - 1)
    <3> SUFFICES ASSUME NEW m \in 1 .. d
                 PROVE  B[m] = g[from + m] /\ B[m] = DigitOf(text, d * ((i + 1) - 1) + m - 1)
      OBVIOUS
    <3>1. B[m] = g[from + m]
      BY DEF DigitsFrom
    <3>2. (i + 1) - 1 = i
      BY <1>1
    <3>3. from + m \in 1 .. size
      <4>1. from + m \in 1 .. d * n
        BY <2>1
      <4> DEFINE x == d * n
                 y == from + m
      <4>2. x \in Nat /\ y \in 1 .. x /\ x + len = size
        BY <1>1, <4>1
      <4> HIDE DEF x, y, size
      <4>3. y \in 1 .. size
        BY <4>2
      <4> QED
        BY <4>3 DEF y
    <3>4. g[from + m] = DigitOf(text, from + m - 1)
      <4> DEFINE y == from + m
      <4>1. g[y] = DigitOf(text, y - 1)
        BY <3>3
      <4>2. y - 1 = from + m - 1
        <5> HIDE DEF from
        <5> QED
          BY <2>1
      <4> QED
        BY <4>1, <4>2
    <3> QED
      BY <3>1, <3>2, <3>4
  <2>3. AreDigits(B, d, 16)
    <3>1. \A m \in 1 .. d : g[from + m] \in 0 .. 16 - 1
      BY <1>8, <2>1 DEF AreDigits
    <3> QED
      BY <1>1, <2>2, <3>1 DEF AreDigits
  <2> HIDE DEF B, from, g
  <2>4. PICK s : AreSums(s, B, d, 16)
    <3> DEFINE b == 16
    <3>1. b \in Nat \ {0} /\ AreDigits(B, d, b)
      BY <2>3
    <3> HIDE DEF b
    <3>2. \E s : AreSums(s, B, d, b)
      BY <3>1, SumsExist
    <3> QED
      BY <3>2 DEF b
  <2>5. IsSumRun(s, B, d, 16)
    BY <2>4, SumsRun
  <2>6. \A p : IsParsed(p, i + 1) <=> IsSumRun(p, B, d, 16)
    <3> SUFFICES ASSUME NEW p PROVE IsParsed(p, i + 1) <=> IsSumRun(p, B, d, 16)
      OBVIOUS
    <3>1. ASSUME NEW k \in 0 .. d
          PROVE  (IF k = 0 THEN 0
                  ELSE p[k - 1] + DigitOf(text, d * ((i + 1) - 1) + k - 1) * Raised(16, k - 1))
                 = (IF k = 0 THEN 0 ELSE p[k - 1] + B[k] * Raised(16, k - 1))
      <4>1. k = 0 \/ k \in 1 .. d
        BY <1>1
      <4> QED
        BY <2>2, <4>1
    <3> QED
      BY <3>1 DEF IsSumRun
  <2> HIDE DEF IsParsed
  <2>7. IsParsed(parsed(i + 1), i + 1)
    <3>1. IsParsed(s, i + 1)
      BY <2>5, <2>6
    <3> QED
      BY <3>1
  <2> HIDE DEF parsed
  <2>8. parsed(i + 1)[d] = s[d]
    <3>1. IsSumRun(parsed(i + 1), B, d, 16)
      BY <2>6, <2>7
    <3> QED
      BY <2>4, <3>1, SumsAreRun
  <2>9. s[d] \in 0 .. WordBase - 1
    <3> DEFINE b == 16
    <3>1. b \in Nat \ {0} /\ AreDigits(B, d, b) /\ AreSums(s, B, d, b) /\ Raised(b, d) = WordBase
      BY <2>3, <2>4, DigitsPerWordIs
    <3>2. d \in 0 .. d
      BY <1>1
    <3> HIDE DEF b, d
    <3>3. s[d] \in 0 .. Raised(b, d) - 1
      BY <3>1, <3>2, SumsBound
    <3> QED
      BY <3>1, <3>3
  <2> QED
    BY <2>4, <2>8, <2>9 DEF IsSum, Word, B
<1>10. BnParseHex(text) = a
  BY DEF BnParseHex
<1> HIDE DEF word
<1>11. IsTable(w, n, Word) /\ \A i \in 1 .. n : w[i] = word(i)
  <2>1. ASSUME NEW i \in 1 .. n PROVE word(i) \in Word
    <3>1. i - 1 \in 0 .. n - 1 /\ (i - 1) + 1 = i
      BY <1>1
    <3>2. word((i - 1) + 1) \in Word
      BY <1>9, <3>1
    <3> QED
      BY <3>1, <3>2
  <2> QED
    BY <2>1 DEF IsTable
<1> HIDE DEF w
<1>12. IsText(a, n, Word) /\ \A i \in 1 .. n : a[i] = w[i]
  BY <1>1, <1>11, WordsAre
<1> HIDE DEF a
<1>13. PICK v : IsNumber(a, n, v)
  BY <1>12, TextIsNumber
<1>14. PICK t : AreSums(t, a, n, Raised(16, d)) /\ v = t[n]
  BY <1>13, DigitsPerWordIs DEF IsNumber, IsSum
<1> DEFINE b == 16
<1>15. b \in Nat \ {0} /\ b \in Nat
  OBVIOUS
<1> HIDE DEF b, d, n, size, g, f
<1>16. PICK G : AreSums(G, g, d * n, b)
  BY <1>8, <1>15, SumsExist DEF b
<1>17. G[d * n] = v
  <2>1. \A i \in 0 .. n - 1 : IsSum(a[i + 1], DigitsFrom(g, i, d), d, b)
    <3> SUFFICES ASSUME NEW i \in 0 .. n - 1 PROVE IsSum(a[i + 1], DigitsFrom(g, i, d), d, b)
      OBVIOUS
    <3>1. i + 1 \in 1 .. n
      BY <1>1
    <3>2. a[i + 1] = word(i + 1)
      BY <1>11, <1>12, <3>1
    <3> QED
      BY <1>9, <3>2 DEF b
  <2>2. AreDigits(g, d * n, b) /\ AreSums(t, a, n, Raised(b, d)) /\ n \in Nat
    BY <1>1, <1>8, <1>14 DEF b
  <2> QED
    BY <1>1, <1>14, <1>15, <1>16, <2>1, <2>2, SumsOfBlocks
<1>18. PICK S : AreSums(S, g, size, b)
  BY <1>4, <1>15, SumsExist DEF b
<1>19. PICK F : AreSums(F, f, len, b)
  BY <1>5, <1>15, SumsExist DEF b
<1>20. S[len] = F[len]
  <2>1. len \in 0 .. size /\ len <= len
    BY <1>1
  <2> QED
    BY <1>6, <1>18, <1>19, <2>1, SumsAgree
<1>21. S[size] = S[len]
  <2>1. size \in len .. size
    BY <1>1
  <2> QED
    BY <1>1, <1>7, <1>15, <1>18, <2>1, SumsOfZeros
<1>22. S[d * n] = v
  <2> DEFINE x == d * n
  <2>1. x \in 0 .. size /\ x <= x /\ AreSums(G, g, x, b) /\ G[x] = v /\ \A k \in 1 .. x : g[k] = g[k]
    BY <1>1, <1>16, <1>17
  <2> HIDE DEF x
  <2>2. S[x] = G[x]
    BY <1>18, <2>1, SumsAgree
  <2> QED
    BY <2>1, <2>2 DEF x
<1>23. PICK q \in Nat : S[size] = S[d * n] + Raised(b, d * n) * q
  <2> DEFINE x == d * n
  <2>1. x \in 0 .. size /\ AreDigits(g, size, b)
    BY <1>1, <1>4 DEF b
  <2> HIDE DEF x
  <2>2. \E q \in Nat : S[size] = S[x] + Raised(b, x) * q
    BY <1>15, <1>18, <2>1, SumsAbove
  <2> QED
    BY <2>2 DEF x
<1>24. Raised(b, d * n) = Fit /\ v \in 0 .. Fit - 1 /\ Fit \in Nat \ {0}
  <2>1. v \in 0 .. Raised(WordBase, n) - 1
    BY <1>13, NumberIs
  <2>2. Raised(WordBase, n) = Fit
    BY DEF n, Fit
  <2> QED
    BY <2>1, <2>2, FitIs DEF b, d, n
<1>25. F[len] = Fit * q + v
  <2> DEFINE x == Fit * q
  <2>1. x \in Int /\ v \in Int
    BY <1>24
  <2>2. F[len] = v + x
    BY <1>20, <1>21, <1>22, <1>23, <1>24
  <2> HIDE DEF x
  <2>3. F[len] = x + v
    BY <2>1, <2>2
  <2> QED
    BY <2>3 DEF x
<1>26. F[len] % Fit = v
  <2> DEFINE y == F[len]
  <2>1. len \in 0 .. len
    OBVIOUS
  <2>2. y \in Int /\ q \in Int
    BY <1>19, <2>1, SumsStep
  <2>3. y = Fit * q + v
    BY <1>25
  <2> HIDE DEF y
  <2>4. y % Fit = v
    BY <1>24, <2>2, <2>3, RemainderIs
  <2> QED
    BY <2>4 DEF y
<1>27. IntegerIn(text) = F[len] % Fit
  <2> DEFINE y == F[len]
  <2>1. IsReverse(text, f, len)
    <3> SUFFICES ASSUME NEW k \in 1 .. len PROVE text[k] = f[len + 1 - k]
      BY <1>2 DEF IsReverse
    <3>1. len + 1 - k \in 1 .. len /\ len + 1 - (len + 1 - k) = k
      OBVIOUS
    <3> QED
      BY <3>1 DEF f
  <2>2. AreDigits(f, len, 16) /\ IsSum(y, f, len, 16)
    BY <1>5, <1>19 DEF b, IsSum
  <2> HIDE DEF y
  <2>3. IntegerIn(text) = y % Fit
    BY <2>1, <2>2, IntegerInIs
  <2> QED
    BY <2>3 DEF y
<1> QED
  BY <1>10, <1>13, <1>26, <1>27 DEF n

LEMMA BnIncIs ==
  ASSUME NEW a, NEW v, IsNumber(a, WORDS, v)
  PROVE  IsNumber(BnInc(a), WORDS, (v + 1) % Fit)
<1> DEFINE one == 1
           x == v + one
<1>1. WORDS \in Nat \ {0} /\ Fit \in Nat \ {0}
  BY FitIs
<1>2. Len(a) = WORDS /\ v \in Nat
  BY NumberIs
<1>3. IsNumber(One(WORDS), WORDS, one)
  BY <1>1, OneIsNumber
<1>4. BnInc(a) = BnAdd(a, One(WORDS))
  BY <1>2 DEF BnInc
<1>5. x \in Int
  BY <1>2
<1> HIDE DEF one
<1>6. PICK z \in Nat, c \in Nat : IsNumber(BnInc(a), WORDS, z) /\ x = z + Raised(WordBase, WORDS) * c
  BY <1>3, <1>4, BnAddIs
<1>7. z \in 0 .. Fit - 1
  BY <1>6, NumberIs DEF Fit
<1>8. x = Fit * c + z /\ c \in Int
  <2> DEFINE y == Fit * c
  <2>1. y \in Int
    BY <1>1
  <2>2. x = z + y
    BY <1>6 DEF Fit
  <2> HIDE DEF y, x
  <2>3. x = y + z
    BY <2>1, <2>2
  <2> QED
    BY <2>3 DEF y
<1> HIDE DEF x
<1>9. x % Fit = z
  BY <1>1, <1>5, <1>7, <1>8, RemainderIs
<1> QED
  BY <1>6, <1>9 DEF x, one

-----------------------------------------------------------------------------
(* Powers by halves *)

LEMMA PowerOfTwice ==
  ASSUME NEW m \in Nat, NEW n \in Nat \ {0}, NEW j \in Nat
  PROVE  \A k \in Nat : PowerMod(m, j + k, n) = (PowerMod(m, j, n) * PowerMod(m, k, n)) % n
<1> DEFINE P(k) == PowerMod(m, k, n)
           Good == {k \in Nat : P(j + k) = (P(j) * P(k)) % n}
<1>1. \A k \in Nat : P(k) \in 0 .. n - 1
  BY PowerModType
<1>2. P(0) = 1 % n /\ \A k \in Nat : P(k + 1) = (P(k) * m) % n
  BY PowerModRecursion
<1>3. 0 \in Good
  <2> DEFINE x == P(j)
  <2>1. x \in 0 .. n - 1 /\ x \in Int /\ 1 \in Int
    BY <1>1
  <2> HIDE DEF x
  <2>2. (x * (1 % n)) % n = (1 * x) % n
    BY <2>1, RemainderOfProduct, Zenon
  <2>3. 1 * x = x /\ x % n = x
    BY <2>1, SmallRemainder
  <2>4. j + 0 = j
    OBVIOUS
  <2> HIDE DEF P
  <2>5. P(j + 0) = (P(j) * P(0)) % n
    BY <1>2, <2>2, <2>3, <2>4 DEF x
  <2> QED
    BY <2>5
<1>4. ASSUME NEW k \in Nat, k \in Good PROVE k + 1 \in Good
  <2> DEFINE x == P(j)
             y == P(k)
             z == x * y
             v == y * m
  <2>1. x \in Int /\ y \in Int /\ m \in Int
    BY <1>1
  <2>2. j + (k + 1) = (j + k) + 1 /\ j + k \in Nat
    OBVIOUS
  <2>3. P((j + k) + 1) = (P(j + k) * m) % n /\ P(k + 1) = v % n
    BY <1>2, <2>2
  <2>4. P(j + k) = z % n
    BY <1>4
  <2>5. z \in Int /\ v \in Int
    BY <2>1
  <2>6. z * m = v * x
    <3> HIDE DEF x, y
    <3> QED
      BY <2>1, Z3
  <2> HIDE DEF z, v, x, P
  <2>7. ((z % n) * m) % n = (z * m) % n
    BY <2>1, <2>5, RemainderOfProduct, Zenon
  <2>8. (x * (v % n)) % n = (v * x) % n
    BY <2>1, <2>5, RemainderOfProduct, Zenon
  <2>9. P(j + (k + 1)) = (P(j) * P(k + 1)) % n
    BY <2>2, <2>3, <2>4, <2>6, <2>7, <2>8 DEF x
  <2> QED
    BY <2>9
<1> HIDE DEF Good
<1>5. Nat \subseteq Good
  BY <1>3, <1>4, Induction
<1> QED
  BY <1>5 DEF Good

\* What a power is made of.
Halved(half, m, k, n) ==
  LET square == (half * half) % n IN IF k % 2 = 1 THEN (square * m) % n ELSE square

LEMMA PowerOfHalf ==
  ASSUME NEW m \in Nat, NEW n \in Nat \ {0}, NEW k \in Nat
  PROVE  PowerMod(m, k, n) = Halved(PowerMod(m, k \div 2, n), m, k, n)
<1> DEFINE h == k \div 2
           x == PowerMod(m, h, n)
<1>1. h \in Nat /\ (k = h + h \/ k = (h + h) + 1) /\ (k % 2 = 1 <=> k = (h + h) + 1)
  OBVIOUS
<1> HIDE DEF h
<1>2. PowerMod(m, h + h, n) = (x * x) % n
  BY <1>1, PowerOfTwice
<1>3. h + h \in Nat
  BY <1>1
<1>4. PowerMod(m, (h + h) + 1, n) = (PowerMod(m, h + h, n) * m) % n
  BY <1>3, PowerModRecursion
<1>5. CASE k = h + h
  <2>1. k % 2 # 1
    BY <1>1, <1>5
  <2> QED
    BY <1>2, <1>5, <2>1 DEF Halved, h
<1>6. CASE k = (h + h) + 1
  <2>1. k % 2 = 1
    BY <1>1, <1>6
  <2> QED
    BY <1>2, <1>4, <1>6, <2>1 DEF Halved, h
<1> QED
  BY <1>1, <1>5, <1>6

LEMMA PowerOfIs ==
  ASSUME NEW m \in Nat, NEW n \in Nat \ {0}
  PROVE  \A e \in Nat : PowerOf(m, e, n) = PowerMod(m, e, n)
<1> DEFINE IsRun(p) == p = [k \in Nat |->
                              IF k = 0 THEN 1 % n
                              ELSE LET half == p[k \div 2]
                                       square == (half * half) % n
                                   IN  IF k % 2 = 1 THEN (square * m) % n ELSE square]
           power == CHOOSE p : IsRun(p)
           all == [k \in Nat |-> PowerMod(m, k, n)]
<1>1. IsRun(all)
  <2> SUFFICES ASSUME NEW k \in Nat
               PROVE  PowerMod(m, k, n) = IF k = 0 THEN 1 % n ELSE Halved(all[k \div 2], m, k, n)
    BY DEF Halved
  <2>1. CASE k = 0
    BY <2>1, PowerModRecursion
  <2>2. CASE k # 0
    <3>1. k \div 2 \in Nat
      OBVIOUS
    <3>2. all[k \div 2] = PowerMod(m, k \div 2, n)
      BY <3>1
    <3> HIDE DEF all
    <3> QED
      BY <2>2, <3>2, PowerOfHalf
  <2> QED
    BY <2>1, <2>2
<1>2. IsRun(power)
  BY <1>1, Zenon
<1>3. \A e \in Nat : PowerOf(m, e, n) = power[e]
  BY DEF PowerOf
<1> HIDE DEF power
<1>4. \A k \in Nat : power[k] = IF k = 0 THEN 1 % n ELSE Halved(power[k \div 2], m, k, n)
  BY <1>2 DEF Halved
<1>5. \A k \in Nat : all[k] = IF k = 0 THEN 1 % n ELSE Halved(all[k \div 2], m, k, n)
  BY <1>1 DEF Halved
<1> DEFINE Bad == {k \in Nat : power[k] # all[k]}
<1> HIDE DEF IsRun
<1>6. Bad = {}
  <2>1. SUFFICES ASSUME Bad # {} PROVE FALSE
    OBVIOUS
  <2>2. PICK k \in Bad : \A j \in Bad : k <= j
    <3>1. Bad \subseteq Nat
      OBVIOUS
    <3> HIDE DEF Bad
    <3> QED
      BY <2>1, <3>1, Least
  <2>3. k \in Nat /\ power[k] # all[k]
    OBVIOUS
  <2>4. k # 0
    BY <1>4, <1>5, <2>3
  <2> DEFINE h == k \div 2
  <2>5. h \in Nat /\ h < k
    BY <2>3, <2>4
  <2> HIDE DEF all
  <2>6. h \notin Bad
    <3> HIDE DEF h, Bad
    <3> QED
      BY <2>2, <2>3, <2>5
  <2>7. power[h] = all[h]
    BY <2>5, <2>6
  <2> QED
    BY <1>4, <1>5, <2>3, <2>4, <2>7
<1>7. \A e \in Nat : power[e] = all[e]
  BY <1>6
<1> QED
  BY <1>3, <1>7

-----------------------------------------------------------------------------
(* The calls: what is in the words, whatever call has been made. *)

\* The numbers m, e and r of an exponentiation, and what they will still come to.
AreOfPower(x, b, t, n, m, e, r) ==
  /\ IsNumber(x.m, WORDS, m) /\ IsNumber(x.e, WORDS, e)
  /\ IsNumber(x.n, WORDS, n) /\ IsNumber(x.r, WORDS, r)
  /\ (r * PowerMod(m, e, n)) % n = PowerMod(b % n, t, n)

IsPower(x, b, t, n) == \E m \in Nat, e \in Nat, r \in Nat : AreOfPower(x, b, t, n, m, e, r)

Multiplied(a, b) ==
  bnDoing = <<"multiply", a, b>> /\ IsNumber(bn, 2 * WORDS, a * b)

Divided(x, d) ==
  bnDoing = <<"divide", x, d>> /\ IsNumber(bn, WORDS, x % d)

Exponentiated(kind, p) ==
  /\ kind \in {"power", "powered"} /\ bnDoing = <<kind, p>>
  /\ IsPower(bnPower, p[1], p[2], p[3])

Parsed(text) ==
  bnDoing = <<"parse", text>> /\ IntegerIn(bn) = (IntegerIn(text) + 1) % Fit

BnInv ==
  \/ bnDoing = <<"nothing">>
  \/ \E a \in BnValues, b \in BnValues : Multiplied(a, b)
  \/ \E x \in Nat, d \in Nat \ {0} : Divided(x, d)
  \/ \E kind \in {"power", "powered"}, p \in BnPowers : Exponentiated(kind, p)
  \/ \E text \in BnTexts : Parsed(text)

\* The integers of the calls fit.
LEMMA ValuesFit ==
  /\ WORDS \in Nat \ {0} /\ 2 * WORDS \in Nat \ {0}
  /\ \A v \in BnValues : v \in Nat /\ v \in 0 .. Fit - 1
  /\ \A p \in BnPowers : /\ p[1] \in 0 .. Fit - 1 /\ p[1] \in Nat
                         /\ p[2] \in 0 .. Fit - 1 /\ p[2] \in Nat
                         /\ p[3] \in 0 .. Fit - 1 /\ p[3] \in Nat \ {0}
<1> DEFINE Fitting == 0 .. Fit - 1
<1>1. /\ WORDS \in Nat \ {0} /\ BnValues \subseteq Fitting
      /\ BnPowers \subseteq Fitting \X Fitting \X (Fitting \ {0})
  BY BnAssumption DEF Fit
<1>2. Fitting \subseteq Nat
  BY FitIs
<1>3. 2 * WORDS \in Nat \ {0}
  BY <1>1
<1> HIDE DEF Fitting
<1>4. \A p \in Fitting \X Fitting \X (Fitting \ {0}) :
        p[1] \in Fitting /\ p[2] \in Fitting /\ p[3] \in Fitting /\ p[3] # 0
  OBVIOUS
<1>5. \A p \in BnPowers : p[1] \in Fitting /\ p[2] \in Fitting /\ p[3] \in Fitting /\ p[3] # 0
  BY <1>1, <1>4
<1> QED
  BY <1>1, <1>2, <1>3, <1>5 DEF Fitting

\* A product of two numbers that is divided: the n words of the remainder.
LEMMA ProductRemains ==
  ASSUME NEW a, NEW v, IsNumber(a, WORDS, v), NEW b, NEW w, IsNumber(b, WORDS, w),
         NEW d, NEW n, IsNumber(d, WORDS, n), n # 0
  PROVE  IsNumber(BnRem(BnMul(a, b), d), WORDS, (v * w) % n)
<1>1. WORDS \in Nat \ {0}
  BY FitIs
<1>2. IsNumber(BnMul(a, b), 2 * WORDS, v * w)
  BY <1>1, BnMulIs
<1> DEFINE num == BnMul(a, b)
           x == v * w
           m == 2 * WORDS
<1>3. IsNumber(num, m, x)
  BY <1>2
<1> HIDE DEF num, x, m
<1>4. IsNumber(BnRem(num, d), WORDS, x % n)
  BY <1>1, <1>3, BnRemIs
<1> QED
  BY <1>4 DEF num, x

LEMMA PowerStarts ==
  ASSUME NEW b \in 0 .. Fit - 1, NEW t \in 0 .. Fit - 1, NEW n \in 0 .. Fit - 1, n # 0
  PROVE  IsPower(BnModExpStart(NumberOf(b, WORDS), NumberOf(t, WORDS), NumberOf(n, WORDS)), b, t, n)
<1>1. /\ WORDS \in Nat \ {0} /\ WORDS \in Nat
      /\ Fit \in Nat /\ b \in Nat /\ t \in Nat /\ n \in Nat \ {0}
  BY FitIs
<1>2. /\ IsNumber(NumberOf(b, WORDS), WORDS, b) /\ IsNumber(NumberOf(t, WORDS), WORDS, t)
      /\ IsNumber(NumberOf(n, WORDS), WORDS, n)
  BY <1>1, NumberOfIs DEF Fit
<1>3. IsNumber(BnRem(NumberOf(b, WORDS), NumberOf(n, WORDS)), WORDS, b % n)
  BY <1>1, <1>2, BnRemIs
<1>4. IsNumber(One(WORDS), WORDS, 1)
  BY <1>1, OneIsNumber
<1> DEFINE m == b % n
<1>5. m \in 0 .. n - 1
  BY <1>1, Division
<1>6. m \in Nat /\ m \in Int
  BY <1>1, <1>5
<1>7. m % n = m
  <2>1. b \in Int /\ n \in Nat \ {0}
    BY <1>1
  <2> QED
    BY <2>1, RemainderOfRemainder, Zenon
<1>8. (1 * PowerMod(m, t, n)) % n = PowerMod(m, t, n)
  <2> HIDE DEF m
  <2> QED
    BY <1>1, <1>6, <1>7, AllLeft
<1> DEFINE x == BnModExpStart(NumberOf(b, WORDS), NumberOf(t, WORDS), NumberOf(n, WORDS))
<1>9. Len(NumberOf(n, WORDS)) = WORDS
  BY <1>2, NumberIs
<1>10. /\ x.m = BnRem(NumberOf(b, WORDS), NumberOf(n, WORDS)) /\ x.e = NumberOf(t, WORDS)
       /\ x.n = NumberOf(n, WORDS) /\ x.r = One(WORDS)
  BY <1>9 DEF BnModExpStart
<1> HIDE DEF x
<1>11. AreOfPower(x, b, t, n, m, t, 1)
  BY <1>2, <1>3, <1>4, <1>8, <1>10 DEF AreOfPower
<1> HIDE DEF m
<1> QED
  <2>1. IsPower(x, b, t, n)
    BY <1>1, <1>6, <1>11 DEF IsPower
  <2> QED
    BY <2>1 DEF x

LEMMA PowerIterates ==
  ASSUME NEW x, NEW b \in Nat, NEW t \in Nat, NEW n \in Nat \ {0}, IsPower(x, b, t, n)
  PROVE  IsPower(BnModExpIterate(x), b, t, n)
<1>1. PICK m \in Nat, e \in Nat, r \in Nat : AreOfPower(x, b, t, n, m, e, r)
  BY DEF IsPower
<1>2. /\ IsNumber(x.m, WORDS, m) /\ IsNumber(x.e, WORDS, e)
      /\ IsNumber(x.n, WORDS, n) /\ IsNumber(x.r, WORDS, r)
      /\ (r * PowerMod(m, e, n)) % n = PowerMod(b % n, t, n)
  BY <1>1 DEF AreOfPower
<1>3. WORDS \in Nat \ {0} /\ n # 0
  BY FitIs
<1> DEFINE squared == BnRem(BnMul(x.m, x.m), x.n)
           product == BnRem(BnMul(x.r, x.m), x.n)
           half == BnShr(x.e, 0)
           odd == e % 2 = 1
           q == IF odd THEN (r * m) % n ELSE r
           s == (m * m) % n
           h == e \div 2
           y == BnModExpIterate(x)
<1>4. IsNumber(squared, WORDS, s) /\ IsNumber(product, WORDS, (r * m) % n)
  BY <1>2, <1>3, ProductRemains
<1>5. IsNumber(half, WORDS, h) /\ x.e[1] % 2 = e % 2
  BY <1>2, <1>3, BnShrIs
<1>6. y.m = squared /\ y.e = half /\ y.n = x.n /\ y.r = IF odd THEN product ELSE x.r
  BY <1>5 DEF BnModExpIterate
<1>7. (q * PowerMod(s, h, n)) % n = (r * PowerMod(m, e, n)) % n
  BY SquareAndMultiply, Zenon
<1>8. s \in Nat /\ (r * m) % n \in Nat /\ h \in Nat
  <2>1. m * m \in Int /\ r * m \in Int
    OBVIOUS
  <2>2. s \in 0 .. n - 1 /\ (r * m) % n \in 0 .. n - 1
    BY <2>1, Division
  <2>3. \A k \in 0 .. n - 1 : k \in Nat
    OBVIOUS
  <2>4. h \in Nat
    OBVIOUS
  <2> HIDE DEF s, h
  <2> QED
    BY <2>2, <2>3, <2>4
<1>9. q \in Nat
  <2> DEFINE z == (r * m) % n
  <2>1. z \in Nat /\ q = IF odd THEN z ELSE r
    BY <1>8
  <2> HIDE DEF z, odd, q
  <2> QED
    BY <2>1
<1>10. IsNumber(y.r, WORDS, q)
  <2> DEFINE z == (r * m) % n
  <2>1. IsNumber(product, WORDS, z) /\ q = IF odd THEN z ELSE r
    BY <1>4
  <2> HIDE DEF z, odd, q, product, y
  <2> QED
    BY <1>2, <1>6, <2>1
<1> HIDE DEF squared, product, half, q, s, h, y
<1>11. AreOfPower(y, b, t, n, s, h, q)
  BY <1>2, <1>4, <1>5, <1>6, <1>7, <1>10 DEF AreOfPower
<1>12. IsPower(y, b, t, n)
  BY <1>8, <1>9, <1>11 DEF IsPower
<1> QED
  BY <1>12 DEF y

-----------------------------------------------------------------------------
(* What is shown in hexadecimal is the text, increased by one. *)

LEMMA TextIncreased ==
  ASSUME NEW text \in Seq(0 .. 15)
  PROVE  IntegerIn(BnAsHttp(BnInc(BnParseHex(text)))) = (IntegerIn(text) + 1) % Fit
<1> DEFINE len == Len(text)
           parsed == BnParseHex(text)
           v == IntegerIn(text)
           w == (v + 1) % Fit
<1>1. len \in Nat /\ IsText(text, len, 0 .. 15)
  BY LenProperties DEF IsText
<1> HIDE DEF len
<1>2. IsNumber(parsed, WORDS, v)
  BY <1>1, ParsedIs
<1> HIDE DEF parsed, v
<1>3. IsNumber(BnInc(parsed), WORDS, w)
  BY <1>2, BnIncIs
<1> HIDE DEF w
<1>4. IntegerIn(BnAsHttp(BnInc(parsed))) = w
  BY <1>3, BnAsHttpIs
<1> QED
  BY <1>4 DEF parsed, v, w

-----------------------------------------------------------------------------
(* The invariant *)

LEMMA BnStarts == BnInit => BnInv
  BY DEF BnInit, BnInv

LEMMA BnMultiplies ==
  ASSUME NEW a \in BnValues, NEW b \in BnValues, Multiply(a, b)
  PROVE  BnInv'
<1>1. /\ WORDS \in Nat \ {0} /\ WORDS \in Nat
      /\ a \in 0 .. Fit - 1 /\ b \in 0 .. Fit - 1
  BY ValuesFit
<1>2. IsNumber(NumberOf(a, WORDS), WORDS, a) /\ IsNumber(NumberOf(b, WORDS), WORDS, b)
  BY <1>1, NumberOfIs DEF Fit
<1>3. IsNumber(BnMul(NumberOf(a, WORDS), NumberOf(b, WORDS)), 2 * WORDS, a * b)
  BY <1>1, <1>2, BnMulIs
<1>4. Multiplied(a, b)'
  BY <1>3 DEF Multiply, Multiplied
<1> QED
  BY <1>4 DEF BnInv

LEMMA BnDivides ==
  ASSUME BnInv, NEW d \in BnValues \ {0}, Divide(d)
  PROVE  BnInv'
<1>1. bnDoing[1] = "multiply"
  BY DEF Divide
<1>2. PICK a \in BnValues, b \in BnValues : Multiplied(a, b)
  BY <1>1 DEF BnInv, Divided, Exponentiated, Parsed
<1>3. /\ bnDoing = <<"multiply", a, b>> /\ IsNumber(bn, 2 * WORDS, a * b)
  BY <1>2 DEF Multiplied
<1>4. /\ WORDS \in Nat \ {0} /\ WORDS \in Nat
      /\ d \in 0 .. Fit - 1 /\ d # 0 /\ d \in Nat
      /\ a \in Nat /\ b \in Nat
  BY ValuesFit
<1>5. IsNumber(NumberOf(d, WORDS), WORDS, d)
  BY <1>4, NumberOfIs DEF Fit
<1> DEFINE x == a * b
           m == 2 * WORDS
<1>6. x \in Nat /\ IsNumber(bn, m, x)
  BY <1>3, <1>4
<1>7. bnDoing' = <<"divide", x, d>>
  BY <1>3 DEF Divide
<1> HIDE DEF x, m
<1>8. IsNumber(BnRem(bn, NumberOf(d, WORDS)), WORDS, x % d)
  BY <1>4, <1>5, <1>6, BnRemIs
<1>9. Divided(x, d)'
  BY <1>7, <1>8 DEF Divide, Divided
<1> QED
  BY <1>4, <1>6, <1>9 DEF BnInv

LEMMA BnExponentiates ==
  ASSUME NEW p \in BnPowers, Exponentiate(p)
  PROVE  BnInv'
<1>1. p[1] \in 0 .. Fit - 1 /\ p[2] \in 0 .. Fit - 1 /\ p[3] \in 0 .. Fit - 1 /\ p[3] # 0
  BY ValuesFit
<1>2. IsPower(BnModExpStart(NumberOf(p[1], WORDS), NumberOf(p[2], WORDS),
                            NumberOf(p[3], WORDS)), p[1], p[2], p[3])
  BY <1>1, PowerStarts
<1>3. Exponentiated("power", p)'
  BY <1>2 DEF Exponentiate, Exponentiated
<1> QED
  BY <1>3 DEF BnInv

LEMMA BnIterates ==
  ASSUME BnInv, Iterate
  PROVE  BnInv'
<1>1. bnDoing[1] = "power"
  BY DEF Iterate
<1>2. PICK kind \in {"power", "powered"}, p \in BnPowers : Exponentiated(kind, p)
  BY <1>1 DEF BnInv, Multiplied, Divided, Parsed
<1>3. bnDoing = <<"power", p>> /\ IsPower(bnPower, p[1], p[2], p[3])
  BY <1>1, <1>2 DEF Exponentiated
<1>4. p[1] \in Nat /\ p[2] \in Nat /\ p[3] \in Nat \ {0}
  BY ValuesFit
<1>5. IsPower(BnModExpIterate(bnPower), p[1], p[2], p[3])
  BY <1>3, <1>4, PowerIterates
<1>6. \E k \in {"power", "powered"} : bnDoing' = <<k, p>>
  BY <1>3 DEF Iterate
<1>7. PICK k \in {"power", "powered"} : Exponentiated(k, p)'
  BY <1>5, <1>6 DEF Iterate, Exponentiated
<1> QED
  BY <1>7 DEF BnInv

LEMMA BnParses ==
  ASSUME NEW text \in BnTexts, ParseAndShow(text)
  PROVE  BnInv'
<1>1. text \in Seq(0 .. 15)
  BY BnAssumption
<1>2. IntegerIn(BnAsHttp(BnInc(BnParseHex(text)))) = (IntegerIn(text) + 1) % Fit
  BY <1>1, TextIncreased
<1>3. Parsed(text)'
  BY <1>2 DEF ParseAndShow, Parsed
<1> QED
  BY <1>3 DEF BnInv

LEMMA BnSteps ==
  ASSUME BnInv, [BnNext]_bnVars
  PROVE  BnInv'
<1>1. ASSUME NEW a \in BnValues, NEW b \in BnValues, Multiply(a, b) PROVE BnInv'
  BY <1>1, BnMultiplies
<1>2. ASSUME NEW d \in BnValues \ {0}, Divide(d) PROVE BnInv'
  BY <1>2, BnDivides
<1>3. ASSUME NEW p \in BnPowers, Exponentiate(p) PROVE BnInv'
  BY <1>3, BnExponentiates
<1>4. CASE Iterate
  BY <1>4, BnIterates
<1>5. ASSUME NEW text \in BnTexts, ParseAndShow(text) PROVE BnInv'
  BY <1>5, BnParses
<1>6. CASE UNCHANGED bnVars
  BY <1>6 DEF bnVars, BnInv, Multiplied, Divided, Exponentiated, Parsed
<1> QED
  BY <1>1, <1>2, <1>3, <1>4, <1>5, <1>6 DEF BnNext

LEMMA BnAlways == BnSpec => []BnInv
<1>1. BnInv /\ [BnNext]_bnVars => BnInv'
  BY BnSteps
<1> QED
  BY BnStarts, <1>1, PTL DEF BnSpec

-----------------------------------------------------------------------------
(* What follows from it *)

LEMMA ArithmeticFollows == BnInv => BnIsArithmetic
<1> SUFFICES ASSUME BnInv PROVE BnIsArithmetic
  OBVIOUS
<1>1. CASE bnDoing = <<"nothing">>
  BY <1>1 DEF BnIsArithmetic
<1>2. ASSUME NEW a \in BnValues, NEW b \in BnValues, Multiplied(a, b) PROVE BnIsArithmetic
  <2>1. bnDoing[1] = "multiply" /\ bnDoing[2] = a /\ bnDoing[3] = b
    BY <1>2 DEF Multiplied
  <2>2. IntegerOf(bn) = a * b
    BY <1>2, IntegerOfNumber DEF Multiplied
  <2> QED
    BY <2>1, <2>2 DEF BnIsArithmetic
<1>3. ASSUME NEW x \in Nat, NEW d \in Nat \ {0}, Divided(x, d) PROVE BnIsArithmetic
  <2>1. bnDoing[1] = "divide" /\ bnDoing[2] = x /\ bnDoing[3] = d
    BY <1>3 DEF Divided
  <2>2. IntegerOf(bn) = x % d
    BY <1>3, IntegerOfNumber DEF Divided
  <2> QED
    BY <2>1, <2>2 DEF BnIsArithmetic
<1>4. ASSUME NEW kind \in {"power", "powered"}, NEW p \in BnPowers, Exponentiated(kind, p)
      PROVE  BnIsArithmetic
  <2>1. bnDoing[1] = "power" \/ bnDoing[1] = "powered"
    BY <1>4 DEF Exponentiated
  <2> QED
    BY <2>1 DEF BnIsArithmetic
<1>5. ASSUME NEW text \in BnTexts, Parsed(text) PROVE BnIsArithmetic
  <2>1. /\ bnDoing[1] = "parse" /\ bnDoing[2] = text
        /\ IntegerIn(bn) = (IntegerIn(text) + 1) % Raised(WordBase, WORDS)
    BY <1>5 DEF Parsed, Fit
  <2> QED
    BY <2>1 DEF BnIsArithmetic
<1> QED
  BY <1>1, <1>2, <1>3, <1>4, <1>5 DEF BnInv

LEMMA PowerFollows == BnInv => ModExpIsPower
<1> SUFFICES ASSUME BnInv, bnDoing[1] \in {"power", "powered"} PROVE ModExpIsPower
  BY DEF ModExpIsPower
<1>1. PICK kind \in {"power", "powered"}, p \in BnPowers : Exponentiated(kind, p)
  BY DEF BnInv, Multiplied, Divided, Parsed
<1>2. bnDoing[2] = p /\ IsPower(bnPower, p[1], p[2], p[3])
  BY <1>1 DEF Exponentiated
<1> DEFINE n == p[3]
           b == p[1]
           t == p[2]
<1>3. b \in Nat /\ t \in Nat /\ n \in Nat \ {0}
  BY ValuesFit
<1>4. PICK m \in Nat, e \in Nat, r \in Nat : AreOfPower(bnPower, b, t, n, m, e, r)
  BY <1>2 DEF IsPower
<1>5. IntegerOf(bnPower.m) = m /\ IntegerOf(bnPower.e) = e /\ IntegerOf(bnPower.r) = r
  BY <1>4, IntegerOfNumber DEF AreOfPower
<1>6. (r * PowerMod(m, e, n)) % n = PowerMod(b % n, t, n)
  BY <1>4 DEF AreOfPower
<1>7. b % n \in Nat
  <2> HIDE DEF n, b
  <2>1. b \in Int /\ n \in Nat \ {0}
    BY <1>3
  <2>2. b % n \in 0 .. n - 1
    BY <2>1, Division
  <2> QED
    BY <2>1, <2>2
<1> HIDE DEF n, b, t
<1>8. PowerOf(m, e, n) = PowerMod(m, e, n) /\ PowerOf(b % n, t, n) = PowerMod(b % n, t, n)
  BY <1>3, <1>7, PowerOfIs
<1>9. (IntegerOf(bnPower.r) * PowerOf(IntegerOf(bnPower.m), IntegerOf(bnPower.e), n)) % n
        = PowerOf(b % n, t, n)
  BY <1>5, <1>6, <1>8
<1> QED
  BY <1>2, <1>9 DEF ModExpIsPower, n, b, t

-----------------------------------------------------------------------------
(***************************************************************************)
(* The theorems                                                            *)
(***************************************************************************)

\* Whatever the width of a word and the number of words, for all numbers that fit:
\* the product of bn-arithmetic.c is the product of the integers, its remainder is
\* their remainder - for a divisor whose top bit is set too - and a text in
\* hexadecimal that is read, increased by one and shown is the number after it.
THEOREM NumbersAreIntegers == BnSpec => []BnIsArithmetic
<1>1. BnInv => BnIsArithmetic
  BY ArithmeticFollows
<1> QED
  BY BnAlways, <1>1, PTL

\* Whatever the width and the message, exponent and modulus: before and after every
\* call of bn-modexp.c the numbers it keeps still come to the power that is wanted, so
\* that the number left when the exponent is used up is that power.
THEOREM ModExpsArePowers == BnSpec => []ModExpIsPower
<1>1. BnInv => ModExpIsPower
  BY PowerFollows
<1> QED
  BY BnAlways, <1>1, PTL

=============================================================================
