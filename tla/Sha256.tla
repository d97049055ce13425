------------------------------- MODULE Sha256 -------------------------------
(***************************************************************************)
(* crypto/sha/sha256.c: the running hash of the handshake and of the PRF.  *)
(* The compression function is a free symbol, so the chaining value is the *)
(* sequence of the blocks that have been compressed into it.               *)
(***************************************************************************)
EXTENDS Octets

SHA256_BLOCK_SIZE == 64
SHA256_HASH_SIZE == 32

Sha256Start == [state |-> <<>>, curlen |-> 0, length |-> 0,
                buf |-> Filled(SHA256_BLOCK_SIZE, Unset)]

Sha256Compress(md, block) == [md EXCEPT !.state = Append(@, block)]

\* Mutant: a block that fills up in the buffer is not counted in the length.
Sha256BufferedUncounted(md, in) ==
  LET buf == Overwritten(md.buf, md.curlen, in)
      to == md.curlen + Len(in)
  IN  IF to = SHA256_BLOCK_SIZE
      THEN Sha256Compress([md EXCEPT !.buf = buf, !.curlen = 0], buf)
      ELSE [md EXCEPT !.buf = buf, !.curlen = to]

\* Bytes that go to the buffer, which is compressed when it is full.
Sha256Buffered(md, in) ==
  LET buf == Overwritten(md.buf, md.curlen, in)
      to == md.curlen + Len(in)
  IN  IF to = SHA256_BLOCK_SIZE
      THEN Sha256Compress([md EXCEPT !.buf = buf, !.curlen = 0,
                                     !.length = @ + 8 * SHA256_BLOCK_SIZE], buf)
      ELSE [md EXCEPT !.buf = buf, !.curlen = to]

\* Once round the loop of Sha256Add: a whole block as it is, or as many bytes as the
\* buffer has room for.
Sha256Taken(md, in) ==
  LET room == SHA256_BLOCK_SIZE - md.curlen
      n == IF Len(in) < room THEN Len(in) ELSE room
  IN  [md |-> IF md.curlen = 0 /\ Len(in) >= SHA256_BLOCK_SIZE
              THEN [Sha256Compress(md, First(in, n)) EXCEPT !.length = @ + 8 * SHA256_BLOCK_SIZE]
              ELSE Sha256Buffered(md, First(in, n)),
       in |-> After(in, n)]

\* after[k]: when the loop has gone round k times, if it goes round so often.
Sha256Add(md, in) ==
  LET after[k \in Nat] ==
        IF k = 0 THEN [md |-> md, in |-> in]
        ELSE LET a == after[k - 1]
             IN  IF Len(a.in) > 0 THEN Sha256Taken(a.md, a.in) ELSE a
  IN  after[(Len(in) \div SHA256_BLOCK_SIZE) + 2].md

\* The message ends: a 1 bit, zeros, and the length in the last 8 bytes of a
\* block, of a second one if the first has no room for it.
Sha256Finish(md) ==
  LET length == md.length + md.curlen * 8
      ended == [md EXCEPT !.buf = Overwritten(@, md.curlen, <<Byte(128)>>),
                          !.curlen = @ + 1]
      zeros == Filled(SHA256_BLOCK_SIZE, Byte(0))
      cleared == IF ended.curlen > 56
                 THEN [Sha256Compress(ended, Overwritten(ended.buf, ended.curlen, zeros))
                         EXCEPT !.curlen = 0]
                 ELSE ended
      last == First(Overwritten(cleared.buf, cleared.curlen, zeros), 56) \o BigEndian(length, 8)
      blocks == Sha256Compress(cleared, last).state
  IN  [i \in 1 .. SHA256_HASH_SIZE |-> HashOctet(blocks, i)]

Sha256(in) == Sha256Finish(Sha256Add(Sha256Start, in))

=============================================================================
