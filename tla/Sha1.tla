-------------------------------- MODULE Sha1 --------------------------------
(***************************************************************************)
(* crypto/sha/sha1.c: the hash of the record MACs.  As in Sha256 the       *)
(* chaining value is the sequence of the blocks compressed into it.        *)
(***************************************************************************)
EXTENDS Octets

SHA1_BLOCK_SIZE == 64
SHA1_HASH_SIZE == 20

Sha1Start == [state |-> <<>>, count |-> 0, buf |-> Filled(SHA1_BLOCK_SIZE, Unset)]

Sha1Transform(ctx) == [ctx EXCEPT !.state = Append(@, ctx.buf)]

\* Bytes from position i on that do not pass the end of the buffer.
Sha1Buffered(ctx, i, in) ==
  LET filled == [ctx EXCEPT !.buf = Overwritten(@, i, in), !.count = @ + Len(in)]
  IN  IF i + Len(in) = SHA1_BLOCK_SIZE THEN Sha1Transform(filled) ELSE filled

\* after[k]: when the loop has gone round k times, if it goes round so often.
Sha1Add(ctx, in) ==
  LET Filling(c) == c.count % SHA1_BLOCK_SIZE
      Room(c) == SHA1_BLOCK_SIZE - Filling(c)
      after[k \in Nat] ==
        IF k = 0 THEN [ctx |-> ctx, in |-> in]
        ELSE LET a == after[k - 1]
             IN  IF Len(a.in) > Room(a.ctx)
                 THEN [ctx |-> Sha1Buffered(a.ctx, Filling(a.ctx), First(a.in, Room(a.ctx))),
                       in |-> After(a.in, Room(a.ctx))]
                 ELSE a
      last == after[(Len(in) \div SHA1_BLOCK_SIZE) + 1]
  IN  Sha1Buffered(last.ctx, Filling(last.ctx), last.in)

\* Zeros, one by one, until the length fits exactly.
Sha1Padded(ctx) ==
  LET IsPadded(c) == c.count % SHA1_BLOCK_SIZE = SHA1_BLOCK_SIZE - 8
      after[k \in Nat] ==
        IF k = 0 THEN ctx
        ELSE LET c == after[k - 1] IN IF IsPadded(c) THEN c ELSE Sha1Add(c, <<Byte(0)>>)
  IN  after[SHA1_BLOCK_SIZE - 1]

\* The length is a 32 bit number that the code shifts by up to 56 places to get
\* at its upper bytes; the Cortex-M3's shift makes 0 of that.
Sha1Finish(ctx) ==
  LET length == BigEndian(ctx.count * 8, 8)
      blocks == Sha1Add(Sha1Padded(Sha1Add(ctx, <<Byte(128)>>)), length).state
  IN  [i \in 1 .. SHA1_HASH_SIZE |-> HashOctet(blocks, i)]

Sha1(in) == Sha1Finish(Sha1Add(Sha1Start, in))

=============================================================================
