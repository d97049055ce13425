-------------------------------- MODULE Hmac --------------------------------
(***************************************************************************)
(* crypto/hmac/hmac-sha1.c and hmac-sha256.c, which differ in their hash.  *)
(***************************************************************************)
EXTENDS Octets

CONSTANTS HASH_SIZE,
          ShaStart, ShaAdd(_, _), ShaFinish(_),  \* the running hash
          Sha(_)                                 \* of a whole message

BLOCK_SIZE == 64

Padded(key, n) == [i \in 1 .. BLOCK_SIZE |-> Xored(key[i], n)]

\* Mutant: a key as long as a block is hashed too.
HmacKeyOfBlockHashed(key) ==
  LET short == IF Len(key) >= BLOCK_SIZE THEN Sha(key) ELSE key
  IN  short \o Filled(BLOCK_SIZE - Len(short), Byte(0))

\* A key that is longer than a block is hashed; zeros fill it up.
HmacKey(key) ==
  LET short == IF Len(key) > BLOCK_SIZE THEN Sha(key) ELSE key
  IN  short \o Filled(BLOCK_SIZE - Len(short), Byte(0))

Start(key) == [hmacKey |-> HmacKey(key),
               shaStruct |-> ShaAdd(ShaStart, Padded(HmacKey(key), 54))]

Add(md, message) == [md EXCEPT !.shaStruct = ShaAdd(@, message)]

Finish(md) ==
  LET innerHash == ShaFinish(md.shaStruct)
  IN  ShaFinish(ShaAdd(ShaAdd(ShaStart, Padded(md.hmacKey, 92)), innerHash))

Mac(key, message) == Finish(Add(Start(key), message))

=============================================================================
