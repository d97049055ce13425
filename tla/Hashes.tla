------------------------------- MODULE Hashes -------------------------------
(***************************************************************************)
(* The hashes and MACs as the program uses them: a message is hashed as it *)
(* arrives, in pieces of any length, and the handshake hash is read off a  *)
(* copy in between, when the client's Finished is due, and goes on.        *)
(***************************************************************************)
EXTENDS Sha256, Sha1

CONSTANTS KeyLengths,   \* of MAC keys: a master secret has 48 bytes, a MAC key 20
          PieceLengths, \* of the pieces of a message
          MaxMessage    \* bound on the length of a message

\* The length of what is hashed, in bits, with the block that a key fills before it,
\* is below 2^31.
ASSUME HashesAssumption ==
  /\ KeyLengths \subseteq Nat /\ \A n \in KeyLengths : 8 * n <= 2147483647
  /\ PieceLengths \subseteq Nat
  /\ MaxMessage \in Nat /\ 8 * (MaxMessage + 64) <= 2147483647

VARIABLES hashKey, hashMessage,    \* what has been given so far
          sha256, sha1, hmac256, hmac1,
          hashRead                 \* whether copies of them are finished and read now

hashVars == <<hashKey, hashMessage, sha256, sha1, hmac256, hmac1, hashRead>>

HmacSha1 == INSTANCE Hmac WITH HASH_SIZE <- SHA1_HASH_SIZE, ShaStart <- Sha1Start,
              ShaAdd <- Sha1Add, ShaFinish <- Sha1Finish, Sha <- Sha1

HmacSha256 == INSTANCE Hmac WITH HASH_SIZE <- SHA256_HASH_SIZE, ShaStart <- Sha256Start,
                ShaAdd <- Sha256Add, ShaFinish <- Sha256Finish, Sha <- Sha256

HashInit ==
  /\ \E n \in KeyLengths : hashKey = Given("key", n)
  /\ hashMessage = <<>> /\ hashRead = FALSE
  /\ sha256 = Sha256Start /\ sha1 = Sha1Start
  /\ hmac256 = HmacSha256!Start(hashKey) /\ hmac1 = HmacSha1!Start(hashKey)

HashAdd(n) ==
  LET piece == [i \in 1 .. n |-> Octet("message", Len(hashMessage) + i)]
  IN  /\ Len(hashMessage) + n <= MaxMessage
      /\ hashMessage' = hashMessage \o piece
      /\ sha256' = Sha256Add(sha256, piece) /\ sha1' = Sha1Add(sha1, piece)
      /\ hmac256' = HmacSha256!Add(hmac256, piece) /\ hmac1' = HmacSha1!Add(hmac1, piece)
      /\ hashRead' = FALSE
      /\ UNCHANGED hashKey

\* The copies are not kept: what is finished itself cannot go on.
HashFinish ==
  /\ ~ hashRead /\ hashRead' = TRUE
  /\ UNCHANGED <<hashKey, hashMessage, sha256, sha1, hmac256, hmac1>>

HashNext == HashFinish \/ \E n \in PieceLengths : HashAdd(n)

HashSpec == HashInit /\ [][HashNext]_hashVars

-----------------------------------------------------------------------------
(***************************************************************************)
(* FIPS 180-4 and RFC 2104, written from the standards.                    *)
(***************************************************************************)

Blocks(padded) == [b \in 1 .. Len(padded) \div 64 |-> SubSeq(padded, 64 * b - 63, 64 * b)]

\* The least number of zeros that makes whole blocks.
PaddedMessage(m) ==
  m \o <<Byte(128)>> \o Filled((55 - Len(m)) % 64, Byte(0)) \o BigEndian(8 * Len(m), 8)

Digest(m, size) == [i \in 1 .. size |-> HashOctet(Blocks(PaddedMessage(m)), i)]

MacOf(key, m, size) ==
  LET k == IF Len(key) > 64 THEN Digest(key, size) ELSE key
      pad(n) == [i \in 1 .. 64 |-> Xored(IF i <= Len(k) THEN k[i] ELSE Byte(0), n)]
  IN  Digest(pad(92) \o Digest(pad(54) \o m, size), size)

-----------------------------------------------------------------------------
(***************************************************************************)
(* Properties                                                              *)
(***************************************************************************)

\* Wherever the pieces were cut, and however often a copy was finished meanwhile,
\* both hashes are those of the whole message, and nothing of the memory they
\* started in is in them.
DigestIsOfMessage ==
  hashRead =>
    /\ Sha256Finish(sha256) = Digest(hashMessage, SHA256_HASH_SIZE)
    /\ Sha1Finish(sha1) = Digest(hashMessage, SHA1_HASH_SIZE)

\* So are the MACs those of the whole message under the key, for keys shorter
\* than a block, as long as one, and longer.
MacIsHmac ==
  hashRead =>
    /\ HmacSha256!Finish(hmac256) = MacOf(hashKey, hashMessage, SHA256_HASH_SIZE)
    /\ HmacSha1!Finish(hmac1) = MacOf(hashKey, hashMessage, SHA1_HASH_SIZE)

=============================================================================
