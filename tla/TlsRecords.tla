----------------------------- MODULE TlsRecords -----------------------------
(***************************************************************************)
(* crypto/tls/tls-aes128cbc-sha and the records of tls-response.c: the     *)
(* bytes of the server's flights, and how a page is cut into records that  *)
(* fit the windows that TCP has to fill, from a handshake to the last      *)
(* record.  TlsServer has the handshake itself; here the client always     *)
(* goes on as it should.                                                   *)
(*                                                                         *)
(* The client is in no file of this repository: it is RFC 5246.  HttpAdd   *)
(* is in another repository too; it gives the bytes of the page from a     *)
(* position on.  What AES makes of a text is a term.                       *)
(***************************************************************************)
EXTENDS Sha1, TlsPrf

CONSTANTS WindowSizes,  \* the room TCP may have for a record
          PageLength, SerCerSize,
          RequestLengths, Paddings, \* of the client's records
          MaxRecords, MaxRequests \* bounds on the records of the server and of the client

\* A window has room for the overhead of a record, and two bytes for the size of a
\* message.
ASSUME RecordsAssumption ==
  /\ WindowSizes \subseteq Nat /\ \A w \in WindowSizes : w >= 57
  /\ PageLength \in Nat
  /\ SerCerSize \in Nat /\ SerCerSize + 6 < 65536
  /\ RequestLengths \subseteq Nat /\ Paddings \subseteq 0 .. 255

VARIABLES recStep,   \* "hello", "finished", "application", "closed"
          resume,    \* whether the session is resumed
          position,  \* positionOfWindowInStream: the bytes sent so far
          serverPositionInStreamOffset, serverSequence,
          sent,      \* the server's records
          asked, got \* the payloads the client has sent, and HttpRequest received

recVars == <<recStep, resume, position, serverPositionInStreamOffset, serverSequence, sent,
             asked, got>>

AES128CBC_BLOCK_SIZE == 16
\* Mutant: the byte that holds the length of the padding is forgotten.
OverheadWithoutLength == AES128CBC_BLOCK_SIZE + SHA1_HASH_SIZE + AES128CBC_BLOCK_SIZE - 1

TLS_AES_128_CBC_SHA1_MAX_OVERHEAD ==
  AES128CBC_BLOCK_SIZE + SHA1_HASH_SIZE + AES128CBC_BLOCK_SIZE - 1 + 1

HANDSHAKE == 22
CHANGE_CIPHER == 20
APPLICATION == 23

PreMaster == <<"pre-master secret">>
ClientRandom == <<"client random">>
ServerRandom == <<"server random">>
HandshakeHash == <<"hash of the handshake">>
Master == TlsPrfMasterSecret(PreMaster, ClientRandom, ServerRandom)
ServerKeys == TlsPrfKeysAes128Sha1(Master, ClientRandom, ServerRandom)

Page == Given("page", PageLength)

RecInit ==
  /\ recStep = "hello" /\ resume \in BOOLEAN
  /\ position = 0 /\ serverPositionInStreamOffset = 0 /\ serverSequence = 0
  /\ sent = <<>> /\ asked = <<>> /\ got = <<>>

-----------------------------------------------------------------------------
\* TlsMacSha1: what the MAC is of.  (The upper half of the sequence is 0 here.)
MacText(sequence, contentType, payload) ==
  BigEndian(sequence, 8) \o <<Byte(contentType), Byte(3), Byte(3)>>
    \o BigEndian(Len(payload), 2) \o payload

TlsMacSha1(macKey, sequence, contentType, payload) ==
  [i \in 1 .. SHA1_HASH_SIZE |-> <<"mac", macKey, MacText(sequence, contentType, payload), i>>]

\* encryptAddPadding.
Padding(payload) ==
  LET paddingSize == AES128CBC_BLOCK_SIZE - 1
                       - ((Len(payload) + SHA1_HASH_SIZE + 1 - 1) % AES128CBC_BLOCK_SIZE)
  IN  Filled(paddingSize + 1, Byte(paddingSize))

\* From EncryptStart to EncryptEnd: a random IV and the payload, MAC and padding
\* under it.  length is that of the record's content.
Encrypt(sequence, contentType, payload) ==
  LET text == payload \o TlsMacSha1(ServerKeys.serverMacKey, sequence, contentType, payload)
                \o Padding(payload)
  IN  [type |-> contentType, length |-> AES128CBC_BLOCK_SIZE + Len(text),
       key |-> ServerKeys.serverWriteKey, text |-> text]

Plain(contentType, bytes) == [type |-> contentType, length |-> Len(bytes), text |-> bytes]

Size(record) == 5 + record.length

\* A handshake message, its size filled in behind it.
Message(type, body) == <<Byte(type), Byte(0)>> \o BigEndian(Len(body), 2) \o body

ServerHello ==
  Message(2, <<Byte(3), Byte(3)>> \o Given("server random", 32)
             \o <<Byte(4)>> \o Given("session id", 4) \o <<Byte(0), Byte(47), Byte(0)>>
             \o <<Byte(0), Byte(5), Byte(255), Byte(1), Byte(0), Byte(1), Byte(0)>>)

Certificate ==
  <<Byte(11), Byte(0)>> \o BigEndian(SerCerSize + 6, 2) \o <<Byte(0)>>
    \o BigEndian(SerCerSize + 3, 2) \o <<Byte(0)>> \o BigEndian(SerCerSize, 2)
    \o Given("certificate", SerCerSize)

ServerHelloDone == Message(14, <<>>)

\* The 12 bytes of check value.
Verify == [i \in 1 .. 12 |-> <<"verify", TlsPrfServerFinished(Master, HandshakeHash), i>>]

\* sendServerChange, and the end of sendServerHelloResume: the sequence begins
\* with the Finished message.
ChangeAndFinished ==
  <<Plain(CHANGE_CIPHER, <<Byte(1)>>), Encrypt(0, HANDSHAKE, Message(20, Verify))>>

SizeOf(records) ==
  LET size[k \in 0 .. Len(records)] == IF k = 0 THEN 0 ELSE size[k - 1] + Size(records[k])
  IN  size[Len(records)]

\* The records of a flight; the page begins behind them.
SendFlight(records, sequence, next) ==
  /\ sent' = sent \o records
  /\ position' = position + SizeOf(records)
  /\ serverPositionInStreamOffset' = position + SizeOf(records)
  /\ serverSequence' = sequence
  /\ recStep' = next
  /\ UNCHANGED <<resume, asked, got>>

SendServerHelloNew ==
  /\ recStep = "hello" /\ ~ resume
  /\ SendFlight(<<Plain(HANDSHAKE, ServerHello \o Certificate \o ServerHelloDone)>>,
                serverSequence + 1, "finished")

SendServerChange ==
  /\ recStep = "finished"
  /\ SendFlight(ChangeAndFinished, 1, "application")

SendServerHelloResume ==
  /\ recStep = "hello" /\ resume
  /\ SendFlight(<<Plain(HANDSHAKE, ServerHello)>> \o ChangeAndFinished, 1, "application")

\* External: the bytes of the page from position at on that there is room for.
HttpAdd(at, room) == First(After(Page, at), IF room < PageLength - at THEN room ELSE PageLength - at)

\* Mutant: what the record is longer than its payload is not made good.
SendContentWithoutOffset(window) ==
  LET payload == HttpAdd(position - serverPositionInStreamOffset,
                         window - 5 - TLS_AES_128_CBC_SHA1_MAX_OVERHEAD)
      record == Encrypt(serverSequence, APPLICATION, payload)
      at == position - serverPositionInStreamOffset
  IN  /\ recStep = "application"
      /\ Len(sent) < MaxRecords
      /\ sent' = Append(sent, record)
      /\ serverSequence' = serverSequence + 1
      /\ position' = position + Size(record)
      /\ recStep' = IF at + Len(payload) >= PageLength THEN "closed" ELSE recStep
      /\ UNCHANGED <<resume, serverPositionInStreamOffset, asked, got>>

\* sendContent: as much of the page as is sure to fit the window.
SendContent(window) ==
  LET at == position - serverPositionInStreamOffset
      payload == HttpAdd(at, window - 5 - TLS_AES_128_CBC_SHA1_MAX_OVERHEAD)
      record == Encrypt(serverSequence, APPLICATION, payload)
  IN  /\ recStep = "application"
      /\ Len(sent) < MaxRecords
      /\ sent' = Append(sent, record)
      /\ serverSequence' = serverSequence + 1
      /\ position' = position + Size(record)
      /\ serverPositionInStreamOffset' = serverPositionInStreamOffset + Size(record) - Len(payload)
      /\ recStep' = IF at + Len(payload) >= PageLength THEN "closed" ELSE recStep
      /\ UNCHANGED <<resume, asked, got>>

-----------------------------------------------------------------------------
\* External: a request as RFC 5246 has it encrypted, with any padding that
\* makes whole blocks.  The MAC is not looked at.
ClientText(payload, padding) ==
  payload \o Given("mac", SHA1_HASH_SIZE) \o Filled(padding + 1, Byte(padding))

\* Mutant: the byte that holds the length of the padding is taken for payload.
PlainWithLength(text) ==
  LET paddingLength == text[Len(text)][2]
  IN  First(text, Len(text) - paddingLength - SHA1_HASH_SIZE)

\* TlsAes128CbcSha1Decrypt: text is what lies behind the IV, decrypted.
PlainOf(text) ==
  LET length == AES128CBC_BLOCK_SIZE + Len(text)
      paddingLength == text[Len(text)][2]
  IN  First(text, length - AES128CBC_BLOCK_SIZE - paddingLength - SHA1_HASH_SIZE - 1)

AskForPage(n, padding) ==
  LET payload == [i \in 1 .. n |-> <<"request", Len(asked), i>>]
      text == ClientText(payload, padding)
  IN  /\ recStep = "application"
      /\ Len(asked) < MaxRequests
      /\ Len(text) % AES128CBC_BLOCK_SIZE = 0
      /\ asked' = Append(asked, payload)
      /\ got' = Append(got, PlainOf(text))
      /\ UNCHANGED <<recStep, resume, position, serverPositionInStreamOffset, serverSequence, sent>>

RecNext ==
  \/ SendServerHelloNew
  \/ SendServerHelloResume
  \/ SendServerChange
  \/ \E w \in WindowSizes : SendContent(w)
  \/ \E n \in RequestLengths, padding \in Paddings : AskForPage(n, padding)

RecSpec == RecInit /\ [][RecNext]_recVars

-----------------------------------------------------------------------------
(***************************************************************************)
(* Properties: what a client makes of the server's records by RFC 5246.    *)
(***************************************************************************)

\* Section 5 and 6.3 of the RFC: the blocks of P_SHA256 and the keys cut from them.
KeyBlock ==
  LET seed == <<<<"key expansion">>, ServerRandom, ClientRandom>>
      hmac(text) == <<"hmac", Master, text>>
      a == [i \in 0 .. 4 |-> CASE i = 0 -> seed
                               [] i = 1 -> <<hmac(seed)>>
                               [] i = 2 -> <<hmac(<<hmac(seed)>>)>>
                               [] i = 3 -> <<hmac(<<hmac(<<hmac(seed)>>)>>)>>
                               [] i = 4 -> <<hmac(<<hmac(<<hmac(<<hmac(seed)>>)>>)>>)>>]
  IN  [i \in 1 .. 4 |-> hmac(a[i] \o seed)]

MacKey == [of |-> KeyBlock, from |-> 20, n |-> 20]
WriteKey == [of |-> KeyBlock, from |-> 56, n |-> 16]

\* Record k is encrypted if a change of ciphers comes before it.
ChangedAt == {k \in 1 .. Len(sent) : sent[k].type = CHANGE_CIPHER}
IsEncrypted(k) == \E c \in ChangedAt : c < k

PaddingLength(record) == record.text[Len(record.text)][2]
Payload(record) == First(record.text, Len(record.text) - PaddingLength(record) - 21)

\* A record that is encrypted, the i-th since the change, counted from 0.
Opens(record, i) ==
  LET n == Len(Payload(record))
  IN  /\ record.key = WriteKey
      /\ Len(record.text) % 16 = 0
      /\ \A j \in n + 21 .. Len(record.text) : record.text[j] = Byte(PaddingLength(record))
      /\ \A j \in 1 .. 20 :
           record.text[n + j] =
             <<"mac", MacKey, BigEndian(i, 8) \o <<Byte(record.type), Byte(3), Byte(3)>>
                                \o BigEndian(n, 2) \o Payload(record), j>>

\* The bytes of a handshake record are messages of these types and lengths: each
\* begins where the length in the header of the one before it says.
AreMessages(bytes, messages) ==
  LET start[i \in 1 .. Len(messages) + 1] ==
        IF i = 1 THEN 0 ELSE start[i - 1] + 4 + messages[i - 1][2]
  IN  /\ Len(bytes) = start[Len(messages) + 1]
      /\ \A i \in 1 .. Len(messages) :
           LET Header(j) == bytes[start[i] + j][2]
           IN  /\ Header(1) = messages[i][1]
               /\ Header(2) * 65536 + Header(3) * 256 + Header(4) = messages[i][2]

\* The hello, the certificate and the end of the server's flight are told apart by
\* their lengths; what follows the change of ciphers opens with the client's keys,
\* its MAC made with the number of the record since then.
RecordsOpen ==
  \A k \in 1 .. Len(sent) :
    IF IsEncrypted(k)
    THEN \A c \in ChangedAt : Opens(sent[k], k - c - 1)
    ELSE sent[k].type = HANDSHAKE =>
           AreMessages(sent[k].text,
                       IF resume THEN <<<<2, 49>>>>
                       ELSE <<<<2, 49>>, <<11, SerCerSize + 6>>, <<14, 0>>>>)

\* The payloads of the records, one behind the other, are the page from its first
\* byte on, none of it lost or sent twice; all of it when the server closes.
Contents[k \in 0 .. Len(sent)] ==
  IF k = 0 THEN <<>>
  ELSE Contents[k - 1] \o (IF sent[k].type = APPLICATION THEN Payload(sent[k]) ELSE <<>>)

PageArrives ==
  LET contents == Contents[Len(sent)]
  IN  /\ contents = First(Page, Len(contents))
      /\ recStep = "closed" => contents = Page

\* A record never fills more than the window it is made for.
RecordsFit == [][\A w \in WindowSizes : SendContent(w) => position' - position <= w]_recVars

\* The server reads what the client has sent, however much padding is behind it.
RequestsAreRead == got = asked

=============================================================================
